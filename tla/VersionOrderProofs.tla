-------------------------- MODULE VersionOrderProofs --------------------------
(***************************************************************************)
(* Theorems of VersionOrder, for versions of any length over any bytes, and *)
(* any number of them.                                                     *)
(***************************************************************************)
EXTENDS VersionOrder, FiniteSetTheorems, SequenceTheorems, WellFoundedInduction, TLAPS

-----------------------------------------------------------------------------
\* Least numbers, and what follows from them by induction.  The sets stand for
\* the predicates that the induction is about.

LEMMA LeastExists ==
    ASSUME NEW S \in SUBSET Nat, S # {}
    PROVE  \E x \in S : \A y \in S : x <= y
<1>1. PICK x \in S : \A y \in S : <<y, x>> \notin OpToRel(<, Nat)
  BY NatLessThanWellFounded, WFMin
<1>2. \A y \in S : x <= y
  <2>1. ASSUME NEW y \in S, y < x
        PROVE  <<y, x>> \in OpToRel(<, Nat)
    BY <2>1 DEF OpToRel
  <2>2. \A y \in S : ~(y < x)
    BY <1>1, <2>1
  <2>3. QED
    BY <2>2
<1>3. QED
  BY <1>2

LEMMA MinIsLeast ==
    ASSUME NEW S \in SUBSET Nat, S # {}
    PROVE  Min(S) \in S /\ \A y \in S : Min(S) <= y
  BY LeastExists DEF Min

LEMMA MaxIsGreatest ==
    ASSUME NEW N \in Nat, NEW S \in SUBSET (0 .. N), S # {}
    PROVE  Max(S) \in S /\ \A y \in S : y <= Max(S)
<1>. DEFINE T == {n \in Nat : \E s \in S : n = N - s}
<1>1. T \subseteq Nat /\ T # {}
  <2>1. PICK s \in S : TRUE
    OBVIOUS
  <2>2. N - s \in T
    OBVIOUS
  <2>3. QED
    BY <2>2
<1>2. PICK x \in T : \A y \in T : x <= y
  BY <1>1, LeastExists
<1>3. PICK s \in S : x = N - s
  OBVIOUS
<1>4. ASSUME NEW y \in S PROVE s >= y
  <2>1. N - y \in T
    OBVIOUS
  <2>2. x <= N - y
    BY <1>2, <2>1
  <2>3. QED
    BY <1>3, <2>2
<1>5. Max(S) \in S /\ \A y \in S : Max(S) >= y
  BY <1>4 DEF Max
<1>6. QED
  BY <1>5

LEMMA Climb ==
    ASSUME NEW N \in Nat, NEW Good,
           0 \in Good, \A n \in 0 .. N - 1 : n \in Good => n + 1 \in Good
    PROVE  \A n \in 0 .. N : n \in Good
<1>. DEFINE Bad == {n \in 0 .. N : n \notin Good}
<1>. SUFFICES ASSUME Bad # {} PROVE FALSE
  OBVIOUS
<1>1. Bad \subseteq Nat
  OBVIOUS
<1>2. PICK n \in Bad : \A m \in Bad : n <= m
  <2>. HIDE DEF Bad
  <2>1. QED
    BY <1>1, LeastExists
<1>3. n # 0 /\ n - 1 \in 0 .. N - 1
  OBVIOUS
<1>4. n - 1 \in Good
  BY <1>2, <1>3
<1>5. QED
  BY <1>3, <1>4

LEMMA BySize ==
    ASSUME NEW S, NEW size \in [S -> Nat], NEW Good,
           \A s \in S : (\A r \in S : size[r] < size[s] => r \in Good) => s \in Good
    PROVE  S \subseteq Good
<1>. DEFINE Bad == {s \in S : s \notin Good}
            Sizes == {size[s] : s \in Bad}
<1>. SUFFICES ASSUME Bad # {} PROVE FALSE
  OBVIOUS
<1>1. Sizes \subseteq Nat /\ Sizes # {}
  OBVIOUS
<1>2. PICK n \in Sizes : \A m \in Sizes : n <= m
  <2>. HIDE DEF Sizes
  <2>1. QED
    BY <1>1, LeastExists
<1>3. PICK s \in Bad : n = size[s]
  OBVIOUS
<1>4. ASSUME NEW r \in S, size[r] < size[s]
      PROVE  r \in Good
  <2>1. r \in Bad => size[r] \in Sizes
    OBVIOUS
  <2>2. size[r] \in Sizes => size[s] <= size[r]
    BY <1>2, <1>3
  <2>3. size[r] \in Nat /\ size[s] \in Nat
    BY <1>3
  <2>4. QED
    BY <1>4, <2>1, <2>2, <2>3
<1>5. QED
  BY <1>3, <1>4

-----------------------------------------------------------------------------
\* Recursive functions.  At an end the value is given, elsewhere it is a step
\* from the value of what is left, which is smaller.
Recurs(f, S, Ends, base, rest, step) ==
    f = [s \in S |-> IF s \in Ends THEN base[s] ELSE step[s][f[rest[s]]]]

\* Such a function exists.
LEMMA RecursionExists ==
    ASSUME NEW S, NEW T, NEW Ends, NEW size \in [S -> Nat],
           NEW base, \A s \in S : s \in Ends => base[s] \in T,
           NEW rest, \A s \in S : s \notin Ends => rest[s] \in S /\ size[rest[s]] < size[s],
           NEW step, \A s \in S : s \notin Ends => step[s] \in [T -> T],
           T # {}
    PROVE  \E f \in [S -> T] : Recurs(f, S, Ends, base, rest, step)
<1>. DEFINE Body(f, s) == IF s \in Ends THEN base[s] ELSE step[s][f[rest[s]]]
            \* f is right where s is smaller than n
            Upto(f, n) == \A s \in S : size[s] < n => f[s] = Body(f, s)
            Reached == {n \in Nat : \E f \in [S -> T] : Upto(f, n)}
<1>1. ASSUME NEW f \in [S -> T], NEW s \in S
      PROVE  Body(f, s) \in T
  OBVIOUS
<1>2. \A n \in Nat : n \in Reached
  <2>1. 0 \in Reached
    <3>1. PICK t \in T : TRUE
      OBVIOUS
    <3>2. [s \in S |-> t] \in [S -> T] /\ Upto([s \in S |-> t], 0)
      OBVIOUS
    <3>3. QED
      BY <3>2
  <2>2. ASSUME NEW n \in Nat, n \in Reached
        PROVE  n + 1 \in Reached
    <3>1. PICK f \in [S -> T] : Upto(f, n)
      BY <2>2
    <3>. DEFINE g == [s \in S |-> Body(f, s)]
    <3>2. g \in [S -> T]
      BY <1>1
    <3>3. ASSUME NEW s \in S, size[s] < n + 1
          PROVE  g[s] = Body(g, s)
      <4>1. CASE s \in Ends
        BY <4>1
      <4>2. CASE s \notin Ends
        <5>1. rest[s] \in S /\ size[rest[s]] < n
          BY <3>3, <4>2
        <5>2. f[rest[s]] = Body(f, rest[s])
          BY <3>1, <5>1
        <5>3. g[rest[s]] = f[rest[s]]
          BY <5>1, <5>2
        <5>4. g[s] = step[s][f[rest[s]]]
          BY <4>2
        <5>5. Body(g, s) = step[s][g[rest[s]]]
          BY <4>2
        <5>6. QED
          BY <5>3, <5>4, <5>5
      <4>3. QED
        BY <4>1, <4>2
    <3>4. Upto(g, n + 1)
      BY <3>3
    <3>5. \E e \in [S -> T] : Upto(e, n + 1)
      BY <3>2, <3>4
    <3>6. QED
      BY <3>5
  <2>3. ASSUME NEW N \in Nat PROVE \A n \in 0 .. N : n \in Reached
    <3>. HIDE DEF Reached
    <3>1. \A n \in 0 .. N - 1 : n \in Reached => n + 1 \in Reached
      BY <2>2
    <3>2. QED
      BY <2>1, <3>1, Climb
  <2>4. QED
    <3>. HIDE DEF Reached
    <3>1. ASSUME NEW n \in Nat PROVE n \in Reached
      BY <2>3, n \in 0 .. n
    <3>2. QED
      BY <3>1
\* Two functions that are right so far agree so far.
<1>3. ASSUME NEW n \in Nat, NEW m \in Nat,
             NEW f \in [S -> T], NEW g \in [S -> T], Upto(f, n), Upto(g, m)
      PROVE  \A s \in S : size[s] < n /\ size[s] < m => f[s] = g[s]
  <2>. DEFINE Same == {s \in S : size[s] < n /\ size[s] < m => f[s] = g[s]}
  <2>1. ASSUME NEW s \in S, \A r \in S : size[r] < size[s] => r \in Same
        PROVE  s \in Same
    <3>. SUFFICES ASSUME size[s] < n, size[s] < m PROVE f[s] = g[s]
      OBVIOUS
    <3>1. f[s] = Body(f, s) /\ g[s] = Body(g, s)
      BY <1>3
    <3>2. CASE s \in Ends
      BY <3>1, <3>2
    <3>3. CASE s \notin Ends
      <4>1. rest[s] \in S /\ size[rest[s]] < size[s]
        BY <3>3
      <4>2. size[rest[s]] < n /\ size[rest[s]] < m
        BY <4>1
      <4>3. f[rest[s]] = g[rest[s]]
        BY <2>1, <4>1, <4>2
      <4>4. QED
        BY <3>1, <3>3, <4>3
    <3>4. QED
      BY <3>2, <3>3
  <2>2. S \subseteq Same
    <3>. HIDE DEF Same
    <3>1. QED
      BY <2>1, BySize
  <2>3. QED
    BY <2>2
<1>. DEFINE upto(n) == CHOOSE f \in [S -> T] : Upto(f, n)
            h == [s \in S |-> upto(size[s] + 1)[s]]
<1>4. ASSUME NEW n \in Nat PROVE upto(n) \in [S -> T] /\ Upto(upto(n), n)
  <2>1. \E f \in [S -> T] : Upto(f, n)
    BY <1>2
  <2>. HIDE DEF Upto
  <2>2. QED
    BY <2>1
<1>5. h \in [S -> T]
  <2>. HIDE DEF upto, Upto
  <2>1. QED
    BY <1>4
<1>6. ASSUME NEW s \in S PROVE h[s] = Body(h, s)
  <2>. DEFINE n == size[s] + 1
  <2>0. n \in Nat /\ size[s] < n
    OBVIOUS
  <2>1. h[s] = upto(n)[s]
    BY DEF h
  <2>2. upto(n)[s] = Body(upto(n), s)
    BY <1>4, <2>0
  <2>3. CASE s \in Ends
    BY <2>1, <2>2, <2>3
  <2>4. CASE s \notin Ends
    <3>. DEFINE r == rest[s]
    <3>1. r \in S /\ size[r] < n /\ size[r] + 1 \in Nat /\ size[r] < size[r] + 1
      BY <2>4
    <3>2. upto(n)[r] = upto(size[r] + 1)[r]
      <4>. HIDE DEF upto, Upto, r, n
      <4>1. upto(n) \in [S -> T] /\ Upto(upto(n), n)
        BY <1>4, <2>0
      <4>2. upto(size[r] + 1) \in [S -> T] /\ Upto(upto(size[r] + 1), size[r] + 1)
        BY <1>4, <3>1
      <4>3. QED
        BY <1>3, <2>0, <3>1, <4>1, <4>2
    <3>3. h[r] = upto(n)[r]
      BY <3>1, <3>2 DEF h
    <3>4. upto(n)[s] = step[s][upto(n)[r]] /\ Body(h, s) = step[s][h[r]]
      <4>. HIDE DEF upto, h, n
      <4>1. QED
        BY <2>2, <2>4
    <3>5. QED
      <4>. HIDE DEF upto, h, n, r, Body
      <4>1. QED
        BY <2>1, <3>3, <3>4
  <2>5. QED
    BY <2>3, <2>4
<1>7. h = [s \in S |-> Body(h, s)]
  <2>. HIDE DEF Body
  <2>1. h = [s \in S |-> h[s]]
    BY <1>5
  <2>2. QED
    BY <1>6, <2>1
<1>8. QED
  BY <1>5, <1>7 DEF Recurs

\* What satisfies the recursion has its type.
LEMMA RecursionTyped ==
    ASSUME NEW S, NEW T, NEW Ends, NEW size \in [S -> Nat],
           NEW base, \A s \in S : s \in Ends => base[s] \in T,
           NEW rest, \A s \in S : s \notin Ends => rest[s] \in S /\ size[rest[s]] < size[s],
           NEW step, \A s \in S : s \notin Ends => step[s] \in [T -> T],
           NEW f, Recurs(f, S, Ends, base, rest, step)
    PROVE  f \in [S -> T]
<1>. DEFINE Typed == {s \in S : f[s] \in T}
<1>1. \A s \in S : f[s] = IF s \in Ends THEN base[s] ELSE step[s][f[rest[s]]]
  BY DEF Recurs
<1>2. ASSUME NEW s \in S, \A r \in S : size[r] < size[s] => r \in Typed
      PROVE  s \in Typed
  <2>1. CASE s \in Ends
    BY <1>1, <2>1
  <2>2. CASE s \notin Ends
    <3>1. f[rest[s]] \in T
      BY <1>2, <2>2
    <3>2. step[s] \in [T -> T]
      BY <2>2
    <3>3. f[s] = step[s][f[rest[s]]]
      BY <1>1, <2>2
    <3>4. QED
      BY <3>1, <3>2, <3>3
  <2>3. QED
    BY <2>1, <2>2
<1>3. S \subseteq Typed
  <2>. HIDE DEF Typed
  <2>1. QED
    BY <1>2, BySize
<1>4. f = [s \in S |-> f[s]]
  <2>1. DOMAIN f = S
    BY DEF Recurs
  <2>2. QED
    BY <2>1 DEF Recurs
<1>5. QED
  BY <1>3, <1>4

\* FoldLeft goes through the indices of a sequence from the largest down ...
Folds(iter, n, base, step) ==
    iter = [S \in SUBSET (1 .. n) |->
              IF S = {} THEN base ELSE step[Max(S)][iter[S \ {Max(S)}]]]

LEMMA FoldExists ==
    ASSUME NEW n \in Nat, NEW T, NEW base \in T,
           NEW step, \A i \in 1 .. n : step[i] \in [T -> T]
    PROVE  \E iter \in [SUBSET (1 .. n) -> T] : Folds(iter, n, base, step)
<1>. DEFINE S == SUBSET (1 .. n)
            Ends == {{}}
            size == [I \in S |-> Cardinality(I)]
            bases == [I \in S |-> base]
            rest == [I \in S |-> I \ {Max(I)}]
            steps == [I \in S |-> step[Max(I)]]
<1>1. ASSUME NEW I \in S
      PROVE  /\ IsFiniteSet(I)
             /\ Cardinality(I) \in Nat
             /\ I # {} => /\ Max(I) \in I
                          /\ Cardinality(I \ {Max(I)}) < Cardinality(I)
  <2>1. IsFiniteSet(I)
    <3>1. IsFiniteSet(1 .. n)
      BY FS_Interval
    <3>2. QED
      BY <3>1, FS_Subset
  <2>2. Cardinality(I) \in Nat
    BY <2>1, FS_CardinalityType
  <2>3. I # {} => Max(I) \in I
    BY MaxIsGreatest, I \in SUBSET (0 .. n)
  <2>4. I # {} => Cardinality(I \ {Max(I)}) = Cardinality(I) - 1
    BY <2>1, <2>3, FS_RemoveElement
  <2>5. QED
    BY <2>1, <2>2, <2>3, <2>4
<1>2. size \in [S -> Nat]
  BY <1>1
<1>3. \A I \in S : I \notin Ends => rest[I] \in S /\ size[rest[I]] < size[I]
  BY <1>1
<1>4. \A I \in S : I \notin Ends => steps[I] \in [T -> T]
  BY <1>1
<1>5. \A I \in S : I \in Ends => bases[I] \in T
  OBVIOUS
<1>6. PICK iter \in [S -> T] : Recurs(iter, S, Ends, bases, rest, steps)
  <2>. HIDE DEF S, Ends, size, bases, rest, steps
  <2>1. T # {}
    OBVIOUS
  <2>2. QED
    BY <1>2, <1>3, <1>4, <1>5, <2>1, RecursionExists
<1>7. \A I \in S : (IF I \in Ends THEN bases[I] ELSE steps[I][iter[rest[I]]])
                     = (IF I = {} THEN base ELSE step[Max(I)][iter[I \ {Max(I)}]])
  OBVIOUS
<1>8. Folds(iter, n, base, step)
  BY <1>6, <1>7 DEF Recurs, Folds
<1>9. QED
  BY <1>8

\* ... so that from the start on, it takes one element after the other.
LEMMA FoldSteps ==
    ASSUME NEW k \in Nat \ {0}
    PROVE  1 .. k # {} /\ Max(1 .. k) = k /\ (1 .. k) \ {k} = 1 .. k - 1
<1>1. k \in Nat /\ 1 .. k \in SUBSET (0 .. k) /\ 1 .. k # {} /\ k \in 1 .. k
  OBVIOUS
<1>2. Max(1 .. k) \in 1 .. k /\ \A y \in 1 .. k : y <= Max(1 .. k)
  BY <1>1, MaxIsGreatest
<1>3. Max(1 .. k) = k
  BY <1>2
<1>4. QED
  BY <1>1, <1>3

-----------------------------------------------------------------------------
\* Sequences of bytes.

LEMMA ByteSeq ==
    ASSUME NEW s \in Seq(Byte)
    PROVE  /\ Len(s) \in Nat /\ DOMAIN s = 1 .. Len(s)
           /\ \A i \in 1 .. Len(s) : s[i] \in Byte /\ s[i] \in Nat
<1>1. Byte \subseteq Nat
  BY DEF Byte
<1>2. Len(s) \in Nat /\ DOMAIN s = 1 .. Len(s) /\ \A i \in 1 .. Len(s) : s[i] \in Byte
  OBVIOUS
<1>3. QED
  BY <1>1, <1>2

-----------------------------------------------------------------------------
\* Numbers written in digits.

\* How Value reads s, digit by digit.
Reading(h, s) ==
    /\ h \in [0 .. Len(s) -> Int]
    /\ h[0] = 0
    /\ \A k \in 1 .. Len(s) : h[k] = 10 * h[k - 1] + (s[k] - Zero)

LEMMA ValueIs ==
    ASSUME NEW s \in Seq(Byte)
    PROVE  \E h : Reading(h, s) /\ Value(s) = h[Len(s)]
<1>. DEFINE n == Len(s)
            step == [i \in 1 .. n |-> [x \in Int |-> 10 * x + (s[i] - Zero)]]
            Body(g) == [S \in SUBSET (1 .. n) |->
                          IF S = {} THEN 0 ELSE 10 * g[S \ {Max(S)}] + (s[Max(S)] - Zero)]
            iter[S \in SUBSET (1 .. n)] ==
              IF S = {} THEN 0 ELSE 10 * iter[S \ {Max(S)}] + (s[Max(S)] - Zero)
            h == [k \in 0 .. n |-> iter[1 .. k]]
<1>1. n \in Nat /\ DOMAIN s = 1 .. n /\ \A i \in 1 .. n : s[i] \in Int
  <2>. HIDE DEF step, Body, iter, h
  <2>1. QED
    BY ByteSeq
<1>2. Value(s) = iter[1 .. n]
  BY <1>1 DEF Value, FoldLeft, MapThenFoldSet
<1>3. iter = Body(iter)
  <2>1. \A i \in 1 .. n : step[i] \in [Int -> Int]
    BY <1>1 DEF Zero
  <2>2. PICK g \in [SUBSET (1 .. n) -> Int] : Folds(g, n, 0, step)
    <3>. DEFINE T == Int
    <3>1. 0 \in T /\ \A i \in 1 .. n : step[i] \in [T -> T]
      BY <2>1
    <3>2. \E g \in [SUBSET (1 .. n) -> T] : Folds(g, n, 0, step)
      <4>. HIDE DEF step, T, n, iter, h, Body
      <4>1. QED
        BY <1>1, <3>1, FoldExists
    <3>3. QED
      BY <3>2
  <2>3. ASSUME NEW S \in SUBSET (1 .. n), S # {}
        PROVE  Max(S) \in 1 .. n /\ S \ {Max(S)} \in SUBSET (1 .. n)
    <3>1. S \in SUBSET (0 .. n)
      OBVIOUS
    <3>2. QED
      <4>. HIDE DEF n
      <4>1. QED
        BY <1>1, <2>3, <3>1, MaxIsGreatest
  <2>4. g = Body(g)
    <3>1. ASSUME NEW S \in SUBSET (1 .. n)
          PROVE  (IF S = {} THEN 0 ELSE step[Max(S)][g[S \ {Max(S)}]]) = Body(g)[S]
      <4>. HIDE DEF iter, h
      <4>1. QED
        BY <2>2, <2>3
    <3>2. QED
      BY <2>2, <3>1 DEF Folds
  <2>5. QED
    BY <2>4
<1>. HIDE DEF iter, step
<1>4. h[0] = 0
  BY <1>1, <1>3, 1 .. 0 = {}
<1>5. ASSUME NEW k \in 1 .. n
      PROVE  h[k] = 10 * h[k - 1] + (s[k] - Zero)
  <2>1. 1 .. k \in SUBSET (1 .. n) /\ k \in Nat \ {0} /\ k \in 0 .. n /\ k - 1 \in 0 .. n
    BY <1>1
  <2>2. 1 .. k # {} /\ Max(1 .. k) = k /\ (1 .. k) \ {k} = 1 .. k - 1
    BY <2>1, FoldSteps
  <2>. HIDE DEF n, h
  <2>3. iter[1 .. k] = 10 * iter[1 .. k - 1] + (s[k] - Zero)
    BY <1>3, <2>1, <2>2
  <2>4. QED
    BY <2>1, <2>3 DEF h
<1>6. h \in [0 .. n -> Int]
  <2>. DEFINE Typed == {k \in 0 .. n : h[k] \in Int}
  <2>. HIDE DEF h, Body
  <2>1. 0 \in Typed
    BY <1>1, <1>4
  <2>2. \A k \in 0 .. n - 1 : k \in Typed => k + 1 \in Typed
    <3>1. ASSUME NEW k \in 0 .. n - 1, k \in Typed PROVE k + 1 \in Typed
      <4>1. k + 1 \in 1 .. n /\ (k + 1) - 1 = k /\ h[k] \in Int
        BY <1>1, <3>1
      <4>2. h[k + 1] = 10 * h[k] + (s[k + 1] - Zero)
        BY <1>5, <4>1
      <4>3. s[k + 1] \in Int
        BY <1>1, <4>1
      <4>4. QED
        BY <4>1, <4>2, <4>3 DEF Zero
    <3>2. QED
      BY <3>1
  <2>3. \A k \in 0 .. n : k \in Typed
    <3>. HIDE DEF Typed, n
    <3>1. QED
      BY <1>1, <2>1, <2>2, Climb
  <2>4. h = [k \in 0 .. n |-> h[k]]
    BY DEF h
  <2>5. QED
    BY <2>3, <2>4
<1>7. Reading(h, s) /\ Value(s) = h[n]
  <2>1. h[n] = iter[1 .. n]
    BY <1>1
  <2>. HIDE DEF h
  <2>2. QED
    BY <1>2, <1>4, <1>5, <1>6, <2>1 DEF Reading
<1>8. QED
  BY <1>7

-----------------------------------------------------------------------------
\* Orders.

StrictOrder(R, S) ==
    /\ \A x, y \in S : <<x, y>> \in R => <<y, x>> \notin R
    /\ \A x, y \in S : x = y \/ <<x, y>> \in R \/ <<y, x>> \in R
    /\ \A x, y, z \in S : <<x, y>> \in R /\ <<y, z>> \in R => <<x, z>> \in R

Pos == Nat \ {0}

\* f comes before g at the first index at which they differ.
LexLess(f, g, R) == \E i \in Pos : (\A j \in 1 .. i - 1 : f[j] = g[j]) /\ <<f[i], g[i]>> \in R

Lex(R, S) == {p \in [Pos -> S] \X [Pos -> S] : LexLess(p[1], p[2], R)}

LEMMA LexIsStrictOrder ==
    ASSUME NEW S, NEW R, StrictOrder(R, S)
    PROVE  StrictOrder(Lex(R, S), [Pos -> S])
<1>1. \A f, g \in [Pos -> S] : <<f, g>> \in Lex(R, S) <=> LexLess(f, g, R)
  BY DEF Lex
<1>2. ASSUME NEW f \in [Pos -> S], NEW g \in [Pos -> S], LexLess(f, g, R), LexLess(g, f, R)
      PROVE  FALSE
  <2>1. PICK i \in Pos : (\A j \in 1 .. i - 1 : f[j] = g[j]) /\ <<f[i], g[i]>> \in R
    BY <1>2 DEF LexLess
  <2>2. PICK k \in Pos : (\A j \in 1 .. k - 1 : g[j] = f[j]) /\ <<g[k], f[k]>> \in R
    BY <1>2 DEF LexLess
  <2>3. \A x \in S : <<x, x>> \notin R
    BY DEF StrictOrder
  <2>4. f[i] # g[i] /\ f[k] # g[k]
    BY <2>1, <2>2, <2>3
  <2>5. i = k
    <3>1. ~(i < k)
      BY <2>2, <2>4, i \in 1 .. k - 1 \/ ~(i < k) DEF Pos
    <3>2. ~(k < i)
      BY <2>1, <2>4, k \in 1 .. i - 1 \/ ~(k < i) DEF Pos
    <3>3. QED
      BY <3>1, <3>2 DEF Pos
  <2>6. QED
    BY <2>1, <2>2, <2>5 DEF StrictOrder
<1>3. ASSUME NEW f \in [Pos -> S], NEW g \in [Pos -> S], f # g
      PROVE  LexLess(f, g, R) \/ LexLess(g, f, R)
  <2>. DEFINE Differ == {i \in Pos : f[i] # g[i]}
  <2>1. Differ \in SUBSET Nat /\ Differ # {}
    BY <1>3 DEF Pos
  <2>2. PICK i \in Differ : \A j \in Differ : i <= j
    <3>. HIDE DEF Differ
    <3>1. QED
      BY <2>1, LeastExists
  <2>3. ASSUME NEW j \in 1 .. i - 1 PROVE f[j] = g[j]
    <3>1. j \in Pos /\ ~(i <= j)
      BY DEF Pos
    <3>2. QED
      BY <2>2, <3>1
  <2>4. <<f[i], g[i]>> \in R \/ <<g[i], f[i]>> \in R
    BY DEF StrictOrder
  <2>5. QED
    BY <2>3, <2>4 DEF LexLess
<1>4. ASSUME NEW f \in [Pos -> S], NEW g \in [Pos -> S], NEW h \in [Pos -> S],
             LexLess(f, g, R), LexLess(g, h, R)
      PROVE  LexLess(f, h, R)
  <2>1. PICK i \in Pos : (\A j \in 1 .. i - 1 : f[j] = g[j]) /\ <<f[i], g[i]>> \in R
    BY <1>4 DEF LexLess
  <2>2. PICK k \in Pos : (\A j \in 1 .. k - 1 : g[j] = h[j]) /\ <<g[k], h[k]>> \in R
    BY <1>4 DEF LexLess
  <2>3. CASE i < k
    <3>1. \A j \in 1 .. i : j \in 1 .. k - 1
      BY <2>3 DEF Pos
    <3>2. g[i] = h[i] /\ \A j \in 1 .. i - 1 : f[j] = h[j]
      BY <2>1, <2>2, <3>1 DEF Pos
    <3>3. QED
      BY <2>1, <3>2 DEF LexLess
  <2>4. CASE k < i
    <3>1. \A j \in 1 .. k : j \in 1 .. i - 1
      BY <2>4 DEF Pos
    <3>2. f[k] = g[k] /\ \A j \in 1 .. k - 1 : f[j] = h[j]
      BY <2>1, <2>2, <3>1 DEF Pos
    <3>3. QED
      BY <2>2, <3>2 DEF LexLess
  <2>5. CASE i = k
    <3>1. <<f[i], h[i]>> \in R
      BY <2>1, <2>2, <2>5 DEF StrictOrder
    <3>2. \A j \in 1 .. i - 1 : f[j] = h[j]
      BY <2>1, <2>2, <2>5
    <3>3. QED
      BY <3>1, <3>2 DEF LexLess
  <2>6. QED
    BY <2>3, <2>4, <2>5 DEF Pos
<1>5. QED
  BY <1>1, <1>2, <1>3, <1>4 DEF StrictOrder

\* t is f without its head.
TailOf(t, f) == \A i \in Pos : t[i] = f[i + 1]

\* Where the heads are equal, the tails decide.
LEMMA LexOfTails ==
    ASSUME NEW S, NEW R, StrictOrder(R, S),
           NEW f \in [Pos -> S], NEW g \in [Pos -> S],
           NEW t \in [Pos -> S], NEW u \in [Pos -> S],
           f[1] = g[1], TailOf(t, f), TailOf(u, g)
    PROVE  LexLess(f, g, R) <=> LexLess(t, u, R)
<1>0. \A i \in Pos : t[i] = f[i + 1] /\ u[i] = g[i + 1]
  BY DEF TailOf
<1>1. ASSUME LexLess(f, g, R) PROVE LexLess(t, u, R)
  <2>1. PICK i \in Pos : (\A j \in 1 .. i - 1 : f[j] = g[j]) /\ <<f[i], g[i]>> \in R
    BY <1>1 DEF LexLess
  <2>2. i # 1
    BY <2>1 DEF StrictOrder, Pos
  <2>3. i - 1 \in Pos /\ (i - 1) + 1 = i
    BY <2>2 DEF Pos
  <2>4. <<t[i - 1], u[i - 1]>> \in R
    BY <1>0, <2>1, <2>3
  <2>5. ASSUME NEW j \in 1 .. (i - 1) - 1 PROVE t[j] = u[j]
    <3>1. j \in Pos /\ j + 1 \in 1 .. i - 1
      BY DEF Pos
    <3>2. QED
      BY <1>0, <2>1, <3>1
  <2>6. QED
    BY <2>3, <2>4, <2>5 DEF LexLess
<1>2. ASSUME LexLess(t, u, R) PROVE LexLess(f, g, R)
  <2>1. PICK i \in Pos : (\A j \in 1 .. i - 1 : t[j] = u[j]) /\ <<t[i], u[i]>> \in R
    BY <1>2 DEF LexLess
  <2>2. i + 1 \in Pos /\ <<f[i + 1], g[i + 1]>> \in R
    BY <1>0, <2>1 DEF Pos
  <2>3. ASSUME NEW j \in 1 .. (i + 1) - 1 PROVE f[j] = g[j]
    <3>1. CASE j = 1
      BY <3>1
    <3>2. CASE j # 1
      <4>1. j - 1 \in Pos /\ j - 1 \in 1 .. i - 1 /\ (j - 1) + 1 = j
        BY <3>2 DEF Pos
      <4>2. t[j - 1] = u[j - 1] /\ t[j - 1] = f[j] /\ u[j - 1] = g[j]
        BY <1>0, <2>1, <4>1
      <4>3. QED
        BY <4>2
    <3>3. QED
      BY <3>1, <3>2
  <2>4. QED
    BY <2>2, <2>3 DEF LexLess
<1>3. QED
  BY <1>1, <1>2

\* Where the heads differ, they decide.
LEMMA LexOfHeads ==
    ASSUME NEW R, NEW f, NEW g, <<f[1], g[1]>> \in R
    PROVE  LexLess(f, g, R)
  BY 1 \in Pos, \A j \in 1 .. 1 - 1 : FALSE DEF LexLess, Pos

\* What a comparison says of an order.
Signs == {-1, 0, 1}
SignIn(R, x, y) == IF <<x, y>> \in R THEN -1 ELSE IF <<y, x>> \in R THEN 1 ELSE 0

\* A total preorder, as a function.
Comparison(c, S) ==
    /\ \A x, y \in S : c[<<x, y>>] \in Signs /\ c[<<x, y>>] = 0 - c[<<y, x>>]
    /\ \A x, y, z \in S : c[<<x, y>>] <= 0 /\ c[<<y, z>>] <= 0 => c[<<x, z>>] <= 0

LEMMA OrderCompares ==
    ASSUME NEW S, NEW R, StrictOrder(R, S)
    PROVE  Comparison([p \in S \X S |-> SignIn(R, p[1], p[2])], S)
<1>. DEFINE c == [p \in S \X S |-> SignIn(R, p[1], p[2])]
<1>1. \A x, y \in S : c[<<x, y>>] = SignIn(R, x, y)
  OBVIOUS
<1>2. \A x, y \in S : c[<<x, y>>] \in Signs
  BY <1>1 DEF SignIn, Signs
<1>. HIDE DEF c
<1>3. ASSUME NEW x \in S, NEW y \in S
      PROVE  c[<<x, y>>] = 0 - c[<<y, x>>] /\ (c[<<x, y>>] <= 0 <=> (x = y \/ <<x, y>> \in R))
  <2>1. c[<<x, y>>] = SignIn(R, x, y) /\ c[<<y, x>>] = SignIn(R, y, x)
    BY <1>1
  <2>2. CASE <<x, y>> \in R
    <3>1. <<y, x>> \notin R
      BY <2>2 DEF StrictOrder
    <3>2. QED
      BY <2>1, <2>2, <3>1 DEF SignIn
  <2>3. CASE <<x, y>> \notin R /\ <<y, x>> \in R
    <3>1. x # y
      BY <2>3
    <3>2. c[<<x, y>>] = 1 /\ c[<<y, x>>] = -1
      BY <2>1, <2>3 DEF SignIn
    <3>3. QED
      BY <2>3, <3>1, <3>2
  <2>4. CASE <<x, y>> \notin R /\ <<y, x>> \notin R
    <3>1. x = y
      BY <2>4 DEF StrictOrder
    <3>2. c[<<x, y>>] = 0 /\ c[<<y, x>>] = 0
      BY <2>1, <2>4 DEF SignIn
    <3>3. QED
      BY <3>1, <3>2
  <2>5. QED
    BY <2>2, <2>3, <2>4
<1>4. \A x, y \in S : c[<<x, y>>] <= 0 <=> (x = y \/ <<x, y>> \in R)
  BY <1>3
<1>5. \A x, y, z \in S : c[<<x, y>>] <= 0 /\ c[<<y, z>>] <= 0 => c[<<x, z>>] <= 0
  BY <1>4 DEF StrictOrder
<1>6. QED
  BY <1>2, <1>3, <1>5 DEF Comparison, c

\* One comparison after another.
LEMMA ThenCompares ==
    ASSUME NEW S, NEW c, NEW d, Comparison(c, S), Comparison(d, S)
    PROVE  Comparison([p \in S \X S |-> Then(c[p], d[p])], S)
<1>. DEFINE e == [p \in S \X S |-> Then(c[p], d[p])]
<1>1. \A x, y \in S : e[<<x, y>>] = Then(c[<<x, y>>], d[<<x, y>>])
  OBVIOUS
<1>2. \A x, y \in S : c[<<x, y>>] \in Signs /\ d[<<x, y>>] \in Signs
  BY DEF Comparison
<1>3. \A x, y \in S : e[<<x, y>>] \in Signs
  <2>. HIDE DEF e
  <2>1. QED
    BY <1>1, <1>2 DEF Then
<1>. HIDE DEF e
<1>4. ASSUME NEW x \in S, NEW y \in S
      PROVE  e[<<x, y>>] = 0 - e[<<y, x>>]
  <2>1. c[<<x, y>>] = 0 - c[<<y, x>>] /\ d[<<x, y>>] = 0 - d[<<y, x>>]
    BY DEF Comparison
  <2>2. QED
    BY <1>1, <1>2, <2>1 DEF Then, Signs
<1>5. ASSUME NEW x \in S, NEW y \in S
      PROVE  e[<<x, y>>] <= 0 <=> c[<<x, y>>] = -1 \/ (c[<<x, y>>] = 0 /\ d[<<x, y>>] <= 0)
  BY <1>1, <1>2 DEF Then, Signs
<1>6. ASSUME NEW x \in S, NEW y \in S, NEW z \in S, e[<<x, y>>] <= 0, e[<<y, z>>] <= 0
      PROVE  e[<<x, z>>] <= 0
  <2>1. c[<<x, y>>] <= 0 /\ c[<<y, z>>] <= 0
    BY <1>5, <1>6
  <2>2. c[<<x, z>>] <= 0
    BY <2>1 DEF Comparison
  <2>3. CASE c[<<x, z>>] = 0
    <3>1. c[<<z, x>>] = 0
      BY <2>3 DEF Comparison
    <3>2. c[<<y, x>>] <= 0 /\ c[<<z, y>>] <= 0
      BY <2>1, <3>1 DEF Comparison
    <3>3. c[<<x, y>>] = 0 - c[<<y, x>>] /\ c[<<y, z>>] = 0 - c[<<z, y>>]
      BY DEF Comparison
    <3>4. c[<<x, y>>] = 0 /\ c[<<y, z>>] = 0
      BY <1>2, <2>1, <3>2, <3>3 DEF Signs
    <3>5. d[<<x, y>>] <= 0 /\ d[<<y, z>>] <= 0
      BY <1>5, <1>6, <3>4
    <3>6. d[<<x, z>>] <= 0
      BY <3>5 DEF Comparison
    <3>7. QED
      BY <1>5, <2>3, <3>6
  <2>4. CASE c[<<x, z>>] # 0
    BY <1>2, <1>5, <2>2, <2>4 DEF Signs
  <2>5. QED
    BY <2>3, <2>4
<1>7. QED
  BY <1>3, <1>4, <1>6 DEF Comparison, e

\* A comparison of what k says of two values.
LEMMA KeyCompares ==
    ASSUME NEW S, NEW c, Comparison(c, S), NEW V, NEW k \in [V -> S]
    PROVE  Comparison([p \in V \X V |-> c[<<k[p[1]], k[p[2]]>>]], V)
<1>. DEFINE e == [p \in V \X V |-> c[<<k[p[1]], k[p[2]]>>]]
<1>1. \A x, y \in V : e[<<x, y>>] = c[<<k[x], k[y]>>] /\ k[x] \in S /\ k[y] \in S
  OBVIOUS
<1>. HIDE DEF e
<1>2. QED
  BY <1>1 DEF Comparison, e

-----------------------------------------------------------------------------
\* CompareSeqs is the lexicographic order of numbers.

Smaller == {p \in Int \X Int : p[1] < p[2]}

LEMMA SmallerIsStrictOrder == StrictOrder(Smaller, Int)
<1>1. \A x, y \in Int : <<x, y>> \in Smaller <=> x < y
  BY DEF Smaller
<1>2. QED
  BY <1>1 DEF StrictOrder

\* A sequence that goes on for ever.
Padded(s, fill) == [i \in Pos |-> IF i <= Len(s) THEN s[i] ELSE fill]

LEMMA PaddedType ==
    ASSUME NEW S, NEW s \in Seq(S), NEW fill \in S
    PROVE  /\ Padded(s, fill) \in [Pos -> S]
           /\ \A i \in Pos : Padded(s, fill)[i] = IF i <= Len(s) THEN s[i] ELSE fill
<1>1. ASSUME NEW i \in Pos PROVE (IF i <= Len(s) THEN s[i] ELSE fill) \in S
  <2>1. CASE i <= Len(s)
    <3>1. i \in 1 .. Len(s)
      BY <2>1 DEF Pos
    <3>2. s[i] \in S
      BY <3>1
    <3>3. QED
      BY <2>1, <3>2
  <2>2. CASE ~(i <= Len(s))
    BY <2>2
  <2>3. QED
    BY <2>1, <2>2
<1>2. QED
  BY <1>1 DEF Padded

LEMMA SeqsCompare ==
    ASSUME NEW s \in Seq(Int), NEW t \in Seq(Int), NEW fill \in Int
    PROVE  CompareSeqs(s, t, fill) = SignIn(Lex(Smaller, Int), Padded(s, fill), Padded(t, fill))
<1>. DEFINE at(x, i) == IF i <= Len(x) THEN x[i] ELSE fill
            Differ == {i \in DOMAIN s \cup DOMAIN t : at(s, i) # at(t, i)}
            f == Padded(s, fill)
            g == Padded(t, fill)
            L == Lex(Smaller, Int)
<1>1. CompareSeqs(s, t, fill) =
        IF Differ = {} THEN 0 ELSE Sign(at(s, Min(Differ)) - at(t, Min(Differ)))
  BY DEF CompareSeqs
<1>2. /\ f \in [Pos -> Int] /\ g \in [Pos -> Int]
      /\ \A i \in Pos : f[i] = at(s, i) /\ g[i] = at(t, i)
  BY PaddedType
<1>3. Len(s) \in Nat /\ Len(t) \in Nat /\ DOMAIN s = 1 .. Len(s) /\ DOMAIN t = 1 .. Len(t)
  OBVIOUS
<1>4. \A i \in Pos : i \notin DOMAIN s \cup DOMAIN t => at(s, i) = at(t, i)
  BY <1>3 DEF Pos
<1>5. Differ \subseteq Pos /\ Pos \subseteq Nat
  BY <1>3 DEF Pos
<1>6. StrictOrder(L, [Pos -> Int])
  BY SmallerIsStrictOrder, LexIsStrictOrder
<1>. HIDE DEF f, g, at
<1>7. CASE Differ = {}
  <2>1. \A i \in Pos : f[i] = g[i]
    BY <1>2, <1>4, <1>7
  <2>2. f = g
    BY <1>2, <2>1
  <2>3. <<f, g>> \notin L
    BY <1>2, <1>6, <2>2 DEF StrictOrder
  <2>4. QED
    <3>. HIDE DEF L
    <3>1. SignIn(L, f, g) = 0
      BY <2>2, <2>3 DEF SignIn
    <3>2. QED
      BY <1>1, <1>7, <3>1 DEF f, g, L
<1>8. CASE Differ # {}
  <2>. DEFINE m == Min(Differ)
  <2>1. m \in Differ /\ \A i \in Differ : m <= i
    <3>. HIDE DEF Differ
    <3>1. QED
      BY <1>5, <1>8, MinIsLeast
  <2>2. m \in Pos /\ f[m] = at(s, m) /\ g[m] = at(t, m) /\ f[m] # g[m] /\ f[m] \in Int /\ g[m] \in Int
    BY <1>2, <1>5, <2>1
  <2>3. ASSUME NEW j \in 1 .. m - 1 PROVE f[j] = g[j]
    <3>. HIDE DEF m
    <3>1. j \in Pos /\ ~(m <= j)
      BY <2>2 DEF Pos
    <3>2. j \notin Differ
      BY <2>1, <3>1
    <3>3. QED
      BY <1>2, <1>4, <3>1, <3>2
  <2>4. CompareSeqs(s, t, fill) = Sign(f[m] - g[m])
    <3>. HIDE DEF Differ
    <3>1. QED
      BY <1>1, <1>8, <2>2
  <2>. HIDE DEF m
  <2>5. CASE f[m] < g[m]
    <3>1. <<f[m], g[m]>> \in Smaller
      BY <2>2, <2>5 DEF Smaller
    <3>2. LexLess(f, g, Smaller)
      BY <2>2, <2>3, <3>1 DEF LexLess
    <3>3. <<f, g>> \in L
      BY <1>2, <3>2 DEF Lex
    <3>4. Sign(f[m] - g[m]) = -1
      BY <2>2, <2>5 DEF Sign
    <3>5. QED
      <4>. HIDE DEF L
      <4>1. SignIn(L, f, g) = -1
        BY <3>3 DEF SignIn
      <4>2. QED
        BY <2>4, <3>4, <4>1 DEF f, g, L
  <2>6. CASE g[m] < f[m]
    <3>1. <<g[m], f[m]>> \in Smaller
      BY <2>2, <2>6 DEF Smaller
    <3>2. LexLess(g, f, Smaller)
      BY <2>2, <2>3, <3>1 DEF LexLess
    <3>3. <<g, f>> \in L /\ <<f, g>> \notin L
      BY <1>2, <1>6, <3>2 DEF Lex, StrictOrder
    <3>4. Sign(f[m] - g[m]) = 1
      BY <2>2, <2>6 DEF Sign
    <3>5. QED
      <4>. HIDE DEF L
      <4>1. SignIn(L, f, g) = 1
        BY <3>3 DEF SignIn
      <4>2. QED
        BY <2>4, <3>4, <4>1 DEF f, g, L
  <2>7. QED
    BY <2>2, <2>5, <2>6
<1>9. QED
  BY <1>7, <1>8

-----------------------------------------------------------------------------
\* Where a version is cut.

\* How many elements of s lie in T before the first that does not.
Prefix(k, s, T) ==
    /\ k \in 0 .. Len(s)
    /\ \A i \in 1 .. k : s[i] \in T
    /\ k < Len(s) => s[k + 1] \notin T

LEMMA PrefixIsUnique ==
    ASSUME NEW s \in Seq(Byte), NEW T, NEW j, NEW k, Prefix(j, s, T), Prefix(k, s, T)
    PROVE  j = k
<1>1. j \in Int /\ k \in Int /\ Len(s) \in Nat
  BY DEF Prefix
<1>2. ~(j < k)
  <2>. SUFFICES ASSUME j < k PROVE FALSE
    OBVIOUS
  <2>1. j + 1 \in 1 .. k /\ j < Len(s)
    BY <1>1 DEF Prefix
  <2>2. QED
    BY <2>1 DEF Prefix
<1>3. ~(k < j)
  <2>. SUFFICES ASSUME k < j PROVE FALSE
    OBVIOUS
  <2>1. k + 1 \in 1 .. j /\ k < Len(s)
    BY <1>1 DEF Prefix
  <2>2. QED
    BY <2>1 DEF Prefix
<1>4. QED
  BY <1>1, <1>2, <1>3

LEMMA PrefixIs ==
    ASSUME NEW s \in Seq(Byte), NEW T, NEW I, I = {i \in 1 .. Len(s) : s[i] \notin T}
    PROVE  LET stop == IF I # {} THEN Min(I) ELSE 0
           IN Prefix(IF stop = 0 THEN Len(s) ELSE stop - 1, s, T)
<1>0. Len(s) \in Nat
  OBVIOUS
<1>1. CASE I = {}
  <2>1. \A i \in 1 .. Len(s) : s[i] \in T
    BY <1>1
  <2>2. Prefix(Len(s), s, T)
    BY <1>0, <2>1 DEF Prefix
  <2>3. QED
    BY <1>1, <2>2
<1>2. CASE I # {}
  <2>. DEFINE m == Min(I)
  <2>1. m \in I /\ \A i \in I : m <= i
    BY <1>2, MinIsLeast, I \subseteq Nat
  <2>2. m \in 1 .. Len(s) /\ s[m] \notin T
    BY <2>1
  <2>. HIDE DEF m
  <2>3. ASSUME NEW i \in 1 .. m - 1 PROVE s[i] \in T
    <3>1. i \in 1 .. Len(s) /\ ~(m <= i)
      BY <1>0, <2>2
    <3>2. i \notin I
      BY <2>1, <3>1
    <3>3. QED
      BY <3>1, <3>2
  <2>4. Prefix(m - 1, s, T)
    BY <1>0, <2>2, <2>3 DEF Prefix
  <2>5. QED
    BY <1>2, <2>2, <2>4 DEF m
<1>3. QED
  BY <1>1, <1>2

DigitBytes == {c \in Byte : IsDigit(c)}
WordBytes == {c \in Byte : ~IsDigit(c)}
CoreBytes == {c \in Byte : IsDigit(c) \/ c = Dot}

LEMMA SpansArePrefixes ==
    ASSUME NEW s \in Seq(Byte)
    PROVE  /\ Prefix(Span(s, IsDigit), s, DigitBytes)
           /\ Prefix(Span(s, LAMBDA c : ~IsDigit(c)), s, WordBytes)
           /\ Prefix(Span(s, LAMBDA c : c = Zero), s, {Zero})
           /\ Prefix(Span(s, LAMBDA c : IsDigit(c) \/ c = Dot), s, CoreBytes)
<1>0. \A i \in 1 .. Len(s) : s[i] \in Byte
  BY ByteSeq
<1>1. Prefix(Span(s, IsDigit), s, DigitBytes)
  <2>. DEFINE I == {i \in 1 .. Len(s) : ~IsDigit(s[i])}
  <2>1. I = {i \in 1 .. Len(s) : s[i] \notin DigitBytes}
    BY <1>0 DEF DigitBytes
  <2>2. Span(s, IsDigit) =
          LET stop == IF I # {} THEN Min(I) ELSE 0 IN IF stop = 0 THEN Len(s) ELSE stop - 1
    BY DEF Span, SelectInSeq
  <2>. HIDE DEF I
  <2>3. QED
    BY <2>1, <2>2, PrefixIs
<1>2. Prefix(Span(s, LAMBDA c : ~IsDigit(c)), s, WordBytes)
  <2>. DEFINE I == {i \in 1 .. Len(s) : ~~IsDigit(s[i])}
  <2>1. I = {i \in 1 .. Len(s) : s[i] \notin WordBytes}
    BY <1>0 DEF WordBytes
  <2>2. Span(s, LAMBDA c : ~IsDigit(c)) =
          LET stop == IF I # {} THEN Min(I) ELSE 0 IN IF stop = 0 THEN Len(s) ELSE stop - 1
    BY DEF Span, SelectInSeq
  <2>. HIDE DEF I
  <2>3. QED
    BY <2>1, <2>2, PrefixIs
<1>3. Prefix(Span(s, LAMBDA c : c = Zero), s, {Zero})
  <2>. DEFINE I == {i \in 1 .. Len(s) : ~(s[i] = Zero)}
  <2>1. I = {i \in 1 .. Len(s) : s[i] \notin {Zero}}
    OBVIOUS
  <2>2. Span(s, LAMBDA c : c = Zero) =
          LET stop == IF I # {} THEN Min(I) ELSE 0 IN IF stop = 0 THEN Len(s) ELSE stop - 1
    BY DEF Span, SelectInSeq
  <2>. HIDE DEF I
  <2>3. QED
    BY <2>1, <2>2, PrefixIs
<1>4. Prefix(Span(s, LAMBDA c : IsDigit(c) \/ c = Dot), s, CoreBytes)
  <2>. DEFINE I == {i \in 1 .. Len(s) : ~(IsDigit(s[i]) \/ s[i] = Dot)}
  <2>1. I = {i \in 1 .. Len(s) : s[i] \notin CoreBytes}
    BY <1>0 DEF CoreBytes
  <2>2. Span(s, LAMBDA c : IsDigit(c) \/ c = Dot) =
          LET stop == IF I # {} THEN Min(I) ELSE 0 IN IF stop = 0 THEN Len(s) ELSE stop - 1
    BY DEF Span, SelectInSeq
  <2>. HIDE DEF I
  <2>3. QED
    BY <2>1, <2>2, PrefixIs
<1>5. QED
  BY <1>1, <1>2, <1>3, <1>4

LEMMA CutIs ==
    ASSUME NEW S, NEW s \in Seq(S), NEW k \in 0 .. Len(s)
    PROVE  /\ SubSeq(s, 1, k) \in Seq(S) /\ Len(SubSeq(s, 1, k)) = k
           /\ \A i \in 1 .. k : SubSeq(s, 1, k)[i] = s[i]
           /\ From(s, k + 1) \in Seq(S) /\ Len(From(s, k + 1)) = Len(s) - k
           /\ \A i \in 1 .. Len(s) - k : From(s, k + 1)[i] = s[k + i]
<1>1. Len(s) \in Nat /\ \A i \in 1 .. Len(s) : s[i] \in S
  OBVIOUS
<1>2. \A i \in 1 .. k : s[i] \in S
  BY <1>1
<1>3. \A i \in k + 1 .. Len(s) : s[i] \in S
  BY <1>1
<1>4. /\ SubSeq(s, 1, k) \in Seq(S)
      /\ Len(SubSeq(s, 1, k)) = IF 1 <= k THEN k - 1 + 1 ELSE 0
      /\ \A i \in 1 .. k - 1 + 1 : SubSeq(s, 1, k)[i] = s[1 + i - 1]
  BY <1>2, SubSeqProperties
<1>5. /\ From(s, k + 1) \in Seq(S)
      /\ Len(From(s, k + 1)) = IF k + 1 <= Len(s) THEN Len(s) - (k + 1) + 1 ELSE 0
      /\ \A i \in 1 .. Len(s) - (k + 1) + 1 : From(s, k + 1)[i] = s[k + 1 + i - 1]
  BY <1>1, <1>3, SubSeqProperties DEF From
<1>6. QED
  BY <1>1, <1>4, <1>5

LEMMA DigitsAre ==
    ASSUME NEW s \in Seq(Byte)
    PROVE  \E d \in 0 .. Len(s) :
             /\ Prefix(d, s, DigitBytes)
             /\ Digits(s) \in Seq(Byte) /\ Len(Digits(s)) = d
             /\ \A i \in 1 .. d : Digits(s)[i] = s[i] /\ s[i] \in DigitBytes
             /\ AfterDigits(s) \in Seq(Byte) /\ Len(AfterDigits(s)) = Len(s) - d
             /\ \A i \in 1 .. Len(s) - d : AfterDigits(s)[i] = s[d + i]
<1>. DEFINE d == Span(s, IsDigit)
<1>1. Prefix(d, s, DigitBytes)
  BY SpansArePrefixes
<1>2. Digits(s) = SubSeq(s, 1, d) /\ AfterDigits(s) = From(s, 1 + d)
  BY DEF Digits, AfterDigits
<1>. HIDE DEF d
<1>3. d \in 0 .. Len(s) /\ \A i \in 1 .. d : s[i] \in DigitBytes
  BY <1>1 DEF Prefix
<1>4. 1 + d = d + 1
  BY <1>3
<1>5. /\ SubSeq(s, 1, d) \in Seq(Byte) /\ Len(SubSeq(s, 1, d)) = d
      /\ \A i \in 1 .. d : SubSeq(s, 1, d)[i] = s[i]
      /\ From(s, d + 1) \in Seq(Byte) /\ Len(From(s, d + 1)) = Len(s) - d
      /\ \A i \in 1 .. Len(s) - d : From(s, d + 1)[i] = s[d + i]
  BY <1>3, CutIs
<1>6. Digits(s) = SubSeq(s, 1, d) /\ AfterDigits(s) = From(s, d + 1)
  BY <1>2, <1>4
<1>7. /\ Digits(s) \in Seq(Byte) /\ Len(Digits(s)) = d
      /\ \A i \in 1 .. d : Digits(s)[i] = s[i]
      /\ AfterDigits(s) \in Seq(Byte) /\ Len(AfterDigits(s)) = Len(s) - d
      /\ \A i \in 1 .. Len(s) - d : AfterDigits(s)[i] = s[d + i]
  BY <1>5, <1>6
<1>8. QED
  BY <1>1, <1>3, <1>7

LEMMA ZerosAre ==
    ASSUME NEW s \in Seq(Byte)
    PROVE  \E z \in 0 .. Len(s) :
             /\ Prefix(z, s, {Zero})
             /\ SkipZeros(s) \in Seq(Byte) /\ Len(SkipZeros(s)) = Len(s) - z
             /\ \A i \in 1 .. Len(s) - z : SkipZeros(s)[i] = s[z + i]
<1>. DEFINE z == Span(s, LAMBDA c : c = Zero)
<1>1. Prefix(z, s, {Zero})
  BY SpansArePrefixes
<1>2. SkipZeros(s) = From(s, 1 + z)
  BY DEF SkipZeros
<1>. HIDE DEF z
<1>3. z \in 0 .. Len(s)
  BY <1>1 DEF Prefix
<1>4. 1 + z = z + 1
  BY <1>3
<1>5. /\ From(s, z + 1) \in Seq(Byte) /\ Len(From(s, z + 1)) = Len(s) - z
      /\ \A i \in 1 .. Len(s) - z : From(s, z + 1)[i] = s[z + i]
  BY <1>3, CutIs
<1>6. QED
  BY <1>1, <1>2, <1>3, <1>4, <1>5

\* Leading zeros are all that SkipZeros takes from a run of digits.
LEMMA DigitsSkipped ==
    ASSUME NEW s \in Seq(Byte), NEW m, m = Digits(s), NEW n, n = Digits(SkipZeros(s))
    PROVE  /\ \E z \in 0 .. Len(m) :
                /\ Len(n) = Len(m) - z
                /\ \A i \in 1 .. z : m[i] = Zero
                /\ \A i \in 1 .. Len(n) : n[i] = m[z + i]
                /\ Len(n) > 0 => n[1] # Zero
           /\ AfterDigits(SkipZeros(s)) = AfterDigits(s)
<1>. DEFINE t == SkipZeros(s)
<1>1. PICK z \in 0 .. Len(s) :
        /\ Prefix(z, s, {Zero})
        /\ t \in Seq(Byte) /\ Len(t) = Len(s) - z
        /\ \A i \in 1 .. Len(s) - z : t[i] = s[z + i]
  BY ZerosAre
<1>2. PICK d \in 0 .. Len(s) :
        /\ Prefix(d, s, DigitBytes)
        /\ m \in Seq(Byte) /\ Len(m) = d
        /\ \A i \in 1 .. d : m[i] = s[i] /\ s[i] \in DigitBytes
        /\ AfterDigits(s) \in Seq(Byte) /\ Len(AfterDigits(s)) = Len(s) - d
        /\ \A i \in 1 .. Len(s) - d : AfterDigits(s)[i] = s[d + i]
  BY DigitsAre
<1>. HIDE DEF t
<1>3. PICK e \in 0 .. Len(t) :
        /\ Prefix(e, t, DigitBytes)
        /\ n \in Seq(Byte) /\ Len(n) = e
        /\ \A i \in 1 .. e : n[i] = t[i] /\ t[i] \in DigitBytes
        /\ AfterDigits(t) \in Seq(Byte) /\ Len(AfterDigits(t)) = Len(t) - e
        /\ \A i \in 1 .. Len(t) - e : AfterDigits(t)[i] = t[e + i]
  <2>1. n = Digits(t)
    BY DEF t
  <2>2. t \in Seq(Byte)
    BY <1>1
  <2>3. \E e \in 0 .. Len(t) :
          /\ Prefix(e, t, DigitBytes)
          /\ Digits(t) \in Seq(Byte) /\ Len(Digits(t)) = e
          /\ \A i \in 1 .. e : Digits(t)[i] = t[i] /\ t[i] \in DigitBytes
          /\ AfterDigits(t) \in Seq(Byte) /\ Len(AfterDigits(t)) = Len(t) - e
          /\ \A i \in 1 .. Len(t) - e : AfterDigits(t)[i] = t[e + i]
    BY <2>2, DigitsAre
  <2>4. QED
    BY <2>1, <2>3
<1>4. Zero \in DigitBytes /\ Len(s) \in Nat
  BY ByteSeq DEF DigitBytes, Zero, Byte, IsDigit
<1>5. d = z + e
  <2>1. z + e \in 0 .. Len(s)
    BY <1>1, <1>3, <1>4
  <2>2. ASSUME NEW i \in 1 .. z + e PROVE s[i] \in DigitBytes
    <3>1. CASE i <= z
      <4>1. i \in 1 .. z
        BY <1>1, <3>1
      <4>2. QED
        BY <1>1, <1>4, <4>1 DEF Prefix
    <3>2. CASE i > z
      <4>1. i - z \in 1 .. e /\ i - z \in 1 .. Len(s) - z /\ z + (i - z) = i
        BY <1>1, <1>3, <1>4, <3>2
      <4>2. t[i - z] = s[i]
        BY <1>1, <4>1
      <4>3. QED
        BY <1>3, <4>1, <4>2
    <3>3. QED
      BY <1>1, <3>1, <3>2
  <2>3. ASSUME z + e < Len(s) PROVE s[z + e + 1] \notin DigitBytes
    <3>1. e < Len(t) /\ e + 1 \in 1 .. Len(s) - z /\ z + (e + 1) = z + e + 1
      BY <1>1, <1>3, <1>4, <2>3
    <3>2. t[e + 1] = s[z + e + 1]
      BY <1>1, <3>1
    <3>3. QED
      BY <1>3, <3>1, <3>2 DEF Prefix
  <2>4. Prefix(z + e, s, DigitBytes)
    BY <2>1, <2>2, <2>3 DEF Prefix
  <2>5. QED
    BY <1>2, <2>4, PrefixIsUnique
<1>6. AfterDigits(t) = AfterDigits(s)
  <2>1. Len(AfterDigits(t)) = Len(AfterDigits(s))
    <3>1. Len(AfterDigits(t)) = Len(t) - e /\ Len(t) = Len(s) - z
      BY <1>1, <1>3
    <3>2. Len(AfterDigits(s)) = Len(s) - d /\ e \in Int /\ z \in Int /\ Len(s) \in Int
      BY <1>1, <1>2, <1>3, <1>4
    <3>3. QED
      BY <1>5, <3>1, <3>2
  <2>2. ASSUME NEW i \in 1 .. Len(AfterDigits(t))
        PROVE  AfterDigits(t)[i] = AfterDigits(s)[i]
    <3>1. i \in 1 .. Len(t) - e /\ i \in 1 .. Len(s) - d /\ e + i \in 1 .. Len(s) - z /\ z + (e + i) = d + i
      <4>1. Len(AfterDigits(t)) = Len(t) - e /\ Len(t) = Len(s) - z
        BY <1>1, <1>3
      <4>2. Len(s) \in Nat /\ z \in Nat /\ e \in Nat /\ d = z + e
        BY <1>1, <1>3, <1>4, <1>5
      <4>3. QED
        BY <4>1, <4>2
    <3>2. AfterDigits(t)[i] = t[e + i] /\ t[e + i] = s[z + (e + i)] /\ AfterDigits(s)[i] = s[d + i]
      BY <1>1, <1>2, <1>3, <3>1
    <3>3. QED
      BY <3>1, <3>2
  <2>3. QED
    BY <1>2, <1>3, <2>1, <2>2, SeqEqual
<1>7. ASSUME NEW i \in 1 .. Len(n) PROVE n[i] = m[z + i]
  <2>1. i \in 1 .. e /\ i \in 1 .. Len(s) - z /\ z + i \in 1 .. d
    <3>1. Len(n) = e /\ e \in 0 .. Len(t) /\ Len(t) = Len(s) - z
      BY <1>1, <1>3
    <3>2. Len(s) \in Nat /\ z \in Nat /\ e \in Nat /\ d = z + e
      BY <1>1, <1>3, <1>4, <1>5
    <3>3. QED
      BY <3>1, <3>2
  <2>2. n[i] = t[i]
    BY <1>3, <2>1
  <2>3. t[i] = s[z + i]
    BY <1>1, <2>1
  <2>4. m[z + i] = s[z + i]
    BY <1>2, <2>1
  <2>5. QED
    BY <2>2, <2>3, <2>4
<1>8. ASSUME NEW i \in 1 .. z PROVE m[i] = Zero
  <2>1. i \in 1 .. d
    BY <1>1, <1>3, <1>5
  <2>2. QED
    BY <1>1, <1>2, <2>1 DEF Prefix
<1>9. ASSUME Len(n) > 0 PROVE n[1] # Zero
  <2>1. 1 \in 1 .. Len(s) - z /\ z < Len(s) /\ 1 \in 1 .. e
    BY <1>1, <1>3, <1>4, <1>9
  <2>2. n[1] = s[z + 1]
    BY <1>1, <1>3, <2>1
  <2>3. QED
    BY <1>1, <2>1, <2>2 DEF Prefix
<1>10. z \in 0 .. Len(m) /\ Len(n) = Len(m) - z
  BY <1>1, <1>2, <1>3, <1>5
<1>11. QED
  BY <1>6, <1>7, <1>8, <1>9, <1>10 DEF t

-----------------------------------------------------------------------------
\* Numbers without leading zeros are compared as numbers.

LEMMA ValueSkipped ==
    ASSUME NEW m \in Seq(Byte), NEW n \in Seq(Byte), NEW z \in 0 .. Len(m),
           Len(n) = Len(m) - z,
           \A i \in 1 .. z : m[i] = Zero,
           \A i \in 1 .. Len(n) : n[i] = m[z + i]
    PROVE  Value(n) = Value(m)
<1>1. PICK h : Reading(h, m) /\ Value(m) = h[Len(m)]
  BY ValueIs
<1>2. PICK g : Reading(g, n) /\ Value(n) = g[Len(n)]
  BY ValueIs
<1>3. Len(m) \in Nat /\ Len(n) \in Nat /\ z \in Nat
  BY ByteSeq
<1>4. h[z] = 0
  <2>. DEFINE Good == {k \in Nat : k <= z => h[k] = 0}
  <2>1. 0 \in Good
    BY <1>1 DEF Reading
  <2>2. ASSUME NEW k \in 0 .. z - 1, k \in Good PROVE k + 1 \in Good
    <3>1. k + 1 \in 1 .. Len(m) /\ k + 1 \in 1 .. z /\ (k + 1) - 1 = k /\ h[k] = 0
      BY <1>3, <2>2
    <3>2. h[k + 1] = 10 * h[k] + (m[k + 1] - Zero)
      BY <1>1, <3>1 DEF Reading
    <3>3. h[k + 1] = 0
      BY <3>1, <3>2 DEF Zero
    <3>4. QED
      BY <3>1, <3>3
  <2>3. \A k \in 0 .. z : k \in Good
    <3>. HIDE DEF Good
    <3>1. QED
      BY <1>3, <2>1, <2>2, Climb
  <2>4. QED
    BY <1>3, <2>3
<1>5. g[Len(n)] = h[z + Len(n)]
  <2>. DEFINE Good == {k \in Nat : g[k] = h[z + k]}
  <2>1. 0 \in Good
    BY <1>2, <1>3, <1>4 DEF Reading
  <2>2. ASSUME NEW k \in 0 .. Len(n) - 1, k \in Good PROVE k + 1 \in Good
    <3>1. /\ k + 1 \in 1 .. Len(n) /\ z + (k + 1) \in 1 .. Len(m)
          /\ (k + 1) - 1 = k /\ z + (k + 1) - 1 = z + k /\ g[k] = h[z + k]
      BY <1>3, <2>2
    <3>2. g[k + 1] = 10 * g[k] + (n[k + 1] - Zero)
      BY <1>2, <3>1 DEF Reading
    <3>3. h[z + (k + 1)] = 10 * h[z + k] + (m[z + (k + 1)] - Zero)
      BY <1>1, <3>1 DEF Reading
    <3>4. n[k + 1] = m[z + (k + 1)]
      BY <3>1
    <3>5. QED
      BY <3>1, <3>2, <3>3, <3>4
  <2>3. \A k \in 0 .. Len(n) : k \in Good
    <3>. HIDE DEF Good
    <3>1. QED
      BY <1>3, <2>1, <2>2, Climb
  <2>4. QED
    BY <1>3, <2>3
<1>6. QED
  BY <1>1, <1>2, <1>3, <1>5

\* Of as many digits, the first that differs decides.
LEMMA FirstDigitDecides ==
    ASSUME NEW m \in Seq(Byte), NEW n \in Seq(Byte), Len(m) = Len(n),
           \A i \in 1 .. Len(m) : m[i] \in DigitBytes /\ n[i] \in DigitBytes,
           NEW x \in 1 .. Len(m), \A j \in 1 .. x - 1 : m[j] = n[j], m[x] < n[x]
    PROVE  Value(m) < Value(n)
<1>1. PICK h : Reading(h, m) /\ Value(m) = h[Len(m)]
  BY ValueIs
<1>2. PICK g : Reading(g, n) /\ Value(n) = g[Len(n)]
  BY ValueIs
<1>3. Len(m) \in Nat
  BY ByteSeq
<1>. DEFINE Good == {k \in Nat : (k < x => h[k] = g[k]) /\ (k >= x => h[k] < g[k])}
<1>4. 0 \in Good
  BY <1>1, <1>2 DEF Reading
<1>5. ASSUME NEW k \in 0 .. Len(m) - 1, k \in Good PROVE k + 1 \in Good
  <2>1. k \in 0 .. Len(m) /\ k + 1 \in 1 .. Len(m) /\ (k + 1) - 1 = k
    BY <1>3
  <2>2. h[k] \in Int /\ g[k] \in Int
    BY <1>1, <1>2, <2>1 DEF Reading
  <2>3. h[k + 1] = 10 * h[k] + (m[k + 1] - Zero) /\ g[k + 1] = 10 * g[k] + (n[k + 1] - Zero)
    BY <1>1, <1>2, <2>1 DEF Reading
  <2>4. m[k + 1] - Zero \in 0 .. 9 /\ n[k + 1] - Zero \in 0 .. 9
    BY <2>1 DEF DigitBytes, IsDigit, Zero
  <2>5. CASE k + 1 < x
    <3>1. k + 1 \in 1 .. x - 1 /\ k < x
      BY <2>1, <2>5
    <3>2. m[k + 1] = n[k + 1] /\ h[k] = g[k]
      BY <1>5, <3>1
    <3>3. QED
      BY <2>1, <2>3, <2>5, <3>2
  <2>6. CASE k + 1 = x
    <3>1. h[k] = g[k] /\ m[k + 1] < n[k + 1]
      BY <1>5, <2>1, <2>6
    <3>2. m[k + 1] \in Int /\ n[k + 1] \in Int
      BY ByteSeq, <2>1
    <3>3. h[k + 1] < g[k + 1]
      BY <2>2, <2>3, <3>1, <3>2 DEF Zero
    <3>4. QED
      BY <2>1, <2>6, <3>3
  <2>7. CASE k + 1 > x
    <3>1. h[k] < g[k]
      BY <1>5, <2>1, <2>7
    <3>. DEFINE p == h[k]
                q == g[k]
    <3>2. p \in Int /\ q \in Int /\ p < q
      BY <2>2, <3>1
    <3>3. h[k + 1] < g[k + 1]
      <4>. HIDE DEF p, q
      <4>1. ASSUME NEW a \in 0 .. 9, NEW b \in 0 .. 9 PROVE 10 * p + a < 10 * q + b
        BY <3>2
      <4>2. QED
        BY <2>3, <2>4, <4>1 DEF p, q
    <3>4. QED
      BY <2>1, <2>7, <3>3
  <2>8. QED
    BY <2>1, <2>5, <2>6, <2>7
<1>6. \A k \in 0 .. Len(m) : k \in Good
  <2>. HIDE DEF Good
  <2>1. QED
    BY <1>3, <1>4, <1>5, Climb
<1>7. QED
  BY <1>1, <1>2, <1>3, <1>6

\* Of numbers without leading zeros, the longer is the larger.
LEMMA LongerIsLarger ==
    ASSUME NEW m \in Seq(Byte), NEW n \in Seq(Byte), Len(m) > Len(n),
           \A i \in 1 .. Len(m) : m[i] \in DigitBytes,
           \A i \in 1 .. Len(n) : n[i] \in DigitBytes,
           m[1] # Zero
    PROVE  Value(m) > Value(n)
<1>1. PICK h : Reading(h, m) /\ Value(m) = h[Len(m)]
  BY ValueIs
<1>2. PICK g : Reading(g, n) /\ Value(n) = g[Len(n)]
  BY ValueIs
<1>3. Len(m) \in Nat /\ Len(n) \in Nat
  BY ByteSeq
<1>. DEFINE d == Len(m) - Len(n)
<1>4. d \in 1 .. Len(m)
  BY <1>3
<1>5. ASSUME NEW k \in 1 .. Len(m)
      PROVE  h[k] = 10 * h[k - 1] + (m[k] - Zero) /\ m[k] - Zero \in 0 .. 9
  BY <1>1 DEF Reading, DigitBytes, IsDigit, Zero
<1>6. h[d] > 0
  <2>. DEFINE Good == {k \in Nat : k > 0 => h[k] > 0}
  <2>1. 0 \in Good
    OBVIOUS
  <2>2. ASSUME NEW k \in 0 .. Len(m) - 1, k \in Good PROVE k + 1 \in Good
    <3>1. k + 1 \in 1 .. Len(m) /\ (k + 1) - 1 = k /\ k \in 0 .. Len(m)
      BY <1>3
    <3>2. h[k + 1] = 10 * h[k] + (m[k + 1] - Zero) /\ m[k + 1] - Zero \in 0 .. 9
      BY <1>5, <3>1
    <3>3. CASE k = 0
      <4>1. h[k] = 0
        BY <1>1, <3>3 DEF Reading
      <4>2. m[k + 1] \in Byte /\ m[k + 1] # Zero
        BY <3>1, <3>3, ByteSeq
      <4>3. h[k + 1] > 0
        BY <3>2, <4>1, <4>2 DEF Zero, Byte
      <4>4. QED
        BY <3>1, <4>3
    <3>4. CASE k > 0
      <4>1. h[k] > 0 /\ h[k] \in Int
        BY <1>1, <2>2, <3>1, <3>4 DEF Reading
      <4>. DEFINE p == h[k]
                  r == m[k + 1] - Zero
      <4>2. p \in Int /\ p > 0 /\ r \in 0 .. 9
        BY <3>2, <4>1
      <4>3. h[k + 1] = 10 * p + r
        BY <3>2
      <4>4. h[k + 1] > 0
        <5>. HIDE DEF p, r
        <5>1. 10 * p + r > 0
          BY <4>2
        <5>2. QED
          BY <4>3, <5>1
      <4>5. QED
        BY <3>1, <4>4
    <3>5. QED
      BY <3>1, <3>3, <3>4
  <2>3. \A k \in 0 .. Len(m) : k \in Good
    <3>. HIDE DEF Good
    <3>1. QED
      BY <1>3, <2>1, <2>2, Climb
  <2>4. QED
    BY <1>4, <2>3
<1>7. h[d + Len(n)] > g[Len(n)]
  <2>. DEFINE Good == {k \in Nat : h[d + k] > g[k]}
  <2>1. 0 \in Good
    BY <1>2, <1>4, <1>6 DEF Reading
  <2>2. ASSUME NEW k \in 0 .. Len(n) - 1, k \in Good PROVE k + 1 \in Good
    <3>1. /\ k + 1 \in 1 .. Len(n) /\ d + (k + 1) \in 1 .. Len(m) /\ k \in 0 .. Len(n) /\ d + k \in 0 .. Len(m)
          /\ (k + 1) - 1 = k /\ d + (k + 1) - 1 = d + k
      BY <1>3, <1>4
    <3>2. g[k + 1] = 10 * g[k] + (n[k + 1] - Zero)
      BY <1>2, <3>1 DEF Reading
    <3>3. h[d + (k + 1)] = 10 * h[d + k] + (m[d + (k + 1)] - Zero) /\ m[d + (k + 1)] - Zero \in 0 .. 9
      BY <1>5, <3>1
    <3>4. h[d + k] \in Int /\ g[k] \in Int /\ h[d + k] > g[k]
      BY <1>1, <1>2, <2>2, <3>1 DEF Reading
    <3>5. n[k + 1] - Zero \in 0 .. 9
      BY <3>1 DEF DigitBytes, IsDigit, Zero
    <3>. HIDE DEF d
    <3>6. ASSUME NEW a \in 0 .. 9, NEW b \in 0 .. 9 PROVE 10 * h[d + k] + a > 10 * g[k] + b
      BY <3>4
    <3>7. h[d + (k + 1)] > g[k + 1]
      BY <3>2, <3>3, <3>5, <3>6
    <3>8. QED
      BY <3>1, <3>7
  <2>3. \A k \in 0 .. Len(n) : k \in Good
    <3>. HIDE DEF Good, d
    <3>1. QED
      BY <1>3, <2>1, <2>2, Climb
  <2>4. QED
    BY <1>3, <2>3
<1>8. d + Len(n) = Len(m)
  BY <1>3
<1>9. QED
  BY <1>1, <1>2, <1>7, <1>8

LEMMA ValueType ==
    ASSUME NEW s \in Seq(Byte)
    PROVE  /\ Value(s) \in Int
           /\ (\A i \in 1 .. Len(s) : s[i] \in DigitBytes) => Value(s) \in Nat
           /\ s = <<>> => Value(s) = 0
<1>1. PICK h : Reading(h, s) /\ Value(s) = h[Len(s)]
  BY ValueIs
<1>2. Len(s) \in Nat /\ Len(s) \in 0 .. Len(s)
  BY ByteSeq
<1>3. Value(s) \in Int
  BY <1>1, <1>2 DEF Reading
<1>4. ASSUME \A i \in 1 .. Len(s) : s[i] \in DigitBytes
      PROVE  Value(s) \in Nat
  <2>. DEFINE Good == {k \in 0 .. Len(s) : h[k] \in Nat}
  <2>1. 0 \in Good
    BY <1>1, <1>2 DEF Reading
  <2>2. ASSUME NEW k \in 0 .. Len(s) - 1, k \in Good PROVE k + 1 \in Good
    <3>1. k + 1 \in 1 .. Len(s) /\ (k + 1) - 1 = k /\ h[k] \in Nat
      BY <1>2, <2>2
    <3>2. h[k + 1] = 10 * h[k] + (s[k + 1] - Zero)
      BY <1>1, <3>1 DEF Reading
    <3>3. s[k + 1] - Zero \in Nat
      BY <1>4, <3>1 DEF DigitBytes, IsDigit, Zero
    <3>4. QED
      BY <3>1, <3>2, <3>3
  <2>3. \A k \in 0 .. Len(s) : k \in Good
    <3>. HIDE DEF Good
    <3>1. QED
      BY <1>2, <2>1, <2>2, Climb
  <2>4. QED
    BY <1>1, <1>2, <2>3
<1>5. s = <<>> => Value(s) = 0
  <2>1. s = <<>> => Len(s) = 0
    OBVIOUS
  <2>2. QED
    BY <1>1, <2>1 DEF Reading
<1>6. QED
  BY <1>3, <1>4, <1>5

IsNumeral(m) ==
    /\ m \in Seq(Byte)
    /\ \A i \in 1 .. Len(m) : m[i] \in DigitBytes
    /\ Len(m) > 0 => m[1] # Zero

LEMMA NumeralsCompare ==
    ASSUME NEW m, NEW n, IsNumeral(m), IsNumeral(n)
    PROVE  CompareDigits(m, n) = Sign(Value(m) - Value(n))
<1>1. /\ m \in Seq(Byte) /\ n \in Seq(Byte) /\ Len(m) \in Nat /\ Len(n) \in Nat
      /\ \A i \in 1 .. Len(m) : m[i] \in DigitBytes
      /\ \A i \in 1 .. Len(n) : n[i] \in DigitBytes
  BY ByteSeq DEF IsNumeral
<1>2. Value(m) \in Int /\ Value(n) \in Int
  BY <1>1, ValueType
<1>3. CASE Len(m) > Len(n)
  <2>1. Value(m) > Value(n)
    BY <1>1, <1>3, LongerIsLarger DEF IsNumeral
  <2>2. Sign(Len(m) - Len(n)) = 1 /\ Sign(Value(m) - Value(n)) = 1
    BY <1>1, <1>2, <1>3, <2>1 DEF Sign
  <2>3. QED
    BY <2>2 DEF CompareDigits, Then
<1>4. CASE Len(m) < Len(n)
  <2>1. Value(n) > Value(m)
    BY <1>1, <1>4, LongerIsLarger DEF IsNumeral
  <2>2. Sign(Len(m) - Len(n)) = -1 /\ Sign(Value(m) - Value(n)) = -1
    BY <1>1, <1>2, <1>4, <2>1 DEF Sign
  <2>3. QED
    BY <2>2 DEF CompareDigits, Then
<1>5. CASE Len(m) = Len(n)
  <2>. DEFINE f == Padded(m, Zero)
              g == Padded(n, Zero)
              L == Lex(Smaller, Int)
  <2>1. m \in Seq(Int) /\ n \in Seq(Int) /\ Zero \in Int
    <3>1. Byte \subseteq Int
      BY DEF Byte
    <3>2. m \in Seq(Int)
      BY <1>1, <3>1, SeqMonotonic
    <3>3. n \in Seq(Int)
      BY <1>1, <3>1, SeqMonotonic
    <3>4. Zero \in Int
      BY DEF Zero
    <3>5. QED
      BY <3>2, <3>3, <3>4
  <2>2. CompareDigits(m, n) = SignIn(L, f, g)
    <3>1. Sign(Len(m) - Len(n)) = 0
      BY <1>1, <1>5 DEF Sign
    <3>2. CompareSeqs(m, n, Zero) = SignIn(L, f, g)
      BY <2>1, SeqsCompare
    <3>. HIDE DEF L, f, g
    <3>3. QED
      BY <3>1, <3>2 DEF CompareDigits, Then
  <2>3. /\ f \in [Pos -> Int] /\ \A i \in Pos : f[i] = IF i <= Len(m) THEN m[i] ELSE Zero
        /\ g \in [Pos -> Int] /\ \A i \in Pos : g[i] = IF i <= Len(n) THEN n[i] ELSE Zero
    BY <2>1, PaddedType
  <2>4. StrictOrder(L, [Pos -> Int])
    BY SmallerIsStrictOrder, LexIsStrictOrder
  <2>. HIDE DEF f, g
  <2>5. CASE f = g
    <3>1. \A i \in 1 .. Len(m) : m[i] = n[i]
      <4>1. ASSUME NEW i \in 1 .. Len(m) PROVE m[i] = n[i]
        <5>1. i \in Pos /\ i <= Len(m) /\ i <= Len(n)
          BY <1>5 DEF Pos
        <5>2. QED
          BY <2>3, <2>5, <5>1
      <4>2. QED
        BY <4>1
    <3>2. m = n
      BY <1>1, <1>5, <3>1, SeqEqual
    <3>3. <<f, g>> \notin L
      BY <2>3, <2>4, <2>5 DEF StrictOrder
    <3>4. Sign(Value(m) - Value(n)) = 0
      BY <1>2, <3>2 DEF Sign
    <3>. HIDE DEF L
    <3>5. QED
      BY <2>2, <2>5, <3>3, <3>4 DEF SignIn
  <2>6. CASE <<f, g>> \in L
    <3>1. PICK i \in Pos : (\A j \in 1 .. i - 1 : f[j] = g[j]) /\ <<f[i], g[i]>> \in Smaller
      BY <2>6 DEF Lex, LexLess
    <3>2. f[i] < g[i]
      BY <3>1 DEF Smaller
    <3>3. i \in 1 .. Len(m)
      <4>1. i <= Len(m)
        <5>1. i > Len(m) => f[i] = Zero /\ g[i] = Zero
          BY <1>1, <1>5, <2>3 DEF Pos
        <5>2. QED
          BY <1>1, <3>2, <5>1 DEF Pos, Zero
      <4>2. QED
        BY <1>1, <4>1 DEF Pos
    <3>4. m[i] < n[i]
      BY <1>5, <2>3, <3>2, <3>3
    <3>5. ASSUME NEW j \in 1 .. i - 1 PROVE m[j] = n[j]
      <4>1. j \in Pos /\ j <= Len(m) /\ j <= Len(n)
        BY <1>1, <1>5, <3>3 DEF Pos
      <4>2. QED
        BY <2>3, <3>1, <4>1
    <3>6. Value(m) < Value(n)
      BY <1>1, <1>5, <3>3, <3>4, <3>5, FirstDigitDecides
    <3>7. Sign(Value(m) - Value(n)) = -1
      BY <1>2, <3>6 DEF Sign
    <3>. HIDE DEF L
    <3>8. QED
      BY <2>2, <2>6, <3>7 DEF SignIn
  <2>7. CASE <<g, f>> \in L
    <3>1. PICK i \in Pos : (\A j \in 1 .. i - 1 : g[j] = f[j]) /\ <<g[i], f[i]>> \in Smaller
      BY <2>7 DEF Lex, LexLess
    <3>2. g[i] < f[i]
      BY <3>1 DEF Smaller
    <3>3. i \in 1 .. Len(n)
      <4>1. i <= Len(n)
        <5>1. i > Len(n) => f[i] = Zero /\ g[i] = Zero
          BY <1>1, <1>5, <2>3 DEF Pos
        <5>2. QED
          BY <1>1, <3>2, <5>1 DEF Pos, Zero
      <4>2. QED
        BY <1>1, <4>1 DEF Pos
    <3>4. n[i] < m[i]
      BY <1>5, <2>3, <3>2, <3>3
    <3>5. ASSUME NEW j \in 1 .. i - 1 PROVE n[j] = m[j]
      <4>1. j \in Pos /\ j <= Len(m) /\ j <= Len(n)
        BY <1>1, <1>5, <3>3 DEF Pos
      <4>2. QED
        BY <2>3, <3>1, <4>1
    <3>6. Value(n) < Value(m)
      BY <1>1, <1>5, <3>3, <3>4, <3>5, FirstDigitDecides
    <3>7. Sign(Value(m) - Value(n)) = 1
      BY <1>2, <3>6 DEF Sign
    <3>8. <<f, g>> \notin L
      BY <2>3, <2>4, <2>7 DEF StrictOrder
    <3>. HIDE DEF L
    <3>9. QED
      BY <2>2, <2>7, <3>7, <3>8 DEF SignIn
  <2>8. QED
    BY <2>3, <2>4, <2>5, <2>6, <2>7 DEF StrictOrder
<1>6. QED
  BY <1>1, <1>3, <1>4, <1>5

\* What verrevcmp makes of two runs of digits.
LEMMA NumbersCompare ==
    ASSUME NEW a \in Seq(Byte), NEW b \in Seq(Byte)
    PROVE  CompareDigits(Digits(SkipZeros(a)), Digits(SkipZeros(b))) =
             Sign(Value(Digits(a)) - Value(Digits(b)))
<1>1. ASSUME NEW s \in Seq(Byte)
      PROVE  IsNumeral(Digits(SkipZeros(s))) /\ Value(Digits(SkipZeros(s))) = Value(Digits(s))
  <2>. DEFINE m == Digits(s)
              t == SkipZeros(s)
              n == Digits(t)
  <2>1. t \in Seq(Byte)
    BY ZerosAre
  <2>2. m \in Seq(Byte)
    BY DigitsAre
  <2>3. n \in Seq(Byte) /\ \A i \in 1 .. Len(n) : n[i] \in DigitBytes
    <3>. HIDE DEF t
    <3>1. QED
      BY <2>1, DigitsAre
  <2>4. PICK z \in 0 .. Len(m) :
          /\ Len(n) = Len(m) - z
          /\ \A i \in 1 .. z : m[i] = Zero
          /\ \A i \in 1 .. Len(n) : n[i] = m[z + i]
          /\ Len(n) > 0 => n[1] # Zero
    BY DigitsSkipped
  <2>. HIDE DEF m, n
  <2>5. Value(n) = Value(m)
    BY <2>2, <2>3, <2>4, ValueSkipped
  <2>6. IsNumeral(n)
    BY <2>3, <2>4 DEF IsNumeral
  <2>7. QED
    BY <2>5, <2>6 DEF m, n
<1>2. QED
  BY <1>1, NumeralsCompare

-----------------------------------------------------------------------------
\* The words and numbers of a version.

Rest(s) == From(s, Len(Word(s)) + 1)
Left(s) == AfterDigits(Rest(s))

LEMMA WordIs ==
    ASSUME NEW s \in Seq(Byte)
    PROVE  \E w \in 0 .. Len(s) :
             /\ Prefix(w, s, WordBytes)
             /\ Word(s) \in Seq(Byte) /\ Len(Word(s)) = w
             /\ \A i \in 1 .. w : Word(s)[i] = s[i] /\ s[i] \in WordBytes
             /\ Rest(s) \in Seq(Byte) /\ Len(Rest(s)) = Len(s) - w
             /\ \A i \in 1 .. Len(s) - w : Rest(s)[i] = s[w + i]
<1>. DEFINE w == Span(s, LAMBDA c : ~IsDigit(c))
<1>1. Prefix(w, s, WordBytes)
  BY SpansArePrefixes
<1>2. Word(s) = SubSeq(s, 1, w)
  BY DEF Word
<1>. HIDE DEF w
<1>3. w \in 0 .. Len(s) /\ \A i \in 1 .. w : s[i] \in WordBytes
  BY <1>1 DEF Prefix
<1>4. /\ SubSeq(s, 1, w) \in Seq(Byte) /\ Len(SubSeq(s, 1, w)) = w
      /\ \A i \in 1 .. w : SubSeq(s, 1, w)[i] = s[i]
      /\ From(s, w + 1) \in Seq(Byte) /\ Len(From(s, w + 1)) = Len(s) - w
      /\ \A i \in 1 .. Len(s) - w : From(s, w + 1)[i] = s[w + i]
  BY <1>3, CutIs
<1>5. Rest(s) = From(s, w + 1)
  BY <1>2, <1>4 DEF Rest
<1>6. QED
  BY <1>1, <1>2, <1>3, <1>4, <1>5

\* A word, or a number after it, takes something off.
LEMMA LeftIs ==
    ASSUME NEW s \in Seq(Byte)
    PROVE  /\ Left(s) \in Seq(Byte)
           /\ s # <<>> => Len(Left(s)) < Len(s)
           /\ s = <<>> => Left(s) = <<>>
<1>1. PICK w \in 0 .. Len(s) :
        Prefix(w, s, WordBytes) /\ Rest(s) \in Seq(Byte) /\ Len(Rest(s)) = Len(s) - w
        /\ \A i \in 1 .. Len(s) - w : Rest(s)[i] = s[w + i]
  BY WordIs
<1>. DEFINE t == Rest(s)
<1>2. PICK d \in 0 .. Len(t) :
        Prefix(d, t, DigitBytes) /\ AfterDigits(t) \in Seq(Byte) /\ Len(AfterDigits(t)) = Len(t) - d
  <2>1. t \in Seq(Byte)
    BY <1>1
  <2>. HIDE DEF t
  <2>2. QED
    BY <2>1, DigitsAre
<1>3. Len(s) \in Nat /\ Len(t) = Len(s) - w
  BY <1>1
<1>4. ASSUME s # <<>> PROVE w + d > 0
  <2>. SUFFICES ASSUME w = 0, d = 0 PROVE FALSE
    BY <1>1, <1>2, <1>3
  <2>1. Len(s) > 0 /\ Len(t) = Len(s)
    BY <1>3, <1>4
  <2>2. s[1] \in Byte /\ s[1] \notin WordBytes /\ t[1] = s[1]
    BY <1>1, <2>1 DEF Prefix
  <2>3. t[1] \notin DigitBytes
    BY <1>2, <2>1 DEF Prefix
  <2>4. QED
    BY <2>2, <2>3 DEF WordBytes, DigitBytes
<1>5. Left(s) \in Seq(Byte) /\ Len(Left(s)) = Len(s) - (w + d)
  BY <1>2, <1>3 DEF Left
<1>6. s = <<>> => Left(s) = <<>>
  <2>1. s = <<>> => Len(s) = 0
    OBVIOUS
  <2>2. s = <<>> => Len(Left(s)) = 0
    BY <1>1, <1>2, <1>3, <1>5, <2>1
  <2>3. QED
    BY <1>5, <2>2
<1>7. QED
  BY <1>1, <1>2, <1>3, <1>4, <1>5, <1>6

Item == [word : Seq(Byte), number : Nat]
Nothing == [word |-> <<>>, number |-> 0]
ItemOf(s) == [word |-> Word(s), number |-> Value(Digits(Rest(s)))]

LEMMA ItemType ==
    ASSUME NEW s \in Seq(Byte)
    PROVE  ItemOf(s) \in Item /\ Nothing \in Item /\ (s = <<>> => ItemOf(s) = Nothing)
<1>1. Word(s) \in Seq(Byte) /\ Rest(s) \in Seq(Byte)
      /\ (s = <<>> => Word(s) = <<>> /\ Rest(s) = <<>>)
  <2>1. PICK w \in 0 .. Len(s) :
          /\ Word(s) \in Seq(Byte) /\ Len(Word(s)) = w
          /\ Rest(s) \in Seq(Byte) /\ Len(Rest(s)) = Len(s) - w
    BY WordIs
  <2>2. s = <<>> => Len(Word(s)) = 0 /\ Len(Rest(s)) = 0
    BY <2>1
  <2>3. QED
    BY <2>1, <2>2
<1>. DEFINE t == Rest(s)
<1>. HIDE DEF t
<1>2. t \in Seq(Byte) /\ (s = <<>> => t = <<>>)
  BY <1>1 DEF t
<1>3. PICK d \in 0 .. Len(t) :
        /\ Digits(t) \in Seq(Byte) /\ Len(Digits(t)) = d
        /\ \A i \in 1 .. d : Digits(t)[i] = t[i] /\ t[i] \in DigitBytes
  BY <1>2, DigitsAre
<1>4. s = <<>> => Digits(t) = <<>>
  <2>1. s = <<>> => Len(Digits(t)) = 0
    BY <1>2, <1>3
  <2>2. QED
    BY <1>3, <2>1
<1>5. Value(Digits(t)) \in Nat /\ (s = <<>> => Value(Digits(t)) = 0)
  <2>1. \A i \in 1 .. Len(Digits(t)) : Digits(t)[i] \in DigitBytes
    BY <1>3
  <2>2. QED
    BY <1>3, <1>4, <2>1, ValueType
<1>6. QED
  BY <1>1, <1>5 DEF ItemOf, Item, Nothing, t

LEMMA WordsAre ==
    ASSUME NEW s \in Seq(Byte)
    PROVE  /\ Words[s] \in Seq(Item)
           /\ Words[s] = IF s = <<>> THEN <<>> ELSE <<ItemOf(s)>> \o Words[Left(s)]
<1>. DEFINE S == Seq(Byte)
            T == Seq(Item)
            Ends == {<<>>}
            size == [x \in S |-> Len(x)]
            base == [x \in S |-> <<>>]
            rest == [x \in S |-> Left(x)]
            step == [x \in S |-> [y \in T |-> <<ItemOf(x)>> \o y]]
            Body(f) == [x \in S |-> IF x = <<>> THEN <<>> ELSE <<ItemOf(x)>> \o f[Left(x)]]
<1>1. size \in [S -> Nat] /\ T # {} /\ \A x \in S : x \in Ends => base[x] \in T
  <2>1. <<>> \in Seq(Item)
    OBVIOUS
  <2>2. size \in [S -> Nat]
    OBVIOUS
  <2>3. QED
    BY <2>1, <2>2
<1>2. \A x \in S : x \notin Ends => rest[x] \in S /\ size[rest[x]] < size[x]
  BY LeftIs
<1>3. \A x \in S : x \notin Ends => step[x] \in [T -> T]
  BY ItemType
<1>4. ASSUME NEW f \in [S -> T], Recurs(f, S, Ends, base, rest, step)
      PROVE  f = Body(f)
  <2>1. \A x \in S : (IF x \in Ends THEN base[x] ELSE step[x][f[rest[x]]]) = Body(f)[x]
    <3>1. \A x \in S : x \notin Ends => f[Left(x)] \in T
      BY <1>2
    <3>2. QED
      BY <3>1
  <2>2. QED
    BY <1>4, <2>1 DEF Recurs
<1>5. PICK f \in [S -> T] : f = Body(f)
  <2>1. \E f \in [S -> T] : Recurs(f, S, Ends, base, rest, step)
    <3>. HIDE DEF S, T, Ends, size, base, rest, step
    <3>1. QED
      BY <1>1, <1>2, <1>3, RecursionExists
  <2>2. QED
    BY <1>4, <2>1
<1>6. Words = CHOOSE g : g = Body(g)
  BY DEF Words, Rest, Left, ItemOf
<1>7. Words = Body(Words)
  <2>. HIDE DEF Body
  <2>1. QED
    BY <1>5, <1>6
<1>8. ASSUME NEW x \in S
      PROVE  Words[x] = IF x = <<>> THEN <<>> ELSE <<ItemOf(x)>> \o Words[Left(x)]
  <2>1. Words[x] = Body(Words)[x]
    <3>. HIDE DEF Body
    <3>1. QED
      BY <1>7
  <2>2. QED
    BY <2>1
<1>9. S \subseteq {x \in S : Words[x] \in T}
  <2>. DEFINE Typed == {x \in S : Words[x] \in T}
  <2>1. ASSUME NEW x \in S, \A y \in S : size[y] < size[x] => y \in Typed
        PROVE  x \in Typed
    <3>1. CASE x = <<>>
      <4>1. Words[x] = <<>>
        BY <1>8, <3>1
      <4>2. <<>> \in Seq(Item)
        OBVIOUS
      <4>3. QED
        BY <4>1, <4>2
    <3>2. CASE x # <<>>
      <4>1. Left(x) \in S /\ size[Left(x)] < size[x]
        BY <3>2, LeftIs
      <4>2. Words[Left(x)] \in Seq(Item) /\ ItemOf(x) \in Item
        BY <2>1, <4>1, ItemType
      <4>3. <<ItemOf(x)>> \o Words[Left(x)] \in Seq(Item)
        BY <4>2
      <4>4. QED
        BY <1>8, <3>2, <4>3
    <3>3. QED
      BY <3>1, <3>2
  <2>2. S \subseteq Typed
    <3>. HIDE DEF Typed, S, size
    <3>1. QED
      BY <1>1, <2>1, BySize
  <2>3. QED
    BY <2>2
<1>10. QED
  BY <1>8, <1>9

\* The words and numbers of a version, and nothing after them.
Items(s) == Padded(Words[s], Nothing)

LEMMA ItemsAre ==
    ASSUME NEW s \in Seq(Byte)
    PROVE  /\ Items(s) \in [Pos -> Item]
           /\ Items(s)[1] = ItemOf(s)
           /\ \A i \in Pos : Items(Left(s))[i] = Items(s)[i + 1]
<1>. DEFINE ws == Words[s]
            us == Words[Left(s)]
<1>1. Nothing \in Item /\ ItemOf(s) \in Item /\ (s = <<>> => ItemOf(s) = Nothing)
  BY ItemType
<1>2. Left(s) \in Seq(Byte) /\ (s = <<>> => Left(s) = <<>>)
  BY LeftIs
<1>3. ws \in Seq(Item) /\ ws = IF s = <<>> THEN <<>> ELSE <<ItemOf(s)>> \o us
  BY WordsAre
<1>4. us \in Seq(Item) /\ (s = <<>> => us = <<>>)
  BY <1>2, WordsAre
<1>. HIDE DEF ws, us
<1>5. /\ Padded(ws, Nothing) \in [Pos -> Item]
      /\ \A i \in Pos : Padded(ws, Nothing)[i] = IF i <= Len(ws) THEN ws[i] ELSE Nothing
  <2>1. ws \in Seq(Item) /\ Nothing \in Item
    BY <1>1, <1>3
  <2>2. QED
    BY <2>1, PaddedType
<1>6. \A i \in Pos : Padded(us, Nothing)[i] = IF i <= Len(us) THEN us[i] ELSE Nothing
  BY <1>1, <1>4, PaddedType
<1>7. CASE s = <<>>
  <2>1. Len(ws) = 0 /\ Len(us) = 0
    BY <1>3, <1>4, <1>7
  <2>2. \A i \in Pos : Padded(ws, Nothing)[i] = Nothing /\ Padded(us, Nothing)[i] = Nothing
    BY <1>5, <1>6, <2>1 DEF Pos
  <2>3. 1 \in Pos /\ \A i \in Pos : i + 1 \in Pos
    BY DEF Pos
  <2>4. QED
    BY <1>1, <1>5, <1>7, <2>2, <2>3 DEF Items, ws, us
<1>8. CASE s # <<>>
  <2>1. ws = <<ItemOf(s)>> \o us
    BY <1>3, <1>8
  <2>2. Len(ws) = Len(us) + 1 /\ Len(us) \in Nat /\ ws[1] = ItemOf(s)
    BY <1>1, <1>4, <2>1
  <2>3. ASSUME NEW i \in 1 .. Len(us) PROVE ws[i + 1] = us[i]
    BY <1>1, <1>4, <2>1
  <2>4. Padded(ws, Nothing)[1] = ItemOf(s)
    BY <1>5, <2>2 DEF Pos
  <2>5. ASSUME NEW i \in Pos PROVE Padded(us, Nothing)[i] = Padded(ws, Nothing)[i + 1]
    <3>1. i + 1 \in Pos /\ i \in Nat /\ i >= 1
      BY DEF Pos
    <3>2. CASE i <= Len(us)
      <4>1. i \in 1 .. Len(us) /\ i + 1 <= Len(ws)
        BY <2>2, <3>1, <3>2
      <4>2. QED
        BY <1>5, <1>6, <2>3, <3>1, <3>2, <4>1
    <3>3. CASE ~(i <= Len(us))
      <4>1. ~(i + 1 <= Len(ws))
        BY <2>2, <3>1, <3>3
      <4>2. QED
        BY <1>5, <1>6, <3>1, <3>3, <4>1
    <3>4. QED
      BY <3>2, <3>3
  <2>6. QED
    BY <1>5, <2>4, <2>5 DEF Items, ws, us
<1>9. QED
  BY <1>7, <1>8

\* The first byte of a word is one more than what the rest of it gives.
LEMMA WordStep ==
    ASSUME NEW s \in Seq(Byte), StartsWord(s)
    PROVE  /\ From(s, 2) \in Seq(Byte) /\ Len(From(s, 2)) < Len(s)
           /\ s[1] \in WordBytes
           /\ Len(Word(s)) = Len(Word(From(s, 2))) + 1
           /\ Word(s)[1] = s[1]
           /\ \A i \in 1 .. Len(Word(From(s, 2))) : Word(s)[i + 1] = Word(From(s, 2))[i]
           /\ Rest(s) = Rest(From(s, 2))
<1>. DEFINE t == From(s, 2)
<1>1. Len(s) \in Nat /\ Len(s) > 0 /\ s[1] \in WordBytes
  <2>1. Len(s) \in Nat /\ s # <<>>
    BY DEF StartsWord
  <2>2. Len(s) > 0
    BY <2>1
  <2>3. s[1] \in Byte
    BY <2>2
  <2>4. QED
    BY <2>1, <2>2, <2>3 DEF StartsWord, WordBytes
<1>2. /\ t \in Seq(Byte) /\ Len(t) = Len(s) - 1
      /\ \A i \in 1 .. Len(s) - 1 : t[i] = s[1 + i]
  <2>. DEFINE k == 1
  <2>1. k \in 0 .. Len(s) /\ t = From(s, k + 1)
    BY <1>1
  <2>2. /\ From(s, k + 1) \in Seq(Byte) /\ Len(From(s, k + 1)) = Len(s) - k
        /\ \A i \in 1 .. Len(s) - k : From(s, k + 1)[i] = s[k + i]
    <3>. HIDE DEF k
    <3>1. QED
      BY <2>1, CutIs
  <2>. HIDE DEF t
  <2>3. QED
    BY <2>1, <2>2
<1>. HIDE DEF t
<1>3. PICK w \in 0 .. Len(s) :
        /\ Prefix(w, s, WordBytes)
        /\ Word(s) \in Seq(Byte) /\ Len(Word(s)) = w
        /\ \A i \in 1 .. w : Word(s)[i] = s[i] /\ s[i] \in WordBytes
        /\ Rest(s) \in Seq(Byte) /\ Len(Rest(s)) = Len(s) - w
        /\ \A i \in 1 .. Len(s) - w : Rest(s)[i] = s[w + i]
  BY WordIs
<1>4. PICK u \in 0 .. Len(t) :
        /\ Prefix(u, t, WordBytes)
        /\ Word(t) \in Seq(Byte) /\ Len(Word(t)) = u
        /\ \A i \in 1 .. u : Word(t)[i] = t[i] /\ t[i] \in WordBytes
        /\ Rest(t) \in Seq(Byte) /\ Len(Rest(t)) = Len(t) - u
        /\ \A i \in 1 .. Len(t) - u : Rest(t)[i] = t[u + i]
  BY <1>2, WordIs
<1>5. w = u + 1
  <2>1. u + 1 \in 0 .. Len(s)
    BY <1>1, <1>2, <1>4
  <2>2. ASSUME NEW i \in 1 .. u + 1 PROVE s[i] \in WordBytes
    <3>1. CASE i = 1
      BY <1>1, <3>1
    <3>2. CASE i # 1
      <4>1. i - 1 \in 1 .. u /\ i - 1 \in 1 .. Len(s) - 1 /\ 1 + (i - 1) = i
        BY <1>1, <1>2, <1>4, <3>2
      <4>2. t[i - 1] = s[i]
        BY <1>2, <4>1
      <4>3. QED
        BY <1>4, <4>1, <4>2
    <3>3. QED
      BY <3>1, <3>2
  <2>3. ASSUME u + 1 < Len(s) PROVE s[u + 1 + 1] \notin WordBytes
    <3>1. u < Len(t) /\ u + 1 \in 1 .. Len(s) - 1 /\ 1 + (u + 1) = u + 1 + 1
      BY <1>1, <1>2, <1>4, <2>3
    <3>2. t[u + 1] = s[u + 1 + 1]
      BY <1>2, <3>1
    <3>3. QED
      BY <1>4, <3>1, <3>2 DEF Prefix
  <2>4. Prefix(u + 1, s, WordBytes)
    BY <2>1, <2>2, <2>3 DEF Prefix
  <2>5. QED
    BY <1>3, <2>4, PrefixIsUnique
<1>6. Word(s)[1] = s[1]
  BY <1>3, <1>4, <1>5
<1>7. ASSUME NEW i \in 1 .. Len(Word(t)) PROVE Word(s)[i + 1] = Word(t)[i]
  <2>1. i \in 1 .. u /\ i \in 1 .. Len(s) - 1 /\ i + 1 \in 1 .. w /\ 1 + i = i + 1
    BY <1>1, <1>2, <1>3, <1>4, <1>5
  <2>2. Word(s)[i + 1] = s[i + 1]
    BY <1>3, <2>1
  <2>3. Word(t)[i] = t[i] /\ t[i] = s[1 + i]
    BY <1>2, <1>4, <2>1
  <2>4. QED
    BY <2>1, <2>2, <2>3
<1>8. Rest(s) = Rest(t)
  <2>1. Len(Rest(s)) = Len(Rest(t))
    BY <1>1, <1>2, <1>3, <1>4, <1>5
  <2>2. ASSUME NEW i \in 1 .. Len(Rest(s)) PROVE Rest(s)[i] = Rest(t)[i]
    <3>1. i \in 1 .. Len(s) - w /\ i \in 1 .. Len(t) - u /\ u + i \in 1 .. Len(s) - 1 /\ 1 + (u + i) = w + i
      BY <1>1, <1>2, <1>3, <1>4, <1>5
    <3>2. Rest(s)[i] = s[w + i] /\ Rest(t)[i] = t[u + i] /\ t[u + i] = s[1 + (u + i)]
      BY <1>2, <1>3, <1>4, <3>1
    <3>3. QED
      BY <3>1, <3>2
  <2>3. QED
    BY <1>3, <1>4, <2>1, <2>2, SeqEqual
<1>9. Len(Word(s)) = Len(Word(t)) + 1 /\ Len(t) < Len(s)
  BY <1>1, <1>2, <1>3, <1>4, <1>5
<1>10. QED
  BY <1>1, <1>2, <1>6, <1>7, <1>8, <1>9 DEF t

LEMMA NumberStep ==
    ASSUME NEW s \in Seq(Byte), ~StartsWord(s)
    PROVE  Word(s) = <<>> /\ Rest(s) = s
<1>1. PICK w \in 0 .. Len(s) :
        /\ Prefix(w, s, WordBytes)
        /\ Word(s) \in Seq(Byte) /\ Len(Word(s)) = w
        /\ Rest(s) \in Seq(Byte) /\ Len(Rest(s)) = Len(s) - w
        /\ \A i \in 1 .. Len(s) - w : Rest(s)[i] = s[w + i]
  BY WordIs
<1>2. w = 0
  <2>. SUFFICES ASSUME w # 0 PROVE FALSE
    OBVIOUS
  <2>1. 1 \in 1 .. w /\ Len(s) > 0
    BY <1>1
  <2>2. s[1] \in WordBytes /\ s # <<>>
    BY <1>1, <2>1 DEF Prefix
  <2>3. QED
    BY <2>2 DEF StartsWord, WordBytes
<1>3. Word(s) = <<>>
  BY <1>1, <1>2
<1>4. Len(Rest(s)) = Len(s) /\ \A i \in 1 .. Len(Rest(s)) : Rest(s)[i] = s[i]
  BY <1>1, <1>2
<1>5. QED
  BY <1>1, <1>3, <1>4, SeqEqual

-----------------------------------------------------------------------------
\* dpkg's order of words, of a word and a number, and of versions.

\* The ranks of the bytes of a word, and the end's from there on.
Ranks(v) == [i \in Pos |-> IF i <= Len(v) THEN Rank(v[i]) ELSE EndRank]

LEMMA RankOfByte ==
    ASSUME NEW c \in Byte
    PROVE  /\ Rank(c) \in Int /\ Rank(c) # EndRank
           /\ \A e \in Byte : Rank(c) = Rank(e) => c = e
<1>1. ASSUME NEW e \in Byte
      PROVE  /\ e \in 0 .. 255
             /\ e = 126 => Rank(e) = 1
             /\ IsLetter(e) => Rank(e) = 1000 + e /\ e \in 65 .. 122
             /\ e # 126 /\ ~IsLetter(e) => Rank(e) = 2000 + e
  BY DEF Rank, Byte, IsLetter, Tilde
<1>2. Rank(c) \in Int /\ Rank(c) # EndRank
  BY <1>1 DEF EndRank
<1>3. ASSUME NEW e \in Byte, Rank(c) = Rank(e) PROVE c = e
  <2>1. /\ c \in 0 .. 255
        /\ c = 126 => Rank(c) = 1
        /\ IsLetter(c) => Rank(c) = 1000 + c /\ c \in 65 .. 122
        /\ c # 126 /\ ~IsLetter(c) => Rank(c) = 2000 + c
    BY <1>1
  <2>2. /\ e \in 0 .. 255
        /\ e = 126 => Rank(e) = 1
        /\ IsLetter(e) => Rank(e) = 1000 + e /\ e \in 65 .. 122
        /\ e # 126 /\ ~IsLetter(e) => Rank(e) = 2000 + e
    BY <1>1
  <2>3. CASE c = 126
    BY <1>3, <2>1, <2>2, <2>3
  <2>4. CASE IsLetter(c)
    BY <1>3, <2>1, <2>2, <2>4
  <2>5. CASE c # 126 /\ ~IsLetter(c)
    BY <1>3, <2>1, <2>2, <2>5
  <2>6. QED
    BY <2>3, <2>4, <2>5
<1>4. QED
  BY <1>2, <1>3

LEMMA RanksType ==
    ASSUME NEW v \in Seq(Byte)
    PROVE  /\ Ranks(v) \in [Pos -> Int]
           /\ \A i \in Pos : Ranks(v)[i] = IF i <= Len(v) THEN Rank(v[i]) ELSE EndRank
<1>1. ASSUME NEW i \in Pos PROVE (IF i <= Len(v) THEN Rank(v[i]) ELSE EndRank) \in Int
  <2>1. CASE i <= Len(v)
    <3>1. i \in 1 .. Len(v)
      BY <2>1 DEF Pos
    <3>2. v[i] \in Byte
      BY <3>1
    <3>3. QED
      BY <2>1, <3>2, RankOfByte
  <2>2. CASE ~(i <= Len(v))
    BY <2>2 DEF EndRank
  <2>3. QED
    BY <2>1, <2>2
<1>2. QED
  BY <1>1 DEF Ranks

LEMMA RanksAreInjective ==
    ASSUME NEW v \in Seq(Byte), NEW w \in Seq(Byte), Ranks(v) = Ranks(w)
    PROVE  v = w
<1>1. /\ Len(v) \in Nat /\ Len(w) \in Nat
      /\ \A i \in 1 .. Len(v) : v[i] \in Byte
      /\ \A i \in 1 .. Len(w) : w[i] \in Byte
  BY ByteSeq
<1>2. \A i \in Pos : (IF i <= Len(v) THEN Rank(v[i]) ELSE EndRank)
                       = (IF i <= Len(w) THEN Rank(w[i]) ELSE EndRank)
  BY RanksType
<1>3. ~(Len(v) < Len(w))
  <2>. SUFFICES ASSUME Len(v) < Len(w) PROVE FALSE
    OBVIOUS
  <2>1. Len(v) + 1 \in Pos /\ Len(v) + 1 \in 1 .. Len(w) /\ ~(Len(v) + 1 <= Len(v))
    BY <1>1 DEF Pos
  <2>2. Rank(w[Len(v) + 1]) = EndRank /\ w[Len(v) + 1] \in Byte
    BY <1>1, <1>2, <2>1
  <2>3. QED
    BY <2>2, RankOfByte
<1>4. ~(Len(w) < Len(v))
  <2>. SUFFICES ASSUME Len(w) < Len(v) PROVE FALSE
    OBVIOUS
  <2>1. Len(w) + 1 \in Pos /\ Len(w) + 1 \in 1 .. Len(v) /\ ~(Len(w) + 1 <= Len(w))
    BY <1>1 DEF Pos
  <2>2. Rank(v[Len(w) + 1]) = EndRank /\ v[Len(w) + 1] \in Byte
    BY <1>1, <1>2, <2>1
  <2>3. QED
    BY <2>2, RankOfByte
<1>5. Len(v) = Len(w)
  BY <1>1, <1>3, <1>4
<1>6. ASSUME NEW i \in 1 .. Len(v) PROVE v[i] = w[i]
  <2>1. i \in Pos /\ i <= Len(v) /\ i <= Len(w) /\ v[i] \in Byte /\ w[i] \in Byte
    BY <1>1, <1>5 DEF Pos
  <2>2. Rank(v[i]) = Rank(w[i])
    BY <1>2, <2>1
  <2>3. QED
    BY <2>1, <2>2, RankOfByte
<1>7. QED
  BY <1>5, <1>6, SeqEqual

LEMMA WordsInOrder ==
    ASSUME NEW v \in Seq(Byte), NEW w \in Seq(Byte)
    PROVE  WordBefore(v, w) <=> LexLess(Ranks(v), Ranks(w), Smaller)
<1>. DEFINE rank(x, k) == IF k <= Len(x) THEN Rank(x[k]) ELSE EndRank
            f == Ranks(v)
            g == Ranks(w)
<1>0. Len(v) \in Nat /\ Len(w) \in Nat
  OBVIOUS
<1>1. /\ \A k \in Pos : f[k] = rank(v, k) /\ g[k] = rank(w, k) /\ f[k] \in Int /\ g[k] \in Int
  BY RanksType
<1>2. WordBefore(v, w) <=>
        \E k \in 1 .. Len(v) + Len(w) :
          (\A j \in 1 .. k - 1 : rank(v, j) = rank(w, j)) /\ rank(v, k) < rank(w, k)
  BY DEF WordBefore
<1>3. \A k \in Pos : k \notin 1 .. Len(v) + Len(w) => rank(v, k) = rank(w, k)
  BY <1>0 DEF Pos
<1>. HIDE DEF f, g, rank
<1>4. ASSUME WordBefore(v, w) PROVE LexLess(f, g, Smaller)
  <2>1. PICK k \in 1 .. Len(v) + Len(w) :
          (\A j \in 1 .. k - 1 : rank(v, j) = rank(w, j)) /\ rank(v, k) < rank(w, k)
    BY <1>2, <1>4
  <2>2. k \in Pos /\ \A j \in 1 .. k - 1 : j \in Pos
    BY DEF Pos
  <2>3. <<f[k], g[k]>> \in Smaller /\ \A j \in 1 .. k - 1 : f[j] = g[j]
    BY <1>1, <2>1, <2>2 DEF Smaller
  <2>4. QED
    BY <2>2, <2>3 DEF LexLess
<1>5. ASSUME LexLess(f, g, Smaller) PROVE WordBefore(v, w)
  <2>1. PICK k \in Pos : (\A j \in 1 .. k - 1 : f[j] = g[j]) /\ <<f[k], g[k]>> \in Smaller
    BY <1>5 DEF LexLess
  <2>2. f[k] < g[k] /\ \A j \in 1 .. k - 1 : j \in Pos
    BY <2>1 DEF Smaller, Pos
  <2>3. rank(v, k) < rank(w, k) /\ \A j \in 1 .. k - 1 : rank(v, j) = rank(w, j)
    BY <1>1, <2>1, <2>2
  <2>4. rank(v, k) # rank(w, k)
    BY <1>1, <2>3
  <2>5. k \in 1 .. Len(v) + Len(w)
    BY <1>3, <2>4
  <2>6. QED
    BY <1>2, <2>3, <2>5
<1>6. QED
  BY <1>4, <1>5 DEF f, g

ItemLess ==
    {p \in Item \X Item :
       \/ WordBefore(p[1].word, p[2].word)
       \/ p[1].word = p[2].word /\ p[1].number < p[2].number}

LEMMA ItemLessIsStrictOrder == StrictOrder(ItemLess, Item)
<1>. DEFINE L == Lex(Smaller, Int)
<1>1. StrictOrder(L, [Pos -> Int])
  BY SmallerIsStrictOrder, LexIsStrictOrder
<1>2. ASSUME NEW x \in Item
      PROVE  x.word \in Seq(Byte) /\ x.number \in Nat /\ Ranks(x.word) \in [Pos -> Int]
             /\ x = [word |-> x.word, number |-> x.number]
  BY RanksType DEF Item
<1>3. ASSUME NEW x \in Item, NEW y \in Item
      PROVE  <<x, y>> \in ItemLess <=>
               \/ <<Ranks(x.word), Ranks(y.word)>> \in L
               \/ x.word = y.word /\ x.number < y.number
  <2>1. WordBefore(x.word, y.word) <=> LexLess(Ranks(x.word), Ranks(y.word), Smaller)
    BY <1>2, WordsInOrder
  <2>2. LexLess(Ranks(x.word), Ranks(y.word), Smaller) <=> <<Ranks(x.word), Ranks(y.word)>> \in L
    BY <1>2 DEF Lex
  <2>. HIDE DEF L
  <2>3. QED
    BY <2>1, <2>2 DEF ItemLess
<1>. HIDE DEF L
<1>4. ASSUME NEW x \in Item, NEW y \in Item, Ranks(x.word) = Ranks(y.word)
      PROVE  x.word = y.word
  BY <1>2, <1>4, RanksAreInjective
<1>5. \A f \in [Pos -> Int] : <<f, f>> \notin L
  BY <1>1 DEF StrictOrder
<1>6. ASSUME NEW x \in Item, NEW y \in Item, <<x, y>> \in ItemLess
      PROVE  <<y, x>> \notin ItemLess
  <2>1. CASE <<Ranks(x.word), Ranks(y.word)>> \in L
    <3>1. <<Ranks(y.word), Ranks(x.word)>> \notin L
      BY <1>1, <1>2, <2>1 DEF StrictOrder
    <3>2. x.word # y.word
      BY <1>2, <1>5, <2>1
    <3>3. QED
      BY <1>3, <3>1, <3>2
  <2>2. CASE x.word = y.word /\ x.number < y.number
    <3>1. <<Ranks(y.word), Ranks(x.word)>> \notin L
      BY <1>2, <1>5, <2>2
    <3>2. ~(y.number < x.number)
      BY <1>2, <2>2
    <3>3. QED
      BY <1>3, <3>1, <3>2
  <2>3. QED
    BY <1>3, <1>6, <2>1, <2>2
<1>7. ASSUME NEW x \in Item, NEW y \in Item, x # y
      PROVE  <<x, y>> \in ItemLess \/ <<y, x>> \in ItemLess
  <2>1. CASE x.word = y.word
    <3>1. x.number # y.number
      BY <1>2, <1>7, <2>1
    <3>2. x.number < y.number \/ y.number < x.number
      BY <1>2, <3>1
    <3>3. QED
      BY <1>3, <2>1, <3>2
  <2>2. CASE x.word # y.word
    <3>1. Ranks(x.word) # Ranks(y.word)
      BY <1>4, <2>2
    <3>2. <<Ranks(x.word), Ranks(y.word)>> \in L \/ <<Ranks(y.word), Ranks(x.word)>> \in L
      BY <1>1, <1>2, <3>1 DEF StrictOrder
    <3>3. QED
      BY <1>3, <3>2
  <2>3. QED
    BY <2>1, <2>2
<1>8. ASSUME NEW x \in Item, NEW y \in Item, NEW z \in Item,
             <<x, y>> \in ItemLess, <<y, z>> \in ItemLess
      PROVE  <<x, z>> \in ItemLess
  <2>. DEFINE f == Ranks(x.word)
              g == Ranks(y.word)
              h == Ranks(z.word)
  <2>0. f \in [Pos -> Int] /\ g \in [Pos -> Int] /\ h \in [Pos -> Int]
    BY <1>2
  <2>1. CASE <<f, g>> \in L
    <3>1. <<g, h>> \in L \/ g = h
      BY <1>3, <1>8
    <3>2. <<f, h>> \in L
      BY <1>1, <2>0, <2>1, <3>1 DEF StrictOrder
    <3>3. QED
      BY <1>3, <3>2
  <2>2. CASE x.word = y.word /\ x.number < y.number
    <3>1. CASE <<g, h>> \in L
      BY <1>3, <2>2, <3>1
    <3>2. CASE y.word = z.word /\ y.number < z.number
      <4>1. x.number < z.number
        BY <1>2, <2>2, <3>2
      <4>2. QED
        BY <1>3, <2>2, <3>2, <4>1
    <3>3. QED
      BY <1>3, <1>8, <3>1, <3>2
  <2>3. QED
    BY <1>3, <1>8, <2>1, <2>2
<1>9. QED
  BY <1>6, <1>7, <1>8 DEF StrictOrder

\* Before is the lexicographic order of words and numbers.
LEMMA VersionsInOrder ==
    ASSUME NEW a \in Seq(Item), NEW b \in Seq(Item)
    PROVE  Before(a, b) <=> LexLess(Padded(a, Nothing), Padded(b, Nothing), ItemLess)
<1>. DEFINE at(x, i) == IF i <= Len(x) THEN x[i] ELSE Nothing
            f == Padded(a, Nothing)
            g == Padded(b, Nothing)
            Decides(i) == \/ at(a, i).word = at(b, i).word /\ at(a, i).number < at(b, i).number
                          \/ WordBefore(at(a, i).word, at(b, i).word)
<1>0. Len(a) \in Nat /\ Len(b) \in Nat /\ Nothing \in Item
  <2>1. <<>> \in Seq(Byte)
    OBVIOUS
  <2>2. Nothing \in Item
    BY <2>1, ItemType
  <2>3. QED
    BY <2>2
<1>1. \A i \in Pos : f[i] = at(a, i) /\ g[i] = at(b, i) /\ f[i] \in Item /\ g[i] \in Item
  BY <1>0, PaddedType
<1>2. Before(a, b) <=>
        \E i \in 1 .. Len(a) + Len(b) :
          (\A j \in 1 .. i - 1 : at(a, j) = at(b, j)) /\ Decides(i)
  BY DEF Before, Nothing
<1>3. \A i \in Pos : i \notin 1 .. Len(a) + Len(b) => at(a, i) = at(b, i)
  BY <1>0 DEF Pos
<1>. HIDE DEF f, g, at
<1>4. ASSUME NEW i \in Pos PROVE <<f[i], g[i]>> \in ItemLess <=> Decides(i)
  BY <1>1 DEF ItemLess
<1>. HIDE DEF Decides
<1>5. ASSUME Before(a, b) PROVE LexLess(f, g, ItemLess)
  <2>1. PICK i \in 1 .. Len(a) + Len(b) :
          (\A j \in 1 .. i - 1 : at(a, j) = at(b, j)) /\ Decides(i)
    BY <1>2, <1>5
  <2>2. i \in Pos /\ \A j \in 1 .. i - 1 : j \in Pos
    BY DEF Pos
  <2>3. <<f[i], g[i]>> \in ItemLess /\ \A j \in 1 .. i - 1 : f[j] = g[j]
    BY <1>1, <1>4, <2>1, <2>2
  <2>4. QED
    BY <2>2, <2>3 DEF LexLess
<1>6. ASSUME LexLess(f, g, ItemLess) PROVE Before(a, b)
  <2>1. PICK i \in Pos : (\A j \in 1 .. i - 1 : f[j] = g[j]) /\ <<f[i], g[i]>> \in ItemLess
    BY <1>6 DEF LexLess
  <2>2. Decides(i) /\ \A j \in 1 .. i - 1 : j \in Pos
    BY <1>4, <2>1 DEF Pos
  <2>3. \A j \in 1 .. i - 1 : at(a, j) = at(b, j)
    BY <1>1, <2>1, <2>2
  <2>4. at(a, i) # at(b, i)
    <3>1. f[i] # g[i]
      BY <1>1, <2>1, ItemLessIsStrictOrder DEF StrictOrder
    <3>2. QED
      BY <1>1, <3>1
  <2>5. i \in 1 .. Len(a) + Len(b)
    BY <1>3, <2>4
  <2>6. QED
    BY <1>2, <2>2, <2>3, <2>5
<1>7. QED
  BY <1>5, <1>6 DEF f, g

-----------------------------------------------------------------------------
\* Verrevcmp is that order.

\* A change of the heads that leaves their order as it was.
LEMMA LexOfNewHeads ==
    ASSUME NEW R, NEW f, NEW g, NEW t, NEW u,
           \A i \in Pos : t[i + 1] = f[i + 1] /\ u[i + 1] = g[i + 1],
           <<f[1], g[1]>> \in R => <<t[1], u[1]>> \in R,
           f[1] = g[1] => t[1] = u[1],
           LexLess(f, g, R)
    PROVE  LexLess(t, u, R)
<1>1. PICK i \in Pos : (\A j \in 1 .. i - 1 : f[j] = g[j]) /\ <<f[i], g[i]>> \in R
  BY DEF LexLess
<1>2. CASE i = 1
  BY <1>1, <1>2, LexOfHeads
<1>3. CASE i # 1
  <2>1. i - 1 \in Pos /\ (i - 1) + 1 = i /\ 1 \in 1 .. i - 1
    BY <1>3 DEF Pos
  <2>2. <<t[i], u[i]>> \in R
    BY <1>1, <2>1
  <2>3. ASSUME NEW j \in 1 .. i - 1 PROVE t[j] = u[j]
    <3>1. CASE j = 1
      BY <1>1, <2>1, <3>1
    <3>2. CASE j # 1
      <4>1. j - 1 \in Pos /\ (j - 1) + 1 = j
        BY <3>2 DEF Pos
      <4>2. t[j] = f[j] /\ u[j] = g[j]
        BY <4>1
      <4>3. QED
        BY <1>1, <4>2
    <3>3. QED
      BY <3>1, <3>2
  <2>4. QED
    BY <2>2, <2>3 DEF LexLess
<1>4. QED
  BY <1>2, <1>3

FirstRank(s) == IF StartsWord(s) THEN Rank(s[1]) ELSE EndRank

RankOf(order) ==
    IF order < 0 THEN 1 ELSE IF order = 0 THEN 10 ELSE IF order < 256 THEN 1000 + order ELSE 1744 + order

LEMMA DpkgOrderIs ==
    ASSUME NEW s \in Seq(Byte)
    PROVE  /\ DpkgOrder(s) \in {-1, 0} \cup 65 .. 122 \cup 256 .. 511
           /\ FirstRank(s) = RankOf(DpkgOrder(s))
           /\ StartsWord(s) <=> DpkgOrder(s) # 0
<1>1. CASE s = <<>>
  BY <1>1 DEF DpkgOrder, FirstRank, StartsWord, EndRank, RankOf
<1>2. CASE s # <<>>
  <2>. DEFINE c == s[1]
  <2>1. c \in 0 .. 255
    <3>1. Len(s) > 0
      BY <1>2
    <3>2. QED
      BY <3>1, ByteSeq DEF Byte
  <2>. HIDE DEF c
  <2>2. CASE IsDigit(c)
    <3>1. DpkgOrder(s) = 0 /\ ~StartsWord(s)
      <4>1. ~IsLetter(c) /\ c # Tilde
        BY <2>2 DEF IsDigit, IsLetter, Tilde
      <4>2. QED
        BY <1>2, <2>2, <4>1 DEF DpkgOrder, StartsWord, c
    <3>2. QED
      BY <3>1 DEF FirstRank, EndRank, RankOf
  <2>3. CASE IsLetter(c)
    <3>1. c \in 65 .. 122 /\ ~IsDigit(c) /\ c # Tilde
      BY <2>3 DEF IsLetter, IsDigit, Tilde
    <3>2. DpkgOrder(s) = c /\ FirstRank(s) = 1000 + c /\ StartsWord(s)
      BY <1>2, <2>3, <3>1 DEF DpkgOrder, FirstRank, StartsWord, Rank, c
    <3>3. QED
      BY <3>1, <3>2 DEF RankOf
  <2>4. CASE c = Tilde
    <3>1. ~IsLetter(c) /\ ~IsDigit(c)
      BY <2>4 DEF IsLetter, IsDigit, Tilde
    <3>2. DpkgOrder(s) = -1 /\ FirstRank(s) = 1 /\ StartsWord(s)
      BY <1>2, <2>4, <3>1 DEF DpkgOrder, FirstRank, StartsWord, Rank, c
    <3>3. QED
      BY <3>2 DEF RankOf
  <2>5. CASE ~IsDigit(c) /\ ~IsLetter(c) /\ c # Tilde
    <3>1. DpkgOrder(s) = c + 256 /\ FirstRank(s) = 2000 + c /\ StartsWord(s)
      BY <1>2, <2>5 DEF DpkgOrder, FirstRank, StartsWord, Rank, c
    <3>2. QED
      BY <2>1, <3>1 DEF RankOf
  <2>6. QED
    BY <2>2, <2>3, <2>4, <2>5
<1>3. QED
  BY <1>1, <1>2

LEMMA DpkgOrderRanks ==
    ASSUME NEW s \in Seq(Byte), NEW t \in Seq(Byte)
    PROVE  /\ DpkgOrder(s) \in Int /\ FirstRank(s) \in Int
           /\ DpkgOrder(s) < DpkgOrder(t) => FirstRank(s) < FirstRank(t)
<1>. DEFINE Orders == {-1, 0} \cup 65 .. 122 \cup 256 .. 511
<1>1. \A m \in Orders : m \in Int /\ RankOf(m) \in Int
  BY DEF RankOf
<1>2. \A m, n \in Orders : m < n => RankOf(m) < RankOf(n)
  BY DEF RankOf
<1>. HIDE DEF Orders
<1>3. DpkgOrder(s) \in Orders /\ DpkgOrder(t) \in Orders
  BY DpkgOrderIs DEF Orders
<1>4. FirstRank(s) = RankOf(DpkgOrder(s)) /\ FirstRank(t) = RankOf(DpkgOrder(t))
  BY DpkgOrderIs
<1>5. QED
  BY <1>1, <1>2, <1>3, <1>4

LEMMA FirstRankIs ==
    ASSUME NEW s \in Seq(Byte)
    PROVE  Ranks(Word(s))[1] = FirstRank(s)
<1>0. 1 \in Pos
  BY DEF Pos
<1>1. CASE StartsWord(s)
  <2>1. Word(s) \in Seq(Byte)
    BY WordIs
  <2>2. From(s, 2) \in Seq(Byte) /\ Len(Word(s)) = Len(Word(From(s, 2))) + 1 /\ Word(s)[1] = s[1]
    BY <1>1, WordStep
  <2>3. Word(From(s, 2)) \in Seq(Byte)
    BY <2>2, WordIs
  <2>4. 1 <= Len(Word(s))
    BY <2>2, <2>3
  <2>5. Ranks(Word(s))[1] = Rank(Word(s)[1])
    BY <1>0, <2>1, <2>4, RanksType
  <2>6. QED
    BY <1>1, <2>2, <2>5 DEF FirstRank
<1>2. CASE ~StartsWord(s)
  <2>1. Word(s) = <<>> /\ <<>> \in Seq(Byte) /\ ~(1 <= Len(<<>>))
    BY <1>2, NumberStep
  <2>2. Ranks(<<>>)[1] = EndRank
    BY <1>0, <2>1, RanksType
  <2>3. QED
    BY <1>2, <2>1, <2>2 DEF FirstRank
<1>3. QED
  BY <1>1, <1>2

\* Bytes of different order decide.
LEMMA FirstByteDecides ==
    ASSUME NEW a \in Seq(Byte), NEW b \in Seq(Byte), DpkgOrder(a) < DpkgOrder(b)
    PROVE  LexLess(Items(a), Items(b), ItemLess)
<1>1. FirstRank(a) < FirstRank(b) /\ FirstRank(a) \in Int /\ FirstRank(b) \in Int
  BY DpkgOrderRanks
<1>2. <<Ranks(Word(a))[1], Ranks(Word(b))[1]>> \in Smaller
  BY <1>1, FirstRankIs DEF Smaller
<1>3. Word(a) \in Seq(Byte) /\ Word(b) \in Seq(Byte)
  BY WordIs
<1>4. WordBefore(Word(a), Word(b))
  BY <1>2, <1>3, LexOfHeads, WordsInOrder
<1>5. ItemOf(a) \in Item /\ ItemOf(b) \in Item /\ ItemOf(a).word = Word(a) /\ ItemOf(b).word = Word(b)
  BY ItemType DEF ItemOf
<1>6. <<ItemOf(a), ItemOf(b)>> \in ItemLess
  BY <1>4, <1>5 DEF ItemLess
<1>7. Items(a)[1] = ItemOf(a) /\ Items(b)[1] = ItemOf(b)
  BY ItemsAre
<1>8. QED
  BY <1>6, <1>7, LexOfHeads

LEMMA SecondByte ==
    ASSUME NEW s \in Seq(Byte)
    PROVE  /\ From(s, 2) \in Seq(Byte)
           /\ s # <<>> => Len(From(s, 2)) < Len(s)
           /\ s = <<>> => Len(From(s, 2)) = 0
<1>1. CASE s = <<>>
  <2>1. Len(s) = 0 /\ From(s, 2) = SubSeq(s, 2, 0)
    BY <1>1 DEF From
  <2>2. /\ SubSeq(s, 2, 0) \in Seq(Byte)
        /\ Len(SubSeq(s, 2, 0)) = IF 2 <= 0 THEN 0 - 2 + 1 ELSE 0
    <3>1. \A i \in 2 .. 0 : s[i] \in Byte
      OBVIOUS
    <3>2. QED
      BY <3>1, SubSeqProperties
  <2>3. QED
    BY <1>1, <2>1, <2>2
<1>2. CASE s # <<>>
  <2>1. 1 \in 0 .. Len(s) /\ From(s, 2) = From(s, 1 + 1) /\ Len(s) \in Nat
    BY <1>2
  <2>2. From(s, 1 + 1) \in Seq(Byte) /\ Len(From(s, 1 + 1)) = Len(s) - 1
    BY <2>1, CutIs
  <2>3. QED
    BY <1>2, <2>1, <2>2
<1>3. QED
  BY <1>1, <1>2

LEMMA AfterNumber ==
    ASSUME NEW s \in Seq(Byte)
    PROVE  /\ AfterDigits(SkipZeros(s)) = AfterDigits(s)
           /\ AfterDigits(s) \in Seq(Byte)
           /\ Len(AfterDigits(s)) <= Len(s)
           /\ ~StartsWord(s) /\ s # <<>> => Len(AfterDigits(s)) < Len(s)
<1>1. AfterDigits(SkipZeros(s)) = AfterDigits(s)
  BY DigitsSkipped
<1>2. PICK d \in 0 .. Len(s) :
        Prefix(d, s, DigitBytes) /\ AfterDigits(s) \in Seq(Byte) /\ Len(AfterDigits(s)) = Len(s) - d
  BY DigitsAre
<1>3. ASSUME ~StartsWord(s), s # <<>> PROVE d # 0
  <2>1. Len(s) > 0
    BY <1>3
  <2>2. s[1] \in DigitBytes
    BY <1>3, <2>1, ByteSeq DEF StartsWord, DigitBytes
  <2>3. QED
    BY <1>2, <2>1, <2>2 DEF Prefix
<1>4. Len(s) \in Nat
  OBVIOUS
<1>5. QED
  BY <1>1, <1>2, <1>3, <1>4

LEMMA SignType ==
    ASSUME NEW x \in Int, NEW y \in Int
    PROVE  /\ Sign(x - y) \in Signs
           /\ x < y => Sign(x - y) = -1
           /\ x = y => Sign(x - y) = 0
           /\ x > y => Sign(x - y) = 1
  BY DEF Sign, Signs

LEMMA NumberType ==
    ASSUME NEW s \in Seq(Byte)
    PROVE  Digits(s) \in Seq(Byte) /\ Value(Digits(s)) \in Nat
<1>1. Digits(s) \in Seq(Byte) /\ \A i \in 1 .. Len(Digits(s)) : Digits(s)[i] \in DigitBytes
  BY DigitsAre
<1>2. QED
  BY <1>1, ValueType

LEMMA VerrevcmpIs ==
    ASSUME NEW a \in Seq(Byte), NEW b \in Seq(Byte)
    PROVE  /\ a = <<>> /\ b = <<>> => Verrevcmp[<<a, b>>] = 0
           /\ StartsWord(a) \/ StartsWord(b) =>
                Verrevcmp[<<a, b>>] = Then(Sign(DpkgOrder(a) - DpkgOrder(b)),
                                           Verrevcmp[<<From(a, 2), From(b, 2)>>])
           /\ ~StartsWord(a) /\ ~StartsWord(b) /\ ~(a = <<>> /\ b = <<>>) =>
                Verrevcmp[<<a, b>>] = Then(Sign(Value(Digits(a)) - Value(Digits(b))),
                                           Verrevcmp[<<AfterDigits(a), AfterDigits(b)>>])
<1>. DEFINE S == Seq(Byte) \X Seq(Byte)
            Ends == {<<<<>>, <<>>>>}
            size == [p \in S |-> Len(p[1]) + Len(p[2])]
            base == [p \in S |-> 0]
            Word2(p) == StartsWord(p[1]) \/ StartsWord(p[2])
            rest == [p \in S |->
                      IF Word2(p) THEN <<From(p[1], 2), From(p[2], 2)>>
                      ELSE <<AfterDigits(SkipZeros(p[1])), AfterDigits(SkipZeros(p[2]))>>]
            first == [p \in S |->
                       IF Word2(p) THEN Sign(DpkgOrder(p[1]) - DpkgOrder(p[2]))
                       ELSE CompareDigits(Digits(SkipZeros(p[1])), Digits(SkipZeros(p[2])))]
            step == [p \in S |-> [x \in Signs |-> Then(first[p], x)]]
            Body(f) == [p \in S |->
                         CASE p[1] = <<>> /\ p[2] = <<>> -> 0
                           [] Word2(p) ->
                                Then(Sign(DpkgOrder(p[1]) - DpkgOrder(p[2])),
                                     f[<<From(p[1], 2), From(p[2], 2)>>])
                           [] OTHER ->
                                Then(CompareDigits(Digits(SkipZeros(p[1])), Digits(SkipZeros(p[2]))),
                                     f[<<AfterDigits(SkipZeros(p[1])), AfterDigits(SkipZeros(p[2]))>>])]
<1>1. ASSUME NEW p \in S
      PROVE  p[1] \in Seq(Byte) /\ p[2] \in Seq(Byte) /\ p = <<p[1], p[2]>>
  OBVIOUS
<1>2. size \in [S -> Nat] /\ \A p \in S : p \in Ends => base[p] \in Signs
  <2>1. \A p \in S : Len(p[1]) + Len(p[2]) \in Nat
    OBVIOUS
  <2>2. QED
    BY <2>1 DEF Signs
<1>3. ASSUME NEW p \in S, p \notin Ends
      PROVE  rest[p] \in S /\ size[rest[p]] < size[p]
  <2>. DEFINE x == p[1]
              y == p[2]
  <2>1. x \in Seq(Byte) /\ y \in Seq(Byte) /\ Len(x) \in Nat /\ Len(y) \in Nat
        /\ (x # <<>> \/ y # <<>>)
        /\ (x = <<>> => Len(x) = 0) /\ (y = <<>> => Len(y) = 0)
    BY <1>1, <1>3
  <2>. HIDE DEF x, y
  <2>2. CASE StartsWord(x) \/ StartsWord(y)
    <3>1. /\ From(x, 2) \in Seq(Byte) /\ From(y, 2) \in Seq(Byte)
          /\ x # <<>> => Len(From(x, 2)) < Len(x)
          /\ x = <<>> => Len(From(x, 2)) = 0
          /\ y # <<>> => Len(From(y, 2)) < Len(y)
          /\ y = <<>> => Len(From(y, 2)) = 0
      BY <2>1, SecondByte
    <3>2. Len(From(x, 2)) \in Nat /\ Len(From(y, 2)) \in Nat
      BY <3>1
    <3>3. Len(From(x, 2)) + Len(From(y, 2)) < Len(x) + Len(y)
      BY <2>1, <3>1, <3>2
    <3>4. rest[p] = <<From(x, 2), From(y, 2)>>
      BY <2>2 DEF x, y
    <3>5. size[<<From(x, 2), From(y, 2)>>] = Len(From(x, 2)) + Len(From(y, 2))
      BY <3>1
    <3>6. size[p] = Len(x) + Len(y)
      BY DEF x, y
    <3>. HIDE DEF rest, size
    <3>7. QED
      BY <3>1, <3>3, <3>4, <3>5, <3>6
  <2>3. CASE ~(StartsWord(x) \/ StartsWord(y))
    <3>. DEFINE u == AfterDigits(SkipZeros(x))
                v == AfterDigits(SkipZeros(y))
    <3>1. /\ u \in Seq(Byte) /\ v \in Seq(Byte)
          /\ Len(u) <= Len(x) /\ Len(v) <= Len(y)
          /\ x # <<>> => Len(u) < Len(x)
          /\ y # <<>> => Len(v) < Len(y)
      BY <2>1, <2>3, AfterNumber
    <3>2. rest[p] = <<u, v>>
      BY <2>3 DEF x, y
    <3>. HIDE DEF u, v
    <3>3. Len(u) \in Nat /\ Len(v) \in Nat
      BY <3>1
    <3>4. Len(u) + Len(v) < Len(x) + Len(y)
      BY <2>1, <3>1, <3>3
    <3>5. size[<<u, v>>] = Len(u) + Len(v)
      BY <3>1
    <3>6. size[p] = Len(x) + Len(y)
      BY DEF x, y
    <3>. HIDE DEF rest, size
    <3>7. QED
      BY <3>1, <3>2, <3>4, <3>5, <3>6
  <2>4. QED
    BY <2>2, <2>3
<1>4. ASSUME NEW x \in Seq(Byte), NEW y \in Seq(Byte)
      PROVE  /\ Sign(DpkgOrder(x) - DpkgOrder(y)) \in Signs
             /\ CompareDigits(Digits(SkipZeros(x)), Digits(SkipZeros(y))) =
                  Sign(Value(Digits(x)) - Value(Digits(y)))
             /\ Sign(Value(Digits(x)) - Value(Digits(y))) \in Signs
  <2>1. DpkgOrder(x) \in Int /\ DpkgOrder(y) \in Int
    BY DpkgOrderRanks
  <2>2. Value(Digits(x)) \in Int /\ Value(Digits(y)) \in Int
    BY NumberType
  <2>3. QED
    BY <2>1, <2>2, SignType, NumbersCompare
<1>5. \A p \in S : p \notin Ends => step[p] \in [Signs -> Signs]
  <2>1. ASSUME NEW p \in S PROVE first[p] \in Signs
    BY <1>1, <1>4
  <2>. HIDE DEF first
  <2>2. QED
    BY <2>1 DEF Then
<1>6. PICK f \in [S -> Signs] : Recurs(f, S, Ends, base, rest, step)
  <2>. HIDE DEF S, Ends, size, base, rest, step
  <2>1. Signs # {}
    BY DEF Signs
  <2>2. QED
    BY <1>2, <1>3, <1>5, <2>1, RecursionExists
<1>7. f = Body(f)
  <2>1. ASSUME NEW p \in S
        PROVE  (IF p \in Ends THEN base[p] ELSE step[p][f[rest[p]]]) = Body(f)[p]
    <3>1. p \in Ends <=> p[1] = <<>> /\ p[2] = <<>>
      BY <1>1
    <3>2. p \notin Ends => f[rest[p]] \in Signs
      <4>. HIDE DEF S, rest, Ends
      <4>1. p \notin Ends => rest[p] \in S
        BY <1>3
      <4>2. f \in [S -> Signs]
        BY <1>6
      <4>3. QED
        BY <4>1, <4>2
    <3>3. CASE p \in Ends
      <4>1. base[p] = 0
        OBVIOUS
      <4>2. p[1] = <<>> /\ p[2] = <<>> /\ ~Word2(p)
        BY <3>1, <3>3 DEF StartsWord
      <4>3. Body(f)[p] = 0
        <5>. HIDE DEF Word2
        <5>1. QED
          BY <4>2
      <4>. HIDE DEF base, Body, step, Ends
      <4>4. QED
        BY <3>3, <4>1, <4>3
    <3>4. CASE p \notin Ends
      <4>1. step[p][f[rest[p]]] = Then(first[p], f[rest[p]])
        <5>. HIDE DEF first, rest
        <5>1. QED
          BY <3>2, <3>4
      <4>2. Body(f)[p] = Then(first[p], f[rest[p]])
        <5>1. CASE Word2(p)
          BY <3>1, <3>4, <5>1
        <5>2. CASE ~Word2(p)
          BY <3>1, <3>4, <5>2
        <5>3. QED
          BY <5>1, <5>2
      <4>. HIDE DEF step, Body, first, rest
      <4>3. QED
        BY <3>4, <4>1, <4>2
    <3>5. QED
      BY <3>3, <3>4
  <2>. HIDE DEF base, rest, step, Ends
  <2>2. f = [p \in S |-> IF p \in Ends THEN base[p] ELSE step[p][f[rest[p]]]]
    <3>. HIDE DEF S
    <3>1. QED
      BY <1>6 DEF Recurs
  <2>3. DOMAIN f = S /\ DOMAIN Body(f) = S /\ Body(f) = [p \in S |-> Body(f)[p]]
    BY <2>2
  <2>4. \A p \in S : f[p] = Body(f)[p]
    <3>. HIDE DEF S, Body
    <3>1. QED
      BY <2>1, <2>2
  <2>5. f = [p \in S |-> f[p]]
    BY <2>2
  <2>6. QED
    <3>. HIDE DEF S, Body
    <3>1. QED
      BY <2>3, <2>4, <2>5
<1>8. Verrevcmp = CHOOSE g : g = Body(g)
  BY DEF Verrevcmp
<1>9. Verrevcmp = Body(Verrevcmp)
  <2>. HIDE DEF Body
  <2>1. QED
    BY <1>7, <1>8
<1>. DEFINE p == <<a, b>>
<1>10. Verrevcmp[p] = Body(Verrevcmp)[p]
  <2>. HIDE DEF Body
  <2>1. QED
    BY <1>9
<1>11. p \in S /\ p[1] = a /\ p[2] = b
  OBVIOUS
<1>12. a = <<>> => ~StartsWord(a)
  BY DEF StartsWord
<1>13. b = <<>> => ~StartsWord(b)
  BY DEF StartsWord
<1>14. CompareDigits(Digits(SkipZeros(a)), Digits(SkipZeros(b))) =
         Sign(Value(Digits(a)) - Value(Digits(b)))
  BY <1>4
<1>15. AfterDigits(SkipZeros(a)) = AfterDigits(a) /\ AfterDigits(SkipZeros(b)) = AfterDigits(b)
  BY AfterNumber
<1>16. Body(Verrevcmp)[p] =
         CASE a = <<>> /\ b = <<>> -> 0
           [] StartsWord(a) \/ StartsWord(b) ->
                Then(Sign(DpkgOrder(a) - DpkgOrder(b)), Verrevcmp[<<From(a, 2), From(b, 2)>>])
           [] OTHER ->
                Then(CompareDigits(Digits(SkipZeros(a)), Digits(SkipZeros(b))),
                     Verrevcmp[<<AfterDigits(SkipZeros(a)), AfterDigits(SkipZeros(b))>>])
  BY <1>11
<1>. HIDE DEF p, Body
<1>17. QED
  BY <1>10, <1>12, <1>13, <1>14, <1>15, <1>16 DEF p

LEMMA RanksStep ==
    ASSUME NEW s \in Seq(Byte), StartsWord(s)
    PROVE  \A i \in Pos : Ranks(Word(From(s, 2)))[i] = Ranks(Word(s))[i + 1]
<1>. DEFINE w == Word(s)
            u == Word(From(s, 2))
<1>1. /\ From(s, 2) \in Seq(Byte) /\ Len(w) = Len(u) + 1
      /\ \A i \in 1 .. Len(u) : w[i + 1] = u[i]
  BY WordStep
<1>2. w \in Seq(Byte) /\ u \in Seq(Byte)
  BY <1>1, WordIs
<1>. HIDE DEF w, u
<1>3. ASSUME NEW i \in Pos PROVE Ranks(u)[i] = Ranks(w)[i + 1]
  <2>1. i + 1 \in Pos /\ i \in Nat /\ Len(u) \in Nat /\ (i <= Len(u) <=> i + 1 <= Len(w))
    BY <1>1, <1>2 DEF Pos
  <2>2. i <= Len(u) => w[i + 1] = u[i]
    BY <1>1, <2>1 DEF Pos
  <2>3. /\ Ranks(u)[i] = IF i <= Len(u) THEN Rank(u[i]) ELSE EndRank
        /\ Ranks(w)[i + 1] = IF i + 1 <= Len(w) THEN Rank(w[i + 1]) ELSE EndRank
    BY <1>2, <2>1, RanksType
  <2>4. QED
    BY <2>1, <2>2, <2>3
<1>4. QED
  BY <1>3 DEF w, u

\* Versions that begin with the same byte outside digits compare as what
\* comes after it.
LEMMA SameByte ==
    ASSUME NEW x \in Seq(Byte), NEW y \in Seq(Byte), StartsWord(x), StartsWord(y), x[1] = y[1]
    PROVE  LexLess(Items(x), Items(y), ItemLess) <=>
             LexLess(Items(From(x, 2)), Items(From(y, 2)), ItemLess)
<1>. DEFINE u == From(x, 2)
            v == From(y, 2)
<1>1. /\ u \in Seq(Byte) /\ v \in Seq(Byte)
      /\ Word(x)[1] = x[1] /\ Word(y)[1] = y[1]
      /\ Rest(x) = Rest(u) /\ Rest(y) = Rest(v)
  BY WordStep
<1>2. \A i \in Pos : /\ Ranks(Word(u))[i] = Ranks(Word(x))[i + 1]
                     /\ Ranks(Word(v))[i] = Ranks(Word(y))[i + 1]
  BY RanksStep
<1>3. Ranks(Word(x))[1] = Ranks(Word(y))[1]
  BY FirstRankIs DEF FirstRank
<1>. HIDE DEF u, v
<1>4. /\ Word(x) \in Seq(Byte) /\ Word(y) \in Seq(Byte)
      /\ Word(u) \in Seq(Byte) /\ Word(v) \in Seq(Byte)
  BY <1>1, WordIs
<1>5. /\ Ranks(Word(x)) \in [Pos -> Int] /\ Ranks(Word(y)) \in [Pos -> Int]
      /\ Ranks(Word(u)) \in [Pos -> Int] /\ Ranks(Word(v)) \in [Pos -> Int]
  BY <1>4, RanksType
<1>6. WordBefore(Word(x), Word(y)) <=> WordBefore(Word(u), Word(v))
  <2>. DEFINE f == Ranks(Word(x))
              g == Ranks(Word(y))
              ft == Ranks(Word(u))
              gt == Ranks(Word(v))
  <2>1. LexLess(f, g, Smaller) <=> LexLess(ft, gt, Smaller)
    <3>1. /\ f \in [Pos -> Int] /\ g \in [Pos -> Int] /\ ft \in [Pos -> Int] /\ gt \in [Pos -> Int]
          /\ f[1] = g[1] /\ TailOf(ft, f) /\ TailOf(gt, g)
      BY <1>2, <1>3, <1>5 DEF TailOf
    <3>. HIDE DEF f, g, ft, gt
    <3>2. QED
      BY <3>1, SmallerIsStrictOrder, LexOfTails
  <2>2. QED
    BY <1>4, <2>1, WordsInOrder
<1>7. Word(x) = Word(y) <=> Word(u) = Word(v)
  <2>1. ASSUME Word(x) = Word(y) PROVE Word(u) = Word(v)
    <3>1. \A i \in Pos : Ranks(Word(u))[i] = Ranks(Word(v))[i]
      BY <1>2, <2>1
    <3>2. Ranks(Word(u)) = Ranks(Word(v))
      BY <1>5, <3>1
    <3>3. QED
      BY <1>4, <3>2, RanksAreInjective
  <2>2. ASSUME Word(u) = Word(v) PROVE Word(x) = Word(y)
    <3>1. ASSUME NEW i \in Pos PROVE Ranks(Word(x))[i] = Ranks(Word(y))[i]
      <4>1. CASE i = 1
        BY <1>3, <4>1
      <4>2. CASE i # 1
        <5>1. i - 1 \in Pos /\ (i - 1) + 1 = i
          BY <4>2 DEF Pos
        <5>2. QED
          BY <1>2, <2>2, <5>1
      <4>3. QED
        BY <4>1, <4>2
    <3>2. Ranks(Word(x)) = Ranks(Word(y))
      BY <1>5, <3>1
    <3>3. QED
      BY <1>4, <3>2, RanksAreInjective
  <2>3. QED
    BY <2>1, <2>2
<1>8. ItemOf(x).number = ItemOf(u).number /\ ItemOf(y).number = ItemOf(v).number
  BY <1>1 DEF ItemOf
<1>9. /\ ItemOf(x).word = Word(x) /\ ItemOf(y).word = Word(y)
      /\ ItemOf(u).word = Word(u) /\ ItemOf(v).word = Word(v)
  BY DEF ItemOf
<1>10. ItemOf(x) \in Item /\ ItemOf(y) \in Item /\ ItemOf(u) \in Item /\ ItemOf(v) \in Item
  BY <1>1, ItemType
<1>11. <<ItemOf(x), ItemOf(y)>> \in ItemLess <=> <<ItemOf(u), ItemOf(v)>> \in ItemLess
  BY <1>6, <1>7, <1>8, <1>9, <1>10 DEF ItemLess
<1>12. ItemOf(x) = ItemOf(y) <=> ItemOf(u) = ItemOf(v)
  <2>1. \A p, q \in Item : p = q <=> p.word = q.word /\ p.number = q.number
    BY DEF Item
  <2>2. QED
    BY <1>7, <1>8, <1>9, <1>10, <2>1
<1>13. /\ Items(x) \in [Pos -> Item] /\ Items(y) \in [Pos -> Item]
       /\ Items(u) \in [Pos -> Item] /\ Items(v) \in [Pos -> Item]
       /\ Items(x)[1] = ItemOf(x) /\ Items(y)[1] = ItemOf(y)
       /\ Items(u)[1] = ItemOf(u) /\ Items(v)[1] = ItemOf(v)
  BY <1>1, ItemsAre
<1>14. Left(x) = Left(u) /\ Left(y) = Left(v)
  BY <1>1 DEF Left
<1>15. \A i \in Pos : Items(x)[i + 1] = Items(u)[i + 1] /\ Items(y)[i + 1] = Items(v)[i + 1]
  <2>1. \A i \in Pos : /\ Items(Left(x))[i] = Items(x)[i + 1] /\ Items(Left(y))[i] = Items(y)[i + 1]
                       /\ Items(Left(u))[i] = Items(u)[i + 1] /\ Items(Left(v))[i] = Items(v)[i + 1]
    BY <1>1, ItemsAre
  <2>2. QED
    BY <1>14, <2>1
<1>16. /\ <<Items(x)[1], Items(y)[1]>> \in ItemLess <=> <<Items(u)[1], Items(v)[1]>> \in ItemLess
       /\ Items(x)[1] = Items(y)[1] <=> Items(u)[1] = Items(v)[1]
  BY <1>11, <1>12, <1>13
<1>. DEFINE f == Items(x)
            g == Items(y)
            h == Items(u)
            k == Items(v)
<1>17. /\ f \in [Pos -> Item] /\ g \in [Pos -> Item] /\ h \in [Pos -> Item] /\ k \in [Pos -> Item]
       /\ \A i \in Pos : h[i + 1] = f[i + 1] /\ k[i + 1] = g[i + 1]
       /\ \A i \in Pos : f[i + 1] = h[i + 1] /\ g[i + 1] = k[i + 1]
       /\ <<f[1], g[1]>> \in ItemLess => <<h[1], k[1]>> \in ItemLess
       /\ <<h[1], k[1]>> \in ItemLess => <<f[1], g[1]>> \in ItemLess
       /\ f[1] = g[1] => h[1] = k[1]
       /\ h[1] = k[1] => f[1] = g[1]
  BY <1>13, <1>15, <1>16
<1>. HIDE DEF f, g, h, k
<1>18. ASSUME LexLess(f, g, ItemLess) PROVE LexLess(h, k, ItemLess)
  BY <1>17, <1>18, LexOfNewHeads
<1>19. ASSUME LexLess(h, k, ItemLess) PROVE LexLess(f, g, ItemLess)
  BY <1>17, <1>19, LexOfNewHeads
<1>20. QED
  BY <1>18, <1>19 DEF f, g, h, k, u, v

LEMMA NumberFirst ==
    ASSUME NEW s \in Seq(Byte), ~StartsWord(s)
    PROVE  ItemOf(s).word = <<>> /\ ItemOf(s).number = Value(Digits(s)) /\ Left(s) = AfterDigits(s)
  BY NumberStep DEF ItemOf, Left

\* Different numbers decide, and after the same number the rest does.
LEMMA FirstNumberDecides ==
    ASSUME NEW x \in Seq(Byte), NEW y \in Seq(Byte), ~StartsWord(x), ~StartsWord(y)
    PROVE  /\ Value(Digits(x)) < Value(Digits(y)) => LexLess(Items(x), Items(y), ItemLess)
           /\ Value(Digits(x)) = Value(Digits(y)) =>
                (LexLess(Items(x), Items(y), ItemLess) <=>
                   LexLess(Items(AfterDigits(x)), Items(AfterDigits(y)), ItemLess))
<1>. DEFINE u == AfterDigits(x)
            v == AfterDigits(y)
<1>1. /\ ItemOf(x).word = <<>> /\ ItemOf(x).number = Value(Digits(x)) /\ Left(x) = u
      /\ ItemOf(y).word = <<>> /\ ItemOf(y).number = Value(Digits(y)) /\ Left(y) = v
  BY NumberFirst
<1>2. u \in Seq(Byte) /\ v \in Seq(Byte)
  BY AfterNumber
<1>3. ItemOf(x) \in Item /\ ItemOf(y) \in Item
  BY ItemType
<1>. HIDE DEF u, v
<1>4. /\ Items(x) \in [Pos -> Item] /\ Items(y) \in [Pos -> Item]
      /\ Items(u) \in [Pos -> Item] /\ Items(v) \in [Pos -> Item]
      /\ Items(x)[1] = ItemOf(x) /\ Items(y)[1] = ItemOf(y)
      /\ \A i \in Pos : Items(u)[i] = Items(x)[i + 1] /\ Items(v)[i] = Items(y)[i + 1]
  <2>1. /\ Items(x) \in [Pos -> Item] /\ Items(x)[1] = ItemOf(x)
        /\ \A i \in Pos : Items(u)[i] = Items(x)[i + 1]
    BY <1>1, ItemsAre
  <2>2. /\ Items(y) \in [Pos -> Item] /\ Items(y)[1] = ItemOf(y)
        /\ \A i \in Pos : Items(v)[i] = Items(y)[i + 1]
    BY <1>1, ItemsAre
  <2>3. Items(u) \in [Pos -> Item] /\ Items(v) \in [Pos -> Item]
    BY <1>2, ItemsAre
  <2>4. QED
    BY <2>1, <2>2, <2>3
<1>5. ASSUME Value(Digits(x)) < Value(Digits(y))
      PROVE  LexLess(Items(x), Items(y), ItemLess)
  <2>1. <<ItemOf(x), ItemOf(y)>> \in ItemLess
    BY <1>1, <1>3, <1>5 DEF ItemLess
  <2>2. QED
    BY <1>4, <2>1, LexOfHeads
<1>6. ASSUME Value(Digits(x)) = Value(Digits(y))
      PROVE  LexLess(Items(x), Items(y), ItemLess) <=> LexLess(Items(u), Items(v), ItemLess)
  <2>1. ItemOf(x) = ItemOf(y)
    <3>1. \A p, q \in Item : p.word = q.word /\ p.number = q.number => p = q
      BY DEF Item
    <3>2. QED
      BY <1>1, <1>3, <1>6, <3>1
  <2>. DEFINE f == Items(x)
              g == Items(y)
              ft == Items(u)
              gt == Items(v)
  <2>2. /\ f \in [Pos -> Item] /\ g \in [Pos -> Item] /\ ft \in [Pos -> Item] /\ gt \in [Pos -> Item]
        /\ f[1] = g[1] /\ TailOf(ft, f) /\ TailOf(gt, g)
    BY <1>4, <2>1 DEF TailOf
  <2>. HIDE DEF f, g, ft, gt
  <2>3. LexLess(f, g, ItemLess) <=> LexLess(ft, gt, ItemLess)
    BY <2>2, ItemLessIsStrictOrder, LexOfTails
  <2>4. QED
    BY <2>3 DEF f, g, ft, gt
<1>7. QED
  BY <1>5, <1>6 DEF u, v

LEMMA VerrevcmpIsOrder ==
    ASSUME NEW a \in Seq(Byte), NEW b \in Seq(Byte)
    PROVE  Verrevcmp[<<a, b>>] = SignIn(Lex(ItemLess, Item), Items(a), Items(b))
<1>. DEFINE S == Seq(Byte) \X Seq(Byte)
            size == [p \in S |-> Len(p[1]) + Len(p[2])]
            L == Lex(ItemLess, Item)
            Right(x, y) == Verrevcmp[<<x, y>>] = SignIn(L, Items(x), Items(y))
            Good == {p \in S : Right(p[1], p[2])}
<1>1. StrictOrder(L, [Pos -> Item])
  BY ItemLessIsStrictOrder, LexIsStrictOrder
<1>2. ASSUME NEW x \in Seq(Byte), NEW y \in Seq(Byte)
      PROVE  <<Items(x), Items(y)>> \in L <=> LexLess(Items(x), Items(y), ItemLess)
  BY ItemsAre DEF Lex
<1>3. ASSUME NEW x \in Seq(Byte), NEW y \in Seq(Byte)
      PROVE  /\ LexLess(Items(x), Items(y), ItemLess) => SignIn(L, Items(x), Items(y)) = -1
             /\ LexLess(Items(y), Items(x), ItemLess) => SignIn(L, Items(x), Items(y)) = 1
             /\ Items(x) = Items(y) => SignIn(L, Items(x), Items(y)) = 0
  <2>1. Items(x) \in [Pos -> Item] /\ Items(y) \in [Pos -> Item]
    BY ItemsAre
  <2>2. <<Items(x), Items(y)>> \in L => <<Items(y), Items(x)>> \notin L
    BY <1>1, <2>1 DEF StrictOrder
  <2>3. Items(x) = Items(y) => <<Items(x), Items(y)>> \notin L /\ <<Items(y), Items(x)>> \notin L
    BY <1>1, <2>1 DEF StrictOrder
  <2>. HIDE DEF L
  <2>4. QED
    BY <1>2, <2>2, <2>3 DEF SignIn
\* What leaves the order as it was leaves the sign as it was.
<1>4. ASSUME NEW x \in Seq(Byte), NEW y \in Seq(Byte), NEW u \in Seq(Byte), NEW v \in Seq(Byte),
             LexLess(Items(x), Items(y), ItemLess) <=> LexLess(Items(u), Items(v), ItemLess),
             LexLess(Items(y), Items(x), ItemLess) <=> LexLess(Items(v), Items(u), ItemLess)
      PROVE  SignIn(L, Items(x), Items(y)) = SignIn(L, Items(u), Items(v))
  <2>. HIDE DEF L
  <2>1. QED
    BY <1>2, <1>4 DEF SignIn
<1>. HIDE DEF L
<1>5. ASSUME NEW x \in Seq(Byte), NEW y \in Seq(Byte), x = <<>>, y = <<>>
      PROVE  Right(x, y)
  BY <1>3, <1>5, VerrevcmpIs
<1>6. ASSUME NEW x \in Seq(Byte), NEW y \in Seq(Byte), StartsWord(x) \/ StartsWord(y),
             DpkgOrder(x) # DpkgOrder(y)
      PROVE  Right(x, y)
  <2>1. Verrevcmp[<<x, y>>] = Then(Sign(DpkgOrder(x) - DpkgOrder(y)),
                                   Verrevcmp[<<From(x, 2), From(y, 2)>>])
    BY <1>6, VerrevcmpIs
  <2>2. DpkgOrder(x) \in Int /\ DpkgOrder(y) \in Int
    BY DpkgOrderRanks
  <2>3. CASE DpkgOrder(x) < DpkgOrder(y)
    <3>1. Sign(DpkgOrder(x) - DpkgOrder(y)) = -1
      BY <2>2, <2>3, SignType
    <3>2. SignIn(L, Items(x), Items(y)) = -1
      BY <1>3, <2>3, FirstByteDecides
    <3>3. QED
      BY <2>1, <3>1, <3>2 DEF Then
  <2>4. CASE DpkgOrder(x) > DpkgOrder(y)
    <3>1. Sign(DpkgOrder(x) - DpkgOrder(y)) = 1 /\ DpkgOrder(y) < DpkgOrder(x)
      BY <2>2, <2>4, SignType
    <3>2. SignIn(L, Items(x), Items(y)) = 1
      BY <1>3, <3>1, FirstByteDecides
    <3>3. QED
      BY <2>1, <3>1, <3>2 DEF Then
  <2>5. QED
    BY <1>6, <2>2, <2>3, <2>4
<1>7. ASSUME NEW x \in Seq(Byte), NEW y \in Seq(Byte), StartsWord(x) \/ StartsWord(y),
             DpkgOrder(x) = DpkgOrder(y), Right(From(x, 2), From(y, 2))
      PROVE  Right(x, y)
  <2>. DEFINE u == From(x, 2)
              v == From(y, 2)
  <2>1. StartsWord(x) /\ StartsWord(y) /\ FirstRank(x) = FirstRank(y)
    BY <1>7, DpkgOrderIs
  <2>2. x[1] = y[1]
    <3>1. x[1] \in Byte /\ y[1] \in Byte
      BY <2>1, WordStep DEF WordBytes
    <3>2. Rank(x[1]) = Rank(y[1])
      BY <2>1 DEF FirstRank
    <3>3. QED
      BY <3>1, <3>2, RankOfByte
  <2>3. Verrevcmp[<<x, y>>] = Verrevcmp[<<u, v>>]
    <3>1. Verrevcmp[<<x, y>>] = Then(Sign(DpkgOrder(x) - DpkgOrder(y)), Verrevcmp[<<u, v>>])
      BY <1>7, VerrevcmpIs
    <3>2. DpkgOrder(x) \in Int /\ DpkgOrder(y) \in Int
      BY DpkgOrderRanks
    <3>3. Sign(DpkgOrder(x) - DpkgOrder(y)) = 0
      BY <1>7, <3>2, SignType
    <3>4. QED
      BY <3>1, <3>3 DEF Then
  <2>4. LexLess(Items(x), Items(y), ItemLess) <=> LexLess(Items(u), Items(v), ItemLess)
    BY <2>1, <2>2, SameByte
  <2>5. LexLess(Items(y), Items(x), ItemLess) <=> LexLess(Items(v), Items(u), ItemLess)
    BY <2>1, <2>2, SameByte
  <2>6. u \in Seq(Byte) /\ v \in Seq(Byte)
    BY SecondByte
  <2>7. SignIn(L, Items(x), Items(y)) = SignIn(L, Items(u), Items(v))
    BY <1>4, <2>4, <2>5, <2>6
  <2>8. QED
    BY <1>7, <2>3, <2>7
<1>8. ASSUME NEW x \in Seq(Byte), NEW y \in Seq(Byte), ~StartsWord(x), ~StartsWord(y),
             ~(x = <<>> /\ y = <<>>), Right(AfterDigits(x), AfterDigits(y))
      PROVE  Right(x, y)
  <2>. DEFINE m == Value(Digits(x))
              n == Value(Digits(y))
              u == AfterDigits(x)
              v == AfterDigits(y)
  <2>1. Verrevcmp[<<x, y>>] = Then(Sign(m - n), Verrevcmp[<<u, v>>])
    BY <1>8, VerrevcmpIs
  <2>2. m \in Int /\ n \in Int
    BY NumberType
  <2>3. CASE m < n
    <3>1. Sign(m - n) = -1
      BY <2>2, <2>3, SignType
    <3>2. SignIn(L, Items(x), Items(y)) = -1
      BY <1>3, <1>8, <2>3, FirstNumberDecides
    <3>3. QED
      BY <2>1, <3>1, <3>2 DEF Then
  <2>4. CASE m > n
    <3>1. Sign(m - n) = 1 /\ n < m
      BY <2>2, <2>4, SignType
    <3>2. SignIn(L, Items(x), Items(y)) = 1
      BY <1>3, <1>8, <3>1, FirstNumberDecides
    <3>3. QED
      BY <2>1, <3>1, <3>2 DEF Then
  <2>5. CASE m = n
    <3>1. Sign(m - n) = 0
      BY <2>2, <2>5, SignType
    <3>2. LexLess(Items(x), Items(y), ItemLess) <=> LexLess(Items(u), Items(v), ItemLess)
      BY <1>8, <2>5, FirstNumberDecides
    <3>3. LexLess(Items(y), Items(x), ItemLess) <=> LexLess(Items(v), Items(u), ItemLess)
      BY <1>8, <2>5, FirstNumberDecides
    <3>4. u \in Seq(Byte) /\ v \in Seq(Byte)
      BY AfterNumber
    <3>5. SignIn(L, Items(x), Items(y)) = SignIn(L, Items(u), Items(v))
      BY <1>4, <3>2, <3>3, <3>4
    <3>6. QED
      BY <1>8, <2>1, <3>1, <3>5 DEF Then
  <2>6. QED
    BY <2>2, <2>3, <2>4, <2>5
<1>. HIDE DEF Right
<1>9. size \in [S -> Nat]
  <2>1. \A p \in S : Len(p[1]) + Len(p[2]) \in Nat
    OBVIOUS
  <2>2. QED
    BY <2>1
<1>10. ASSUME NEW p \in S, \A r \in S : size[r] < size[p] => r \in Good
       PROVE  p \in Good
  <2>. DEFINE x == p[1]
              y == p[2]
  <2>1. x \in Seq(Byte) /\ y \in Seq(Byte)
    OBVIOUS
  <2>2. ASSUME NEW u \in Seq(Byte), NEW v \in Seq(Byte), Len(u) + Len(v) < Len(x) + Len(y)
        PROVE  Right(u, v)
    <3>1. <<u, v>> \in S /\ size[<<u, v>>] = Len(u) + Len(v) /\ size[p] = Len(x) + Len(y)
      OBVIOUS
    <3>2. <<u, v>> \in Good
      <4>. HIDE DEF Good, size, S, x, y
      <4>1. QED
        BY <1>10, <2>2, <3>1
    <3>3. QED
      BY <3>2
  <2>3. Right(x, y)
    <3>. HIDE DEF x, y
    <3>0. /\ Len(x) \in Nat /\ Len(y) \in Nat
          /\ (x = <<>> => Len(x) = 0) /\ (y = <<>> => Len(y) = 0)
      BY <2>1
    <3>1. CASE x = <<>> /\ y = <<>>
      BY <1>5, <2>1, <3>1
    <3>2. CASE StartsWord(x) \/ StartsWord(y)
      <4>1. x # <<>> \/ y # <<>>
        BY <3>2 DEF StartsWord
      <4>2. /\ From(x, 2) \in Seq(Byte) /\ From(y, 2) \in Seq(Byte)
            /\ x # <<>> => Len(From(x, 2)) < Len(x)
            /\ x = <<>> => Len(From(x, 2)) = 0
            /\ y # <<>> => Len(From(y, 2)) < Len(y)
            /\ y = <<>> => Len(From(y, 2)) = 0
        BY <2>1, SecondByte
      <4>3. Len(From(x, 2)) \in Nat /\ Len(From(y, 2)) \in Nat
        BY <4>2
      <4>4. Len(From(x, 2)) + Len(From(y, 2)) < Len(x) + Len(y)
        BY <3>0, <4>1, <4>2, <4>3
      <4>5. Right(From(x, 2), From(y, 2))
        BY <2>2, <4>2, <4>4
      <4>6. QED
        BY <1>6, <1>7, <2>1, <3>2, <4>5
    <3>3. CASE ~StartsWord(x) /\ ~StartsWord(y) /\ ~(x = <<>> /\ y = <<>>)
      <4>1. /\ AfterDigits(x) \in Seq(Byte) /\ AfterDigits(y) \in Seq(Byte)
            /\ Len(AfterDigits(x)) <= Len(x) /\ Len(AfterDigits(y)) <= Len(y)
            /\ x # <<>> => Len(AfterDigits(x)) < Len(x)
            /\ y # <<>> => Len(AfterDigits(y)) < Len(y)
        BY <2>1, <3>3, AfterNumber
      <4>2. Len(AfterDigits(x)) \in Nat /\ Len(AfterDigits(y)) \in Nat
        BY <4>1
      <4>3. Len(AfterDigits(x)) + Len(AfterDigits(y)) < Len(x) + Len(y)
        BY <3>0, <3>3, <4>1, <4>2
      <4>4. Right(AfterDigits(x), AfterDigits(y))
        BY <2>2, <4>1, <4>3
      <4>5. QED
        BY <1>8, <2>1, <3>3, <4>4
    <3>4. QED
      BY <3>1, <3>2, <3>3
  <2>4. QED
    BY <2>3
<1>11. S \subseteq Good
  <2>. HIDE DEF S, size, Good
  <2>1. QED
    BY <1>9, <1>10, BySize
<1>12. <<a, b>> \in Good
  <2>1. <<a, b>> \in S
    OBVIOUS
  <2>. HIDE DEF S, Good
  <2>2. QED
    BY <1>11, <2>1
<1>13. Right(a, b)
  BY <1>12
<1>14. QED
  BY <1>13 DEF Right, L

-----------------------------------------------------------------------------
\* Versions as Debian reads them.

Split == [epoch : Int, upstream : Seq(Byte), revision : Seq(Byte)]

LEMMA ParseIntType ==
    ASSUME NEW s \in Seq(Byte)
    PROVE  ParseInt(s).value \in Int /\ ParseInt(s).ok \in BOOLEAN
<1>. DEFINE digits == Unsigned(s)
            number == digits # <<>> /\ \A i \in DOMAIN digits : IsDigit(digits[i])
            sign == IF s[1] = Dash THEN -1 ELSE 1
            n == sign * Value(digits)
<1>1. digits \in Seq(Byte)
  BY HeadTailProperties DEF Unsigned
<1>2. Value(digits) \in Int
  <2>. HIDE DEF digits
  <2>1. QED
    BY <1>1, ValueType
<1>3. n \in Int /\ number \in BOOLEAN
  <2>1. sign = -1 \/ sign = 1
    OBVIOUS
  <2>. HIDE DEF sign
  <2>2. QED
    BY <1>2, <2>1
<1>4. ParseInt(s) = IF number THEN Nearest(n) ELSE Parsed(FALSE, 0)
  BY DEF ParseInt
<1>5. MaxInt \in Int /\ 0 - MaxInt - 1 \in Int
  BY VersionOrderAssumption
<1>. HIDE DEF digits, number, n
<1>6. \E ok \in BOOLEAN, m \in Int : ParseInt(s) = Parsed(ok, m)
  <2>1. CASE ~number
    <3>1. ParseInt(s) = Parsed(FALSE, 0)
      BY <1>4, <2>1
    <3>2. FALSE \in BOOLEAN /\ 0 \in Int
      OBVIOUS
    <3>3. QED
      BY <3>1, <3>2, Zenon
  <2>2. CASE number /\ n > MaxInt
    BY <1>4, <1>5, <2>2 DEF Nearest
  <2>3. CASE number /\ ~(n > MaxInt) /\ n < 0 - MaxInt - 1
    BY <1>4, <1>5, <2>3 DEF Nearest
  <2>4. CASE number /\ ~(n > MaxInt) /\ ~(n < 0 - MaxInt - 1)
    BY <1>3, <1>4, <2>4 DEF Nearest
  <2>5. QED
    BY <1>3, <2>1, <2>2, <2>3, <2>4
<1>7. QED
  BY <1>6 DEF Parsed

LEMMA SplitType ==
    ASSUME NEW v \in Seq(Byte)
    PROVE  SplitDebian(v) \in Split
<1>. DEFINE I == {i \in 1 .. Len(v) : v[i] = Colon}
            colon == IF I # {} THEN Min(I) ELSE 0
            e == SplitEpoch(v, colon)
            J == {i \in 1 .. Len(e.rest) : e.rest[i] = Dash}
            dash == IF J # {} THEN Max(J) ELSE 0
<1>1. SelectInSeq(v, LAMBDA c : c = Colon) = colon
  BY DEF SelectInSeq
<1>2. SelectLastInSeq(e.rest, LAMBDA c : c = Dash) = dash
  BY DEF SelectLastInSeq
<1>3. SplitDebian(v) = SplitRevision(e, dash)
  <2>. HIDE DEF colon, dash
  <2>1. QED
    BY <1>1, <1>2 DEF SplitDebian
<1>4. Len(v) \in Nat /\ colon \in 0 .. Len(v)
  <2>1. I \in SUBSET Nat /\ Len(v) \in Nat
    OBVIOUS
  <2>2. I # {} => Min(I) \in I
    BY <2>1, MinIsLeast
  <2>3. QED
    BY <2>1, <2>2
<1>5. e.epoch \in Int /\ e.rest \in Seq(Byte)
  <2>. DEFINE epoch == ParseInt(SubSeq(v, 1, colon - 1))
  <2>. HIDE DEF colon
  <2>1. CASE colon > 1 /\ epoch.ok
    <3>1. colon - 1 \in 0 .. Len(v)
      BY <1>4, <2>1
    <3>2. SubSeq(v, 1, colon - 1) \in Seq(Byte) /\ From(v, colon + 1) \in Seq(Byte)
      BY <1>4, <3>1, CutIs
    <3>3. epoch.value \in Int
      BY <3>2, ParseIntType
    <3>4. e.epoch = epoch.value /\ e.rest = From(v, colon + 1)
      BY <2>1 DEF SplitEpoch
    <3>5. QED
      BY <3>2, <3>3, <3>4
  <2>2. CASE ~(colon > 1 /\ epoch.ok)
    <3>1. e = [epoch |-> 0, rest |-> v]
      BY <2>2 DEF SplitEpoch
    <3>2. QED
      BY <3>1
  <2>3. QED
    BY <2>1, <2>2
<1>. DEFINE r == e.rest
<1>6. Len(r) \in Nat /\ dash \in 0 .. Len(r)
  <2>. HIDE DEF e
  <2>1. Len(r) \in Nat /\ J \in SUBSET (0 .. Len(r))
    BY <1>5
  <2>2. J # {} => Max(J) \in J
    <3>. HIDE DEF J, r
    <3>1. QED
      BY <2>1, MaxIsGreatest
  <2>3. QED
    BY <2>1, <2>2
<1>. HIDE DEF e, dash
<1>7. CASE dash = 0
  BY <1>3, <1>5, <1>7 DEF SplitRevision, Split
<1>8. CASE dash # 0
  <2>1. dash - 1 \in 0 .. Len(r) /\ r \in Seq(Byte)
    BY <1>5, <1>6, <1>8
  <2>. HIDE DEF r
  <2>2. SubSeq(r, 1, dash - 1) \in Seq(Byte) /\ From(r, dash + 1) \in Seq(Byte)
    BY <1>6, <2>1, CutIs
  <2>3. QED
    BY <1>3, <1>5, <1>8, <2>2 DEF SplitRevision, Split, r
<1>9. QED
  BY <1>7, <1>8

LEMMA BeforeIsOrder ==
    ASSUME NEW s \in Seq(Byte), NEW t \in Seq(Byte)
    PROVE  /\ Verrevcmp[<<s, t>>] \in Signs
           /\ Verrevcmp[<<s, t>>] = -1 <=> Before(Words[s], Words[t])
           /\ Verrevcmp[<<s, t>>] = 1 <=> Before(Words[t], Words[s])
<1>. DEFINE L == Lex(ItemLess, Item)
            f == Items(s)
            g == Items(t)
<1>1. Words[s] \in Seq(Item) /\ Words[t] \in Seq(Item)
  BY WordsAre
<1>2. f \in [Pos -> Item] /\ g \in [Pos -> Item]
  BY ItemsAre
<1>3. /\ Before(Words[s], Words[t]) <=> LexLess(f, g, ItemLess)
      /\ Before(Words[t], Words[s]) <=> LexLess(g, f, ItemLess)
  BY <1>1, VersionsInOrder DEF Items
<1>4. Verrevcmp[<<s, t>>] = SignIn(L, f, g)
  BY VerrevcmpIsOrder
<1>5. /\ <<f, g>> \in L <=> LexLess(f, g, ItemLess)
      /\ <<g, f>> \in L <=> LexLess(g, f, ItemLess)
  BY <1>2 DEF Lex
<1>6. ~(<<f, g>> \in L /\ <<g, f>> \in L)
  <2>1. StrictOrder(L, [Pos -> Item])
    BY ItemLessIsStrictOrder, LexIsStrictOrder
  <2>2. QED
    BY <1>2, <2>1 DEF StrictOrder
<1>. HIDE DEF L, f, g
<1>7. QED
  BY <1>3, <1>4, <1>5, <1>6 DEF SignIn, Signs

LEMMA CompareSplitIsOrder ==
    ASSUME NEW a \in Split, NEW b \in Split
    PROVE  CompareSplit(a, b) =
             IF SplitBefore(a, b) THEN -1 ELSE IF SplitBefore(b, a) THEN 1 ELSE 0
<1>. DEFINE up == Verrevcmp[<<a.upstream, b.upstream>>]
            rev == Verrevcmp[<<a.revision, b.revision>>]
<1>1. /\ a.epoch \in Int /\ b.epoch \in Int
      /\ a.upstream \in Seq(Byte) /\ b.upstream \in Seq(Byte)
      /\ a.revision \in Seq(Byte) /\ b.revision \in Seq(Byte)
  BY DEF Split
<1>2. /\ up \in Signs
      /\ up = -1 <=> Before(Words[a.upstream], Words[b.upstream])
      /\ up = 1 <=> Before(Words[b.upstream], Words[a.upstream])
  BY <1>1, BeforeIsOrder
<1>3. /\ rev \in Signs
      /\ rev = -1 <=> Before(Words[a.revision], Words[b.revision])
      /\ rev = 1 <=> Before(Words[b.revision], Words[a.revision])
  BY <1>1, BeforeIsOrder
<1>4. CompareSplit(a, b) = Then(Sign(a.epoch - b.epoch), Then(up, rev))
  BY DEF CompareSplit
<1>. HIDE DEF up, rev
<1>5. CASE a.epoch < b.epoch
  <2>1. Sign(a.epoch - b.epoch) = -1
    BY <1>1, <1>5, SignType
  <2>2. SplitBefore(a, b)
    BY <1>5 DEF SplitBefore
  <2>3. QED
    BY <1>4, <2>1, <2>2 DEF Then
<1>6. CASE a.epoch > b.epoch
  <2>1. Sign(a.epoch - b.epoch) = 1 /\ b.epoch < a.epoch /\ a.epoch # b.epoch /\ ~(a.epoch < b.epoch)
    BY <1>1, <1>6, SignType
  <2>2. SplitBefore(b, a) /\ ~SplitBefore(a, b)
    BY <2>1 DEF SplitBefore
  <2>3. QED
    BY <1>4, <2>1, <2>2 DEF Then
<1>7. CASE a.epoch = b.epoch
  <2>0. ~(a.epoch < b.epoch) /\ ~(b.epoch < a.epoch)
    BY <1>1, <1>7
  <2>1. Sign(a.epoch - b.epoch) = 0 /\ ~(a.epoch < b.epoch) /\ ~(b.epoch < a.epoch)
    BY <1>1, <1>7, <2>0, SignType
  <2>2. SplitBefore(a, b) <=> up = -1 \/ (up # 1 /\ rev = -1)
    BY <1>2, <1>3, <1>7, <2>1 DEF SplitBefore
  <2>3. SplitBefore(b, a) <=> up = 1 \/ (up # -1 /\ rev = 1)
    BY <1>2, <1>3, <1>7, <2>1 DEF SplitBefore
  <2>4. CompareSplit(a, b) = Then(up, rev)
    BY <1>4, <2>1 DEF Then
  <2>5. QED
    BY <1>2, <1>3, <2>2, <2>3, <2>4 DEF Then, Signs
<1>8. QED
  BY <1>1, <1>5, <1>6, <1>7

\* Between two versions of which one looks like Debian's, Compare is dpkg's
\* order, whatever their words, numbers, epochs and revisions are and however
\* long: verrevcmp's walk from byte to byte and from one run of digits to the
\* next decides as the order of words and numbers does.
THEOREM DpkgOrderOfVersions ==
    \A v, w \in Seq(Byte) :
      Kind(v) = "debian" \/ Kind(w) = "debian" =>
        Compare(v, w) = (IF DebianBefore(v, w) THEN -1 ELSE IF DebianBefore(w, v) THEN 1 ELSE 0)
<1>. SUFFICES ASSUME NEW v \in Seq(Byte), NEW w \in Seq(Byte),
                     Kind(v) = "debian" \/ Kind(w) = "debian"
              PROVE  Compare(v, w) =
                       (IF DebianBefore(v, w) THEN -1 ELSE IF DebianBefore(w, v) THEN 1 ELSE 0)
  OBVIOUS
<1>1. IsDebian(v) \/ IsDebian(w)
  BY DEF Kind
<1>2. Compare(v, w) = CompareSplit(SplitDebian(v), SplitDebian(w))
  BY <1>1 DEF Compare, CompareDebian
<1>3. SplitDebian(v) \in Split /\ SplitDebian(w) \in Split
  BY SplitType
<1>4. QED
  BY <1>2, <1>3, CompareSplitIsOrder DEF DebianBefore

\* Only versions of the source are available, and only MinVersion is the
\* lower bound.
Published == available \subseteq Versions /\ min \in MinVersions

LEMMA PublishedAlways == Spec => []Published
<1>1. Init => Published
  BY DEF Init, Published
<1>2. Published /\ [Next]_vars => Published'
  <2>. SUFFICES ASSUME Published, [Next]_vars PROVE Published'
    OBVIOUS
  <2>1. CASE Update
    BY <2>1 DEF Update, Published
  <2>2. ASSUME NEW v \in Versions \ available, Publish(v) PROVE Published'
    BY <2>2 DEF Publish, Published
  <2>3. CASE UNCHANGED vars
    BY <2>3 DEF vars, Published
  <2>4. QED
    BY <2>1, <2>2, <2>3 DEF Next
<1>3. QED
  BY <1>1, <1>2, PTL DEF Spec

\* CompareIsDpkg for every set of versions.
THEOREM ComparesAsDpkg == Spec => []CompareIsDpkg
<1>1. Published => CompareIsDpkg
  <2>. SUFFICES ASSUME Published,
                       NEW v \in available, NEW w \in available,
                       Kind(v) = "debian" \/ Kind(w) = "debian"
                PROVE  Compare(v, w) =
                         (IF DebianBefore(v, w) THEN -1 ELSE IF DebianBefore(w, v) THEN 1 ELSE 0)
    BY DEF CompareIsDpkg
  <2>1. v \in Seq(Byte) /\ w \in Seq(Byte)
    BY VersionOrderAssumption DEF Published
  <2>2. QED
    BY <2>1, DpkgOrderOfVersions
<1>2. QED
  BY <1>1, PublishedAlways, PTL

-----------------------------------------------------------------------------
\* On uniform sets of versions, Compare is a total preorder.

\* A comparison is one whatever it is written as.
LEMMA SameComparison ==
    ASSUME NEW S, NEW c, Comparison(c, S),
           NEW d, \A x, y \in S : d[<<x, y>>] = c[<<x, y>>]
    PROVE  Comparison(d, S)
  BY DEF Comparison

\* What is compared by keys k in a strict order R.
Keyed(d, V, k, R, T) ==
    /\ k \in [V -> T]
    /\ \A x, y \in V : d[<<x, y>>] = SignIn(R, k[x], k[y])

LEMMA OrderOfKeys ==
    ASSUME NEW T, NEW R, StrictOrder(R, T), NEW V, NEW k, NEW d, Keyed(d, V, k, R, T)
    PROVE  Comparison(d, V)
<1>0. k \in [V -> T] /\ \A x, y \in V : d[<<x, y>>] = SignIn(R, k[x], k[y])
  BY DEF Keyed
<1>. DEFINE c == [p \in T \X T |-> SignIn(R, p[1], p[2])]
<1>1. Comparison(c, T)
  BY OrderCompares
<1>2. \A x, y \in T : c[<<x, y>>] = SignIn(R, x, y)
  OBVIOUS
<1>. HIDE DEF c
<1>. DEFINE e == [p \in V \X V |-> c[<<k[p[1]], k[p[2]]>>]]
<1>3. Comparison(e, V)
  BY <1>0, <1>1, KeyCompares
<1>4. ASSUME NEW x \in V, NEW y \in V PROVE d[<<x, y>>] = e[<<x, y>>]
  <2>1. k[x] \in T /\ k[y] \in T
    BY <1>0
  <2>2. c[<<k[x], k[y]>>] = SignIn(R, k[x], k[y])
    BY <1>2, <2>1
  <2>3. e[<<x, y>>] = c[<<k[x], k[y]>>]
    OBVIOUS
  <2>. HIDE DEF e
  <2>4. QED
    BY <1>0, <2>2, <2>3
<1>. HIDE DEF e
<1>5. QED
  BY <1>3, <1>4, SameComparison

LEMMA SignIsOrder ==
    ASSUME NEW m \in Int, NEW n \in Int
    PROVE  Sign(m - n) = SignIn(Smaller, m, n)
  BY DEF Sign, SignIn, Smaller

LEMMA NumbersAreCompared ==
    ASSUME NEW V, NEW k \in [V -> Int]
    PROVE  Comparison([p \in V \X V |-> Sign(k[p[1]] - k[p[2]])], V)
<1>. DEFINE d == [p \in V \X V |-> Sign(k[p[1]] - k[p[2]])]
<1>1. ASSUME NEW x \in V, NEW y \in V PROVE d[<<x, y>>] = SignIn(Smaller, k[x], k[y])
  <2>1. d[<<x, y>>] = Sign(k[x] - k[y])
    OBVIOUS
  <2>2. QED
    BY <2>1, SignIsOrder
<1>. HIDE DEF d
<1>2. Keyed(d, V, k, Smaller, Int)
  BY <1>1 DEF Keyed
<1>3. Comparison(d, V)
  BY <1>2, SmallerIsStrictOrder, OrderOfKeys
<1>4. QED
  BY <1>3 DEF d

LEMMA SequencesAreCompared ==
    ASSUME NEW V, NEW k \in [V -> Seq(Int)], NEW fill \in Int
    PROVE  Comparison([p \in V \X V |-> CompareSeqs(k[p[1]], k[p[2]], fill)], V)
<1>. DEFINE d == [p \in V \X V |-> CompareSeqs(k[p[1]], k[p[2]], fill)]
            L == Lex(Smaller, Int)
            key == [v \in V |-> Padded(k[v], fill)]
<1>1. ASSUME NEW x \in V, NEW y \in V PROVE d[<<x, y>>] = SignIn(L, key[x], key[y])
  <2>1. d[<<x, y>>] = CompareSeqs(k[x], k[y], fill)
    OBVIOUS
  <2>2. CompareSeqs(k[x], k[y], fill) = SignIn(L, Padded(k[x], fill), Padded(k[y], fill))
    BY SeqsCompare
  <2>3. key[x] = Padded(k[x], fill) /\ key[y] = Padded(k[y], fill)
    OBVIOUS
  <2>. HIDE DEF d, key, L
  <2>4. QED
    BY <2>1, <2>2, <2>3
<1>. DEFINE T == [Pos -> Int]
<1>2. key \in [V -> T]
  BY PaddedType
<1>3. StrictOrder(L, T)
  BY SmallerIsStrictOrder, LexIsStrictOrder
<1>. HIDE DEF d, key, L, T
<1>4. Keyed(d, V, key, L, T)
  BY <1>1, <1>2 DEF Keyed
<1>5. Comparison(d, V)
  BY <1>3, <1>4, OrderOfKeys
<1>6. QED
  BY <1>5 DEF d

LEMMA VerrevcmpCompares ==
    ASSUME NEW V, NEW k \in [V -> Seq(Byte)]
    PROVE  Comparison([p \in V \X V |-> Verrevcmp[<<k[p[1]], k[p[2]]>>]], V)
<1>. DEFINE d == [p \in V \X V |-> Verrevcmp[<<k[p[1]], k[p[2]]>>]]
            L == Lex(ItemLess, Item)
            key == [v \in V |-> Items(k[v])]
<1>1. ASSUME NEW x \in V, NEW y \in V PROVE d[<<x, y>>] = SignIn(L, key[x], key[y])
  <2>1. d[<<x, y>>] = Verrevcmp[<<k[x], k[y]>>]
    OBVIOUS
  <2>2. Verrevcmp[<<k[x], k[y]>>] = SignIn(L, Items(k[x]), Items(k[y]))
    BY VerrevcmpIsOrder
  <2>3. key[x] = Items(k[x]) /\ key[y] = Items(k[y])
    OBVIOUS
  <2>. HIDE DEF d, key, L
  <2>4. QED
    BY <2>1, <2>2, <2>3
<1>. DEFINE T == [Pos -> Item]
<1>2. key \in [V -> T]
  BY ItemsAre
<1>3. StrictOrder(L, T)
  BY ItemLessIsStrictOrder, LexIsStrictOrder
<1>. HIDE DEF d, key, L, T
<1>4. Keyed(d, V, key, L, T)
  BY <1>1, <1>2 DEF Keyed
<1>5. Comparison(d, V)
  BY <1>3, <1>4, OrderOfKeys
<1>6. QED
  BY <1>5 DEF d

\* One comparison after another, whatever they are written as.
LEMMA ThenIsComparison ==
    ASSUME NEW S, NEW c, NEW e, Comparison(c, S), Comparison(e, S),
           NEW d, \A x, y \in S : d[<<x, y>>] = Then(c[<<x, y>>], e[<<x, y>>])
    PROVE  Comparison(d, S)
<1>. DEFINE h == [p \in S \X S |-> Then(c[p], e[p])]
<1>1. Comparison(h, S)
  BY ThenCompares
<1>2. \A x, y \in S : h[<<x, y>>] = Then(c[<<x, y>>], e[<<x, y>>])
  OBVIOUS
<1>. HIDE DEF h
<1>3. \A x, y \in S : d[<<x, y>>] = h[<<x, y>>]
  BY <1>2
<1>4. QED
  BY <1>1, <1>3, SameComparison

Comparing(V) == [p \in V \X V |-> Compare(p[1], p[2])]

LEMMA ComparingIs ==
    ASSUME NEW V, NEW x \in V, NEW y \in V
    PROVE  Comparing(V)[<<x, y>>] = Compare(x, y)
  BY DEF Comparing

LEMMA DebianComparison ==
    ASSUME NEW V \in SUBSET Seq(Byte), \A v \in V : IsDebian(v)
    PROVE  Comparison(Comparing(V), V)
<1>. DEFINE k == [v \in V |-> SplitDebian(v).epoch]
            l == [v \in V |-> SplitDebian(v).upstream]
            m == [v \in V |-> SplitDebian(v).revision]
            c == [p \in V \X V |-> Sign(k[p[1]] - k[p[2]])]
            d == [p \in V \X V |-> Verrevcmp[<<l[p[1]], l[p[2]]>>]]
            e == [p \in V \X V |-> Verrevcmp[<<m[p[1]], m[p[2]]>>]]
            f == [p \in V \X V |-> Then(d[p], e[p])]
<1>1. k \in [V -> Int] /\ l \in [V -> Seq(Byte)] /\ m \in [V -> Seq(Byte)]
  <2>1. \A v \in V : SplitDebian(v) \in Split
    BY SplitType
  <2>2. \A x \in Split : x.epoch \in Int /\ x.upstream \in Seq(Byte) /\ x.revision \in Seq(Byte)
    BY DEF Split
  <2>3. QED
    BY <2>1, <2>2
<1>2. ASSUME NEW x \in V, NEW y \in V
      PROVE  Compare(x, y) = Then(c[<<x, y>>], f[<<x, y>>])
  <2>1. Compare(x, y) = CompareSplit(SplitDebian(x), SplitDebian(y))
    BY DEF Compare, CompareDebian
  <2>2. c[<<x, y>>] = Sign(SplitDebian(x).epoch - SplitDebian(y).epoch)
    OBVIOUS
  <2>3. f[<<x, y>>] = Then(Verrevcmp[<<SplitDebian(x).upstream, SplitDebian(y).upstream>>],
                           Verrevcmp[<<SplitDebian(x).revision, SplitDebian(y).revision>>])
    OBVIOUS
  <2>. HIDE DEF c, f
  <2>4. QED
    BY <2>1, <2>2, <2>3 DEF CompareSplit
<1>. HIDE DEF k, l, m
<1>3. Comparison(c, V)
  BY <1>1, NumbersAreCompared
<1>4. Comparison(d, V)
  BY <1>1, VerrevcmpCompares
<1>5. Comparison(e, V)
  BY <1>1, VerrevcmpCompares
<1>6. Comparison(f, V)
  <2>. HIDE DEF d, e
  <2>1. QED
    BY <1>4, <1>5, ThenCompares
<1>. HIDE DEF c, f
<1>7. \A x, y \in V : Comparing(V)[<<x, y>>] = Then(c[<<x, y>>], f[<<x, y>>])
  <2>1. ASSUME NEW x \in V, NEW y \in V
        PROVE  Comparing(V)[<<x, y>>] = Then(c[<<x, y>>], f[<<x, y>>])
    BY <1>2, ComparingIs
  <2>2. QED
    BY <2>1
<1>8. QED
  BY <1>3, <1>6, <1>7, ThenIsComparison

LEMMA BytesAreNumbers ==
    ASSUME NEW s \in Seq(Byte)
    PROVE  s \in Seq(Int)
<1>1. Byte \subseteq Int
  BY DEF Byte
<1>2. QED
  BY <1>1, SeqMonotonic

LEMMA StringComparison ==
    ASSUME NEW V, NEW k \in [V -> Seq(Byte)]
    PROVE  Comparison([p \in V \X V |-> CompareStrings(k[p[1]], k[p[2]])], V)
<1>1. k \in [V -> Seq(Int)]
  <2>1. \A v \in V : k[v] \in Seq(Int)
    BY BytesAreNumbers
  <2>2. QED
    BY <2>1
<1>. DEFINE fill == -1
<1>2. fill \in Int
  OBVIOUS
<1>3. Comparison([p \in V \X V |-> CompareSeqs(k[p[1]], k[p[2]], fill)], V)
  <2>. HIDE DEF fill
  <2>1. QED
    BY <1>1, <1>2, SequencesAreCompared
<1>4. QED
  BY <1>3 DEF CompareStrings

\* The alphabet is an order of all strings.
Alphabet == {p \in Seq(Byte) \X Seq(Byte) : CompareStrings(p[1], p[2]) < 0}

LEMMA AlphabetIsStrictOrder ==
    /\ StrictOrder(Alphabet, Seq(Byte))
    /\ \A s, t \in Seq(Byte) : <<s, t>> \in Alphabet <=> CompareStrings(s, t) < 0
<1>. DEFINE L == Lex(Smaller, Int)
            fill == -1
            key(s) == Padded(s, fill)
<1>1. StrictOrder(L, [Pos -> Int])
  BY SmallerIsStrictOrder, LexIsStrictOrder
<1>2. fill \in Int /\ fill < 0
  OBVIOUS
<1>. HIDE DEF fill
<1>3. ASSUME NEW s \in Seq(Byte)
      PROVE  /\ s \in Seq(Int) /\ Len(s) \in Nat /\ \A i \in 1 .. Len(s) : s[i] \in Nat
             /\ key(s) \in [Pos -> Int]
             /\ \A i \in Pos : key(s)[i] = IF i <= Len(s) THEN s[i] ELSE fill
  <2>1. s \in Seq(Int)
    BY BytesAreNumbers
  <2>2. Len(s) \in Nat /\ \A i \in 1 .. Len(s) : s[i] \in Nat
    BY ByteSeq
  <2>3. key(s) \in [Pos -> Int] /\ \A i \in Pos : key(s)[i] = IF i <= Len(s) THEN s[i] ELSE fill
    BY <1>2, <2>1, PaddedType
  <2>4. QED
    BY <2>1, <2>2, <2>3
<1>4. ASSUME NEW s \in Seq(Byte), NEW t \in Seq(Byte)
      PROVE  <<s, t>> \in Alphabet <=> <<key(s), key(t)>> \in L
  <2>1. CompareStrings(s, t) = SignIn(L, key(s), key(t))
    <3>1. s \in Seq(Int) /\ t \in Seq(Int)
      BY <1>3
    <3>2. CompareSeqs(s, t, fill) = SignIn(L, key(s), key(t))
      BY <1>2, <3>1, SeqsCompare
    <3>3. QED
      BY <3>2 DEF CompareStrings, fill
  <2>. HIDE DEF L, key
  <2>2. CompareStrings(s, t) < 0 <=> <<key(s), key(t)>> \in L
    BY <2>1 DEF SignIn
  <2>3. QED
    BY <2>2 DEF Alphabet
<1>5. ASSUME NEW s \in Seq(Byte), NEW t \in Seq(Byte), key(s) = key(t)
      PROVE  s = t
  <2>1. ASSUME NEW x \in Seq(Byte), NEW y \in Seq(Byte), key(x) = key(y), Len(x) < Len(y)
        PROVE  FALSE
    <3>1. /\ Len(x) \in Nat /\ Len(y) \in Nat
          /\ \A i \in 1 .. Len(y) : y[i] \in Nat
          /\ \A i \in Pos : key(x)[i] = IF i <= Len(x) THEN x[i] ELSE fill
          /\ \A i \in Pos : key(y)[i] = IF i <= Len(y) THEN y[i] ELSE fill
      BY <1>3
    <3>2. Len(x) + 1 \in Pos /\ Len(x) + 1 \in 1 .. Len(y) /\ ~(Len(x) + 1 <= Len(x))
      BY <2>1, <3>1 DEF Pos
    <3>. HIDE DEF key
    <3>3. y[Len(x) + 1] = fill /\ y[Len(x) + 1] \in Nat
      BY <2>1, <3>1, <3>2
    <3>4. QED
      BY <1>2, <3>3
  <2>2. Len(s) \in Nat /\ Len(t) \in Nat
    BY <1>3
  <2>3. Len(s) = Len(t)
    BY <1>5, <2>1, <2>2
  <2>4. ASSUME NEW i \in 1 .. Len(s) PROVE s[i] = t[i]
    <3>1. i \in Pos /\ i <= Len(s) /\ i <= Len(t)
      BY <2>3 DEF Pos
    <3>2. key(s)[i] = s[i] /\ key(t)[i] = t[i]
      BY <1>3, <3>1
    <3>. HIDE DEF key
    <3>3. QED
      BY <1>5, <3>2
  <2>5. QED
    BY <2>3, <2>4, SeqEqual
<1>6. \A s \in Seq(Byte) : key(s) \in [Pos -> Int]
  BY <1>3
<1>. HIDE DEF L, key
<1>7. ASSUME NEW x \in Seq(Byte), NEW y \in Seq(Byte), <<x, y>> \in Alphabet
      PROVE  <<y, x>> \notin Alphabet
  BY <1>1, <1>4, <1>6, <1>7 DEF StrictOrder
<1>8. ASSUME NEW x \in Seq(Byte), NEW y \in Seq(Byte)
      PROVE  x = y \/ <<x, y>> \in Alphabet \/ <<y, x>> \in Alphabet
  <2>1. key(x) = key(y) \/ <<key(x), key(y)>> \in L \/ <<key(y), key(x)>> \in L
    BY <1>1, <1>6 DEF StrictOrder
  <2>2. QED
    BY <1>4, <1>5, <2>1
<1>9. ASSUME NEW x \in Seq(Byte), NEW y \in Seq(Byte), NEW z \in Seq(Byte),
             <<x, y>> \in Alphabet, <<y, z>> \in Alphabet
      PROVE  <<x, z>> \in Alphabet
  <2>1. <<key(x), key(y)>> \in L /\ <<key(y), key(z)>> \in L
    BY <1>4, <1>9
  <2>2. <<key(x), key(z)>> \in L
    BY <1>1, <1>6, <2>1 DEF StrictOrder
  <2>3. QED
    BY <1>4, <2>2
<1>10. \A s, t \in Seq(Byte) : <<s, t>> \in Alphabet <=> CompareStrings(s, t) < 0
  BY DEF Alphabet
<1>11. QED
  BY <1>7, <1>8, <1>9, <1>10 DEF StrictOrder

\* The alphabet tells two different strings apart, one way or the other.
LEMMA StringsDiffer ==
    ASSUME NEW s \in Seq(Byte), NEW t \in Seq(Byte)
    PROVE  CompareStrings(s, t) > 0 <=> <<t, s>> \in Alphabet
<1>. DEFINE V == Seq(Byte)
            k == [v \in V |-> v]
            c == [p \in V \X V |-> CompareStrings(k[p[1]], k[p[2]])]
<1>1. k \in [V -> Seq(Byte)]
  OBVIOUS
<1>2. Comparison(c, V)
  <2>. HIDE DEF k, V
  <2>1. QED
    BY <1>1, StringComparison
<1>3. c[<<s, t>>] = CompareStrings(s, t) /\ c[<<t, s>>] = CompareStrings(t, s)
  OBVIOUS
<1>. HIDE DEF c
<1>4. c[<<s, t>>] \in Signs /\ c[<<t, s>>] \in Signs /\ c[<<s, t>>] = 0 - c[<<t, s>>]
  BY <1>2 DEF Comparison
<1>5. CompareStrings(s, t) > 0 <=> CompareStrings(t, s) < 0
  BY <1>3, <1>4 DEF Signs
<1>6. QED
  BY <1>5, AlphabetIsStrictOrder

-----------------------------------------------------------------------------
\* Prereleases that are alike.

\* What comparePart does: numbers are below words, words are as in the alphabet.
PartBelow(x, y) ==
    \/ ParseInt(x).ok /\ ~ParseInt(y).ok
    \/ ParseInt(x).ok /\ ParseInt(y).ok /\ ParseInt(x).value < ParseInt(y).value
    \/ ~ParseInt(x).ok /\ ~ParseInt(y).ok /\ <<x, y>> \in Alphabet

LEMMA PartsCompare ==
    ASSUME NEW x \in Seq(Byte), NEW y \in Seq(Byte), x # <<>>, y # <<>>, x # y,
           AlikeIdentifiers(x, y), AlikeIdentifiers(y, x)
    PROVE  /\ ComparePart(x, y) = IF PartBelow(x, y) THEN -1 ELSE 1
           /\ PartBelow(x, y) <=> ~PartBelow(y, x)
<1>. DEFINE m == ParseInt(x)
            n == ParseInt(y)
<1>1. m.value \in Int /\ n.value \in Int /\ m.ok \in BOOLEAN /\ n.ok \in BOOLEAN
  BY ParseIntType
<1>2. /\ ~m.ok => m.value = 0
      /\ ~n.ok => n.value = 0
      /\ m.ok /\ n.ok => m.value # n.value
  BY DEF AlikeIdentifiers
<1>3. /\ <<x, y>> \in Alphabet => <<y, x>> \notin Alphabet
      /\ <<x, y>> \in Alphabet \/ <<y, x>> \in Alphabet
      /\ CompareStrings(x, y) > 0 <=> <<y, x>> \in Alphabet
  BY AlphabetIsStrictOrder, StringsDiffer DEF StrictOrder
<1>4. ComparePart(x, y) = CASE x = <<>> -> IF n.ok THEN -1 ELSE 1
         [] x # <<>> /\ y = <<>> -> IF m.ok THEN 1 ELSE -1
         [] x # <<>> /\ y # <<>> /\ m.ok # n.ok -> IF m.ok THEN -1 ELSE 1
         [] OTHER -> IF (~m.ok /\ CompareStrings(x, y) > 0) \/ m.value > n.value THEN 1 ELSE -1
  BY DEF ComparePart, CompareIdentifiers
<1>5. PartBelow(x, y) <=> \/ m.ok /\ ~n.ok
                          \/ m.ok /\ n.ok /\ m.value < n.value
                          \/ ~m.ok /\ ~n.ok /\ <<x, y>> \in Alphabet
  BY DEF PartBelow
<1>6. PartBelow(y, x) <=> \/ n.ok /\ ~m.ok
                          \/ n.ok /\ m.ok /\ n.value < m.value
                          \/ ~n.ok /\ ~m.ok /\ <<y, x>> \in Alphabet
  BY DEF PartBelow
<1>. HIDE DEF m, n
<1>7. CASE m.ok # n.ok
  <2>1. ComparePart(x, y) = IF m.ok THEN -1 ELSE 1
    BY <1>4, <1>7
  <2>2. QED
    BY <1>1, <1>5, <1>6, <1>7, <2>1
<1>8. CASE m.ok = n.ok
  <2>1. ComparePart(x, y) =
          IF (~m.ok /\ CompareStrings(x, y) > 0) \/ m.value > n.value THEN 1 ELSE -1
    BY <1>4, <1>8
  <2>2. CASE m.ok
    BY <1>1, <1>2, <1>5, <1>6, <1>8, <2>1, <2>2
  <2>3. CASE ~m.ok
    <3>1. m.value = 0 /\ n.value = 0
      BY <1>2, <1>8, <2>3
    <3>2. ComparePart(x, y) = IF <<y, x>> \in Alphabet THEN 1 ELSE -1
      BY <1>3, <2>1, <2>3, <3>1
    <3>3. QED
      BY <1>3, <1>5, <1>6, <1>8, <2>3, <3>2
  <2>4. QED
    BY <2>2, <2>3
<1>9. QED
  BY <1>7, <1>8

\* Identifiers of which any two are alike.
AllAlike(I) ==
    /\ I \subseteq Seq(Byte) /\ <<>> \notin I
    /\ \A x, y \in I : AlikeIdentifiers(x, y)

\* One that is missing may be anywhere; it is not compared.
OrMissing(I) == I \cup {<<>>}

Parts(I) ==
    {p \in OrMissing(I) \X OrMissing(I) :
       p[1] # p[2] /\ (p[1] = <<>> \/ (p[2] # <<>> /\ PartBelow(p[1], p[2])))}

LEMMA PartsAreOrdered ==
    ASSUME NEW I, AllAlike(I)
    PROVE  StrictOrder(Parts(I), OrMissing(I))
<1>1. ASSUME NEW x \in I, NEW y \in I, x # y PROVE PartBelow(x, y) <=> ~PartBelow(y, x)
  <2>1. x \in Seq(Byte) /\ y \in Seq(Byte) /\ x # <<>> /\ y # <<>>
    BY DEF AllAlike
  <2>2. AlikeIdentifiers(x, y) /\ AlikeIdentifiers(y, x)
    BY DEF AllAlike
  <2>3. QED
    BY <1>1, <2>1, <2>2, PartsCompare
<1>2. ASSUME NEW x \in I, NEW y \in I, NEW z \in I, PartBelow(x, y), PartBelow(y, z)
      PROVE  PartBelow(x, z)
  <2>1. x \in Seq(Byte) /\ y \in Seq(Byte) /\ z \in Seq(Byte)
    BY DEF AllAlike
  <2>2. ParseInt(x).value \in Int /\ ParseInt(y).value \in Int /\ ParseInt(z).value \in Int
    BY <2>1, ParseIntType
  <2>3. <<x, y>> \in Alphabet /\ <<y, z>> \in Alphabet => <<x, z>> \in Alphabet
    BY <2>1, AlphabetIsStrictOrder DEF StrictOrder
  <2>4. QED
    BY <1>2, <2>2, <2>3 DEF PartBelow
<1>3. \A x, y \in OrMissing(I) :
        <<x, y>> \in Parts(I) <=> x # y /\ (x = <<>> \/ (y # <<>> /\ PartBelow(x, y)))
  BY DEF Parts
<1>4. \A x \in OrMissing(I) : x = <<>> \/ x \in I
  BY DEF OrMissing
<1>5. ASSUME NEW x \in OrMissing(I), NEW y \in OrMissing(I), <<x, y>> \in Parts(I)
      PROVE  <<y, x>> \notin Parts(I)
  BY <1>1, <1>3, <1>4, <1>5
<1>6. ASSUME NEW x \in OrMissing(I), NEW y \in OrMissing(I)
      PROVE  x = y \/ <<x, y>> \in Parts(I) \/ <<y, x>> \in Parts(I)
  BY <1>1, <1>3, <1>4
<1>7. ASSUME NEW x \in OrMissing(I), NEW y \in OrMissing(I), NEW z \in OrMissing(I),
             <<x, y>> \in Parts(I), <<y, z>> \in Parts(I)
      PROVE  <<x, z>> \in Parts(I)
  <2>1. y # <<>> /\ z # <<>> /\ x # y /\ y # z
    BY <1>3, <1>7
  <2>2. CASE x = <<>>
    BY <1>3, <2>1, <2>2
  <2>3. CASE x # <<>>
    <3>1. x \in I /\ y \in I /\ z \in I /\ PartBelow(x, y) /\ PartBelow(y, z)
      BY <1>3, <1>4, <1>7, <2>1, <2>3
    <3>2. PartBelow(x, z)
      BY <1>2, <3>1
    <3>3. x # z
      BY <1>1, <2>1, <3>1
    <3>4. QED
      BY <1>3, <2>1, <3>2, <3>3
  <2>4. QED
    BY <2>2, <2>3
<1>8. QED
  BY <1>5, <1>6, <1>7 DEF StrictOrder

\* Prereleases with as many identifiers are in the order of the first two that
\* differ.
LEMMA IdentifiersCompare ==
    ASSUME NEW I, AllAlike(I), NEW p \in Seq(I), NEW q \in Seq(I), p # <<>>, q # <<>>, Len(p) = Len(q)
    PROVE  ComparePrereleases(p, q) =
             SignIn(Lex(Parts(I), OrMissing(I)), Padded(p, <<>>), Padded(q, <<>>))
<1>. DEFINE T == OrMissing(I)
            R == Parts(I)
            L == Lex(R, T)
            at(x, i) == IF i <= Len(x) THEN x[i] ELSE <<>>
            Differ == {i \in DOMAIN p \cup DOMAIN q : at(p, i) # at(q, i)}
            f == Padded(p, <<>>)
            g == Padded(q, <<>>)
<1>1. ComparePrereleases(p, q) =
        IF Differ = {} THEN 0 ELSE ComparePart(at(p, Min(Differ)), at(q, Min(Differ)))
  <2>1. ComparePrereleases(p, q) =
          CASE p = <<>> \/ q = <<>> -> Sign(Len(q) - Len(p))
            [] p # <<>> /\ q # <<>> /\ Differ = {} -> 0
            [] OTHER -> ComparePart(at(p, Min(Differ)), at(q, Min(Differ)))
    BY DEF ComparePrereleases
  <2>. HIDE DEF Differ, at
  <2>2. QED
    BY <2>1
<1>2. p \in Seq(T) /\ q \in Seq(T) /\ <<>> \in T
  <2>1. I \subseteq T /\ <<>> \in T
    BY DEF OrMissing
  <2>. HIDE DEF T
  <2>2. QED
    BY <2>1, SeqMonotonic
<1>. HIDE DEF T
<1>3. /\ f \in [Pos -> T] /\ g \in [Pos -> T]
      /\ \A i \in Pos : f[i] = at(p, i) /\ g[i] = at(q, i)
  <2>1. f \in [Pos -> T] /\ \A i \in Pos : f[i] = at(p, i)
    BY <1>2, PaddedType
  <2>2. g \in [Pos -> T] /\ \A i \in Pos : g[i] = at(q, i)
    BY <1>2, PaddedType
  <2>3. QED
    BY <2>1, <2>2
<1>4. Len(p) \in Nat /\ DOMAIN p = 1 .. Len(p) /\ DOMAIN q = 1 .. Len(p)
  OBVIOUS
<1>5. Differ \subseteq 1 .. Len(p) /\ 1 .. Len(p) \subseteq Pos /\ Pos \subseteq Nat
  BY <1>4 DEF Pos
<1>6. ASSUME NEW i \in Pos, i \notin Differ PROVE f[i] = g[i]
  BY <1>3, <1>4, <1>6 DEF Pos
<1>7. StrictOrder(R, T)
  BY PartsAreOrdered DEF T
<1>8. StrictOrder(L, [Pos -> T])
  BY <1>7, LexIsStrictOrder
<1>9. ASSUME NEW i \in Differ
      PROVE  f[i] \in I /\ g[i] \in I /\ f[i] # g[i] /\ f[i] = at(p, i) /\ g[i] = at(q, i)
  <2>1. i \in 1 .. Len(p) /\ i \in Pos /\ i <= Len(p) /\ i <= Len(q)
    BY <1>4, <1>5
  <2>2. f[i] = at(p, i) /\ g[i] = at(q, i) /\ at(p, i) = p[i] /\ at(q, i) = q[i] /\ at(p, i) # at(q, i)
    BY <1>3, <2>1
  <2>3. p[i] \in I /\ q[i] \in I
    BY <2>1
  <2>4. QED
    BY <2>2, <2>3
<1>. HIDE DEF f, g, at, L
<1>10. CASE Differ = {}
  <2>1. \A i \in Pos : f[i] = g[i]
    BY <1>6, <1>10
  <2>2. f = g
    BY <1>3, <2>1
  <2>3. SignIn(L, f, g) = 0
    BY <1>3, <1>8, <2>2 DEF StrictOrder, SignIn
  <2>4. QED
    BY <1>1, <1>10, <2>3 DEF f, g, L, T
<1>11. CASE Differ # {}
  <2>. DEFINE m == Min(Differ)
  <2>1. m \in Differ /\ \A i \in Differ : m <= i
    <3>1. Differ \subseteq Nat
      BY <1>5
    <3>. HIDE DEF Differ
    <3>2. QED
      BY <1>11, <3>1, MinIsLeast
  <2>2. ComparePrereleases(p, q) = ComparePart(f[m], g[m])
    <3>1. f[m] = at(p, m) /\ g[m] = at(q, m)
      BY <1>9, <2>1
    <3>. HIDE DEF Differ
    <3>2. QED
      BY <1>1, <1>11, <3>1
  <2>3. m \in Pos /\ m \in Nat
    BY <1>5, <2>1
  <2>. HIDE DEF m
  <2>4. ASSUME NEW j \in 1 .. m - 1 PROVE f[j] = g[j]
    <3>1. j \in Pos /\ ~(m <= j)
      BY <2>3 DEF Pos
    <3>2. j \notin Differ
      BY <2>1, <3>1
    <3>3. QED
      BY <1>6, <3>1, <3>2
  <2>. DEFINE x == f[m]
              y == g[m]
  <2>5. x \in I /\ y \in I /\ x # y
    BY <1>9, <2>1
  <2>6. <<f[m], g[m]>> \in R => <<f, g>> \in L
    BY <1>3, <2>3, <2>4 DEF LexLess, Lex, L
  <2>7. <<g[m], f[m]>> \in R => <<g, f>> \in L
    BY <1>3, <2>3, <2>4 DEF LexLess, Lex, L
  <2>8. <<f, g>> \in L => <<g, f>> \notin L
    BY <1>3, <1>8 DEF StrictOrder
  <2>. HIDE DEF x, y
  <2>9. /\ x \in Seq(Byte) /\ y \in Seq(Byte) /\ x # <<>> /\ y # <<>>
        /\ AlikeIdentifiers(x, y) /\ AlikeIdentifiers(y, x) /\ x \in T /\ y \in T
    BY <2>5 DEF AllAlike, OrMissing, T
  <2>10. /\ ComparePart(x, y) = IF PartBelow(x, y) THEN -1 ELSE 1
         /\ PartBelow(x, y) <=> ~PartBelow(y, x)
    BY <2>5, <2>9, PartsCompare
  <2>11. /\ <<x, y>> \in R <=> PartBelow(x, y)
         /\ <<y, x>> \in R <=> PartBelow(y, x)
    BY <2>5, <2>9 DEF Parts, T
  <2>12. SignIn(L, f, g) = ComparePart(x, y)
    <3>1. CASE PartBelow(x, y)
      BY <2>6, <2>10, <2>11, <3>1 DEF SignIn, x, y
    <3>2. CASE PartBelow(y, x)
      BY <2>7, <2>8, <2>10, <2>11, <3>2 DEF SignIn, x, y
    <3>3. QED
      BY <2>10, <3>1, <3>2
  <2>13. QED
    BY <2>2, <2>12 DEF f, g, L, T, x, y
<1>12. QED
  BY <1>10, <1>11

\* Prereleases of alike identifiers, as many in each, and none at all.
AlikePrereleases(V, k, I) ==
    /\ AllAlike(I)
    /\ k \in [V -> Seq(I)]
    /\ \A x, y \in V : k[x] # <<>> /\ k[y] # <<>> => Len(k[x]) = Len(k[y])

LEMMA PrereleaseComparison ==
    ASSUME NEW V, NEW k, NEW I, AlikePrereleases(V, k, I)
    PROVE  Comparison([p \in V \X V |-> ComparePrereleases(k[p[1]], k[p[2]])], V)
<1>. DEFINE L == Lex(Parts(I), OrMissing(I))
            T == [Pos -> OrMissing(I)]
            pad == [v \in V |-> Padded(k[v], <<>>)]
            key == [v \in V |-> IF k[v] = <<>> THEN 1 ELSE 0]
            c == [p \in V \X V |-> Sign(key[p[1]] - key[p[2]])]
            e == [p \in V \X V |-> SignIn(L, pad[p[1]], pad[p[2]])]
            d == [p \in V \X V |-> ComparePrereleases(k[p[1]], k[p[2]])]
<1>1. key \in [V -> Int]
  OBVIOUS
<1>2. StrictOrder(L, T)
  BY PartsAreOrdered, LexIsStrictOrder DEF AlikePrereleases
<1>3. pad \in [V -> T]
  <2>1. ASSUME NEW v \in V PROVE Padded(k[v], <<>>) \in T
    <3>1. k[v] \in Seq(OrMissing(I)) /\ <<>> \in OrMissing(I)
      <4>1. k[v] \in Seq(I) /\ I \subseteq OrMissing(I) /\ <<>> \in OrMissing(I)
        BY DEF AlikePrereleases, OrMissing
      <4>2. QED
        BY <4>1, SeqMonotonic
    <3>2. QED
      BY <3>1, PaddedType
  <2>. HIDE DEF T
  <2>2. QED
    BY <2>1
<1>4. ASSUME NEW x \in V, NEW y \in V
      PROVE  d[<<x, y>>] = Then(c[<<x, y>>], e[<<x, y>>])
  <2>1. /\ d[<<x, y>>] = ComparePrereleases(k[x], k[y])
        /\ c[<<x, y>>] = Sign(key[x] - key[y])
        /\ key[x] = IF k[x] = <<>> THEN 1 ELSE 0
        /\ key[y] = IF k[y] = <<>> THEN 1 ELSE 0
    OBVIOUS
  <2>2. e[<<x, y>>] = SignIn(L, Padded(k[x], <<>>), Padded(k[y], <<>>))
    <3>1. e[<<x, y>>] = SignIn(L, pad[x], pad[y])
      OBVIOUS
    <3>2. pad[x] = Padded(k[x], <<>>) /\ pad[y] = Padded(k[y], <<>>)
      OBVIOUS
    <3>. HIDE DEF e, pad, L
    <3>3. QED
      BY <3>1, <3>2
  <2>. DEFINE p == k[x]
              q == k[y]
              f == Padded(p, <<>>)
              g == Padded(q, <<>>)
  <2>3. p \in Seq(I) /\ q \in Seq(I) /\ AllAlike(I)
    BY DEF AlikePrereleases
  <2>4. /\ Len(p) \in Nat /\ Len(q) \in Nat
        /\ (p = <<>> <=> Len(p) = 0) /\ (q = <<>> <=> Len(q) = 0)
    BY <2>3
  <2>5. p # <<>> /\ q # <<>> => Len(p) = Len(q)
    BY DEF AlikePrereleases
  <2>. HIDE DEF d, c, e, key, p, q
  <2>6. CASE p = <<>> /\ q = <<>>
    <3>1. ComparePrereleases(p, q) = 0
      BY <2>4, <2>6 DEF ComparePrereleases, Sign
    <3>2. c[<<x, y>>] = 0
      BY <2>1, <2>6 DEF Sign, p, q
    <3>3. f = g /\ f \in T
      <4>1. f = pad[x] /\ pad[x] \in T
        BY <1>3 DEF p
      <4>2. QED
        BY <2>6, <4>1
    <3>4. SignIn(L, f, g) = 0
      <4>. HIDE DEF L, T, f, g
      <4>1. <<f, g>> \notin L /\ <<g, f>> \notin L
        BY <1>2, <3>3 DEF StrictOrder
      <4>2. QED
        BY <4>1 DEF SignIn
    <3>5. QED
      BY <2>1, <2>2, <3>1, <3>2, <3>4 DEF Then, p, q
  <2>7. CASE p = <<>> /\ q # <<>>
    <3>1. ComparePrereleases(p, q) = 1
      BY <2>4, <2>7 DEF ComparePrereleases, Sign
    <3>2. c[<<x, y>>] = 1
      BY <2>1, <2>7 DEF Sign, p, q
    <3>3. QED
      BY <2>1, <3>1, <3>2 DEF Then, p, q
  <2>8. CASE p # <<>> /\ q = <<>>
    <3>1. ComparePrereleases(p, q) = -1
      BY <2>4, <2>8 DEF ComparePrereleases, Sign
    <3>2. c[<<x, y>>] = -1
      BY <2>1, <2>8 DEF Sign, p, q
    <3>3. QED
      BY <2>1, <3>1, <3>2 DEF Then, p, q
  <2>9. CASE p # <<>> /\ q # <<>>
    <3>1. ComparePrereleases(p, q) = SignIn(L, f, g)
      BY <2>3, <2>5, <2>9, IdentifiersCompare
    <3>2. c[<<x, y>>] = 0
      BY <2>1, <2>9 DEF Sign, p, q
    <3>3. QED
      BY <2>1, <2>2, <3>1, <3>2 DEF Then, p, q
  <2>10. QED
    BY <2>6, <2>7, <2>8, <2>9
<1>5. Comparison(c, V)
  <2>. HIDE DEF key
  <2>1. QED
    BY <1>1, NumbersAreCompared
<1>6. Comparison(e, V)
  <2>1. \A x, y \in V : e[<<x, y>>] = SignIn(L, pad[x], pad[y])
    OBVIOUS
  <2>. HIDE DEF e, pad, L, T
  <2>2. Keyed(e, V, pad, L, T)
    BY <1>3, <2>1 DEF Keyed
  <2>3. QED
    BY <1>2, <2>2, OrderOfKeys
<1>. HIDE DEF c, d, e
<1>7. Comparison(d, V)
  BY <1>4, <1>5, <1>6, ThenIsComparison
<1>8. QED
  BY <1>7 DEF d

-----------------------------------------------------------------------------
\* Versions as go-version reads them.

DotIn(s) == SelectInSeq(s, LAMBDA c : c = Dot)

LEMMA DotIs ==
    ASSUME NEW s \in Seq(Byte), DotIn(s) # 0
    PROVE  /\ SubSeq(s, 1, DotIn(s) - 1) \in Seq(Byte)
           /\ From(s, DotIn(s) + 1) \in Seq(Byte) /\ Len(From(s, DotIn(s) + 1)) < Len(s)
<1>. DEFINE I == {i \in 1 .. Len(s) : s[i] = Dot}
            dot == DotIn(s)
<1>1. dot = IF I # {} THEN Min(I) ELSE 0
  BY DEF DotIn, SelectInSeq
<1>2. Len(s) \in Nat /\ I \in SUBSET Nat /\ I # {}
  BY <1>1
<1>3. dot \in I
  <2>. HIDE DEF I, dot
  <2>1. QED
    BY <1>1, <1>2, MinIsLeast
<1>4. dot \in 1 .. Len(s) /\ dot - 1 \in 0 .. Len(s) /\ dot \in 0 .. Len(s)
  BY <1>2, <1>3
<1>. HIDE DEF dot
<1>5. /\ SubSeq(s, 1, dot - 1) \in Seq(Byte)
      /\ From(s, dot + 1) \in Seq(Byte) /\ Len(From(s, dot + 1)) = Len(s) - dot
  BY <1>4, CutIs
<1>6. Len(s) - dot < Len(s)
  BY <1>2, <1>4
<1>7. QED
  BY <1>5, <1>6 DEF dot

LEMMA FieldsType ==
    ASSUME NEW s \in Seq(Byte)
    PROVE  Fields[s] \in Seq(Seq(Byte))
<1>. DEFINE S == Seq(Byte)
            T == Seq(Seq(Byte))
            Ends == {x \in S : DotIn(x) = 0}
            size == [x \in S |-> Len(x)]
            base == [x \in S |-> <<x>>]
            First(x) == <<SubSeq(x, 1, DotIn(x) - 1)>>
            rest == [x \in S |-> From(x, DotIn(x) + 1)]
            step == [x \in S |-> [y \in T |-> First(x) \o y]]
            Body(f) == [x \in S |->
                         IF DotIn(x) = 0 THEN <<x>> ELSE First(x) \o f[From(x, DotIn(x) + 1)]]
<1>1. size \in [S -> Nat]
  OBVIOUS
<1>2. T # {}
  <2>1. <<>> \in Seq(Seq(Byte))
    OBVIOUS
  <2>2. QED
    BY <2>1
<1>3. ASSUME NEW x \in S, x \notin Ends PROVE \A y \in T : First(x) \o y \in T
  <2>1. SubSeq(x, 1, DotIn(x) - 1) \in Seq(Byte)
    BY <1>3, DotIs
  <2>2. QED
    BY <2>1
<1>4. ASSUME NEW x \in S PROVE <<x>> \in T
  OBVIOUS
<1>5. ASSUME NEW x \in S, x \notin Ends
      PROVE  rest[x] \in S /\ size[rest[x]] < size[x]
  BY <1>5, DotIs
<1>6. \A x \in S : x \in Ends => base[x] \in T
  <2>. HIDE DEF T, Ends
  <2>1. QED
    BY <1>4
<1>7. \A x \in S : x \notin Ends => step[x] \in [T -> T]
  <2>. HIDE DEF T, Ends, First
  <2>1. QED
    BY <1>3
<1>8. PICK f \in [S -> T] : Recurs(f, S, Ends, base, rest, step)
  <2>. HIDE DEF S, T, Ends, size, base, rest, step
  <2>1. QED
    BY <1>1, <1>2, <1>5, <1>6, <1>7, RecursionExists
<1>9. f = Body(f)
  <2>1. ASSUME NEW x \in S
        PROVE  (IF x \in Ends THEN base[x] ELSE step[x][f[rest[x]]]) = Body(f)[x]
    <3>1. CASE x \in Ends
      BY <3>1
    <3>2. CASE x \notin Ends
      <4>1. DotIn(x) # 0 /\ rest[x] = From(x, DotIn(x) + 1) /\ f[rest[x]] \in T
        BY <1>5, <1>8, <3>2
      <4>2. step[x][f[rest[x]]] = First(x) \o f[rest[x]]
        <5>. HIDE DEF T, rest, Ends, First
        <5>1. QED
          BY <4>1
      <4>3. Body(f)[x] = IF DotIn(x) = 0 THEN <<x>> ELSE First(x) \o f[From(x, DotIn(x) + 1)]
        OBVIOUS
      <4>. HIDE DEF base, Body, step, rest, Ends, First
      <4>4. QED
        BY <3>2, <4>1, <4>2, <4>3
    <3>3. QED
      BY <3>1, <3>2
  <2>. HIDE DEF base, rest, step, Ends, First
  <2>2. QED
    BY <1>8, <2>1 DEF Recurs
<1>10. Fields = CHOOSE g : g = Body(g)
  BY DEF Fields, DotIn
<1>11. Fields = Body(Fields)
  <2>. HIDE DEF Body
  <2>1. QED
    BY <1>9, <1>10
<1>12. ASSUME NEW x \in S
       PROVE  Fields[x] = IF x \in Ends THEN <<x>> ELSE First(x) \o Fields[rest[x]]
  <2>1. Fields[x] = Body(Fields)[x]
    <3>. HIDE DEF Body
    <3>1. QED
      BY <1>11
  <2>2. QED
    BY <2>1
<1>13. S \subseteq {x \in S : Fields[x] \in T}
  <2>. DEFINE Typed == {x \in S : Fields[x] \in T}
  <2>1. ASSUME NEW x \in S, \A y \in S : size[y] < size[x] => y \in Typed
        PROVE  x \in Typed
    <3>1. CASE x \in Ends
      <4>. HIDE DEF T, S, Ends
      <4>1. QED
        BY <1>4, <1>12, <3>1
    <3>2. CASE x \notin Ends
      <4>1. rest[x] \in Typed
        BY <1>5, <2>1, <3>2
      <4>. HIDE DEF T, S, Ends, First, rest
      <4>2. QED
        BY <1>3, <1>12, <3>2, <4>1
    <3>3. QED
      BY <3>1, <3>2
  <2>2. S \subseteq Typed
    <3>. HIDE DEF Typed, S, size
    <3>1. QED
      BY <1>1, <2>1, BySize
  <2>3. QED
    BY <2>2
<1>14. QED
  BY <1>13

LEMMA TrimType ==
    ASSUME NEW s \in Seq(Byte), NEW c
    PROVE  TrimPrefix(s, c) \in Seq(Byte)
  BY HeadTailProperties DEF TrimPrefix

LEMMA IdentifiersType ==
    ASSUME NEW s \in Seq(Byte)
    PROVE  Identifiers(s) \in Seq(Seq(Byte))
<1>. DEFINE t == IF s[1] = Dash /\ Len(s) > 1 /\ s[2] # Dot THEN Tail(s) ELSE s
<1>1. CASE s = <<>>
  BY <1>1 DEF Identifiers
<1>2. CASE s # <<>>
  <2>1. t \in Seq(Byte)
    BY <1>2, HeadTailProperties
  <2>2. Identifiers(s) = Fields[t]
    BY <1>2 DEF Identifiers
  <2>. HIDE DEF t
  <2>3. QED
    BY <2>1, <2>2, FieldsType
<1>3. QED
  BY <1>1, <1>2

LEMMA SemVerOfType ==
    ASSUME NEW parts \in Seq(Seq(Byte)), NEW pre \in Seq(Seq(Byte))
    PROVE  /\ SemVerOf(parts, pre).release \in Seq(Int)
           /\ SemVerOf(parts, pre).pre = pre
           /\ SemVerOf(parts, pre).ok => \A i \in DOMAIN pre : pre[i] # <<>>
<1>. DEFINE n == Len(parts) + (IF Len(parts) < 3 THEN 3 - Len(parts) ELSE 0)
            number(i) == IF i <= Len(parts) THEN Value(parts[i]) ELSE 0
            release == [i \in 1 .. n |-> number(i)]
<1>1. Len(parts) \in Nat /\ n \in Nat
  OBVIOUS
<1>2. ASSUME NEW i \in 1 .. n PROVE number(i) \in Int
  <2>1. CASE i <= Len(parts)
    <3>1. i \in 1 .. Len(parts)
      BY <1>1, <2>1
    <3>2. parts[i] \in Seq(Byte)
      BY <3>1
    <3>3. Value(parts[i]) \in Int
      BY <3>2, ValueType
    <3>4. QED
      BY <2>1, <3>3
  <2>2. CASE ~(i <= Len(parts))
    BY <2>2
  <2>3. QED
    BY <2>1, <2>2
<1>3. release \in Seq(Int)
  <2>. HIDE DEF n, number
  <2>1. release \in [1 .. n -> Int]
    BY <1>2
  <2>2. QED
    BY <1>1, <2>1
<1>4. SemVerOf(parts, pre).release = release /\ SemVerOf(parts, pre).pre = pre
  BY DEF SemVerOf
<1>5. SemVerOf(parts, pre).ok => \A i \in DOMAIN pre : pre[i] # <<>>
  BY DEF SemVerOf
<1>6. QED
  BY <1>3, <1>4, <1>5

LEMMA SemVerType ==
    ASSUME NEW v \in Seq(Byte)
    PROVE  /\ SemVer(v).release \in Seq(Int) /\ SemVer(v).pre \in Seq(Seq(Byte))
           /\ SemVer(v).ok => \A i \in DOMAIN SemVer(v).pre : SemVer(v).pre[i] # <<>>
<1>. DEFINE s == TrimPrefix(TrimPrefix(TrimPrefix(v, 118), 86), 118)
            core == Span(s, LAMBDA c : IsDigit(c) \/ c = Dot)
            parts == Fields[SubSeq(s, 1, core)]
            pre == Identifiers(From(s, core + 1))
<1>1. s \in Seq(Byte)
  BY TrimType
<1>. HIDE DEF s
<1>2. Prefix(core, s, CoreBytes)
  BY <1>1, SpansArePrefixes
<1>. HIDE DEF core
<1>3. SubSeq(s, 1, core) \in Seq(Byte) /\ From(s, core + 1) \in Seq(Byte)
  <2>1. core \in 0 .. Len(s)
    BY <1>2 DEF Prefix
  <2>2. QED
    BY <1>1, <2>1, CutIs
<1>4. parts \in Seq(Seq(Byte)) /\ pre \in Seq(Seq(Byte))
  BY <1>3, FieldsType, IdentifiersType
<1>5. SemVer(v) = SemVerOf(parts, pre)
  BY DEF SemVer, s, core
<1>. HIDE DEF parts, pre
<1>6. QED
  BY <1>4, <1>5, SemVerOfType

\* Sequences of one length compare equal if they are.
LEMMA EqualNumbers ==
    ASSUME NEW s \in Seq(Int), NEW t \in Seq(Int)
    PROVE  /\ s = t => CompareSeqs(s, t, 0) = 0
           /\ Len(s) = Len(t) /\ CompareSeqs(s, t, 0) = 0 => s = t
<1>. DEFINE f == Padded(s, 0)
            g == Padded(t, 0)
            L == Lex(Smaller, Int)
<1>0. 0 \in Int
  OBVIOUS
<1>1. CompareSeqs(s, t, 0) = SignIn(L, f, g)
  BY <1>0, SeqsCompare
<1>2. /\ f \in [Pos -> Int] /\ g \in [Pos -> Int]
      /\ \A i \in Pos : f[i] = IF i <= Len(s) THEN s[i] ELSE 0
      /\ \A i \in Pos : g[i] = IF i <= Len(t) THEN t[i] ELSE 0
  BY <1>0, PaddedType
<1>3. StrictOrder(L, [Pos -> Int])
  BY SmallerIsStrictOrder, LexIsStrictOrder
<1>4. s = t => f = g
  OBVIOUS
<1>. HIDE DEF f, g, L
<1>5. f = g <=> SignIn(L, f, g) = 0
  <2>1. f \in [Pos -> Int] /\ g \in [Pos -> Int]
    BY <1>2
  <2>2. f = g \/ <<f, g>> \in L \/ <<g, f>> \in L
    BY <1>3, <2>1 DEF StrictOrder
  <2>3. f = g => <<f, g>> \notin L
    BY <1>3, <2>1 DEF StrictOrder
  <2>4. QED
    BY <2>2, <2>3 DEF SignIn
<1>6. ASSUME Len(s) = Len(t), f = g PROVE s = t
  <2>1. ASSUME NEW i \in 1 .. Len(s) PROVE s[i] = t[i]
    <3>1. i \in Pos /\ i <= Len(s) /\ i <= Len(t)
      BY <1>6 DEF Pos
    <3>2. f[i] = s[i] /\ g[i] = t[i]
      BY <1>2, <3>1
    <3>3. QED
      BY <1>6, <3>2
  <2>2. QED
    BY <1>6, <2>1, SeqEqual
<1>7. QED
  BY <1>1, <1>4, <1>5, <1>6

\* Of versions that are alike the numbers decide, then the prerelease.
LEMMA AlikeCompare ==
    ASSUME NEW v \in Seq(Byte), NEW w \in Seq(Byte), Alike(SemVer(v), SemVer(w))
    PROVE  CompareSemVer(SemVer(v), SemVer(w)) =
             Then(CompareSeqs(SemVer(v).release, SemVer(w).release, 0),
                  ComparePrereleases(SemVer(v).pre, SemVer(w).pre))
<1>. DEFINE a == SemVer(v)
            b == SemVer(w)
            c == CompareSeqs(a.release, b.release, 0)
            e == ComparePrereleases(a.pre, b.pre)
<1>1. a.release \in Seq(Int) /\ b.release \in Seq(Int)
  BY SemVerType
<1>2. /\ a.release = b.release => c = 0
      /\ Len(a.release) = Len(b.release) /\ c = 0 => a.release = b.release
  <2>. HIDE DEF a, b
  <2>1. QED
    BY <1>1, EqualNumbers
<1>3. (a.pre # <<>> \/ b.pre # <<>>) => Len(a.release) = Len(b.release)
  BY DEF Alike
<1>4. CompareSemVer(a, b) = IF a.release = b.release THEN e ELSE c
  BY DEF CompareSemVer
<1>. HIDE DEF a, b, c
<1>5. CASE a.release = b.release
  <2>. HIDE DEF e
  <2>1. CompareSemVer(a, b) = Then(c, e)
    BY <1>2, <1>4, <1>5 DEF Then
  <2>2. QED
    BY <2>1 DEF a, b, c, e
<1>6. CASE a.release # b.release
  <2>1. c = 0 => e = 0
    <3>. SUFFICES ASSUME c = 0 PROVE e = 0
      OBVIOUS
    <3>1. a.pre = <<>> /\ b.pre = <<>>
      BY <1>2, <1>3, <1>6
    <3>2. e = Sign(Len(b.pre) - Len(a.pre))
      BY <3>1 DEF ComparePrereleases
    <3>3. QED
      BY <3>1, <3>2 DEF Sign
  <2>. HIDE DEF e
  <2>2. CompareSemVer(a, b) = Then(c, e)
    BY <1>4, <1>6, <2>1 DEF Then
  <2>3. QED
    BY <2>2 DEF a, b, c, e
<1>7. QED
  BY <1>5, <1>6

\* The SemVer versions of V, any two of which are alike.
AlikeVersions(V) ==
    /\ \A v \in V : ~IsDebian(v) /\ SemVer(v).ok
    /\ \A v, w \in V : Alike(SemVer(v), SemVer(w))

LEMMA SemVerComparison ==
    ASSUME NEW V \in SUBSET Seq(Byte), AlikeVersions(V)
    PROVE  Comparison(Comparing(V), V)
<1>. DEFINE k == [v \in V |-> SemVer(v).release]
            l == [v \in V |-> SemVer(v).pre]
            I == {x \in Seq(Byte) : \E v \in V : \E i \in DOMAIN SemVer(v).pre : x = SemVer(v).pre[i]}
            c == [p \in V \X V |-> CompareSeqs(k[p[1]], k[p[2]], 0)]
            e == [p \in V \X V |-> ComparePrereleases(l[p[1]], l[p[2]])]
<1>1. ASSUME NEW v \in V
      PROVE  /\ SemVer(v).release \in Seq(Int) /\ SemVer(v).pre \in Seq(Seq(Byte))
             /\ \A i \in DOMAIN SemVer(v).pre : SemVer(v).pre[i] # <<>>
  BY SemVerType DEF AlikeVersions
<1>2. k \in [V -> Seq(Int)]
  BY <1>1
<1>3. AllAlike(I)
  <2>1. I \subseteq Seq(Byte) /\ <<>> \notin I
    BY <1>1
  <2>2. ASSUME NEW x \in I, NEW y \in I PROVE AlikeIdentifiers(x, y)
    <3>1. PICK v \in V : \E i \in DOMAIN SemVer(v).pre : x = SemVer(v).pre[i]
      OBVIOUS
    <3>2. PICK i \in DOMAIN SemVer(v).pre : x = SemVer(v).pre[i]
      BY <3>1
    <3>3. PICK w \in V : \E j \in DOMAIN SemVer(w).pre : y = SemVer(w).pre[j]
      OBVIOUS
    <3>4. PICK j \in DOMAIN SemVer(w).pre : y = SemVer(w).pre[j]
      BY <3>3
    <3>5. Alike(SemVer(v), SemVer(w))
      BY DEF AlikeVersions
    <3>6. QED
      BY <3>2, <3>4, <3>5 DEF Alike
  <2>. HIDE DEF I
  <2>3. QED
    BY <2>1, <2>2 DEF AllAlike
<1>4. AlikePrereleases(V, l, I)
  <2>1. ASSUME NEW v \in V PROVE SemVer(v).pre \in Seq(I)
    <3>. DEFINE pre == SemVer(v).pre
    <3>1. pre \in Seq(Seq(Byte))
      BY <1>1
    <3>2. \A i \in DOMAIN pre : pre[i] \in I
      BY <3>1
    <3>. HIDE DEF pre, I
    <3>3. Len(pre) \in Nat /\ DOMAIN pre = 1 .. Len(pre) /\ pre \in [1 .. Len(pre) -> Seq(Byte)]
      BY <3>1
    <3>4. pre \in [1 .. Len(pre) -> I]
      BY <3>2, <3>3
    <3>5. QED
      BY <3>3, <3>4 DEF pre
  <2>2. l \in [V -> Seq(I)]
    <3>. HIDE DEF I
    <3>1. QED
      BY <2>1
  <2>3. ASSUME NEW x \in V, NEW y \in V, l[x] # <<>>, l[y] # <<>> PROVE Len(l[x]) = Len(l[y])
    <3>1. Alike(SemVer(x), SemVer(y)) /\ l[x] = SemVer(x).pre /\ l[y] = SemVer(y).pre
      BY DEF AlikeVersions
    <3>2. QED
      BY <2>3, <3>1 DEF Alike
  <2>. HIDE DEF I, l
  <2>4. QED
    BY <1>3, <2>2, <2>3 DEF AlikePrereleases
<1>5. ASSUME NEW x \in V, NEW y \in V
      PROVE  Comparing(V)[<<x, y>>] = Then(c[<<x, y>>], e[<<x, y>>])
  <2>1. Compare(x, y) = CompareSemVer(SemVer(x), SemVer(y))
    BY DEF Compare, CompareParsed, AlikeVersions
  <2>2. c[<<x, y>>] = CompareSeqs(SemVer(x).release, SemVer(y).release, 0)
    OBVIOUS
  <2>3. e[<<x, y>>] = ComparePrereleases(SemVer(x).pre, SemVer(y).pre)
    OBVIOUS
  <2>4. x \in Seq(Byte) /\ y \in Seq(Byte) /\ Alike(SemVer(x), SemVer(y))
    BY DEF AlikeVersions
  <2>. HIDE DEF c, e
  <2>5. QED
    BY <2>1, <2>2, <2>3, <2>4, ComparingIs, AlikeCompare
<1>. HIDE DEF k, l, I
<1>6. Comparison(c, V)
  BY <1>2, SequencesAreCompared, 0 \in Int
<1>7. Comparison(e, V)
  BY <1>4, PrereleaseComparison
<1>. HIDE DEF c, e
<1>8. QED
  BY <1>5, <1>6, <1>7, ThenIsComparison

LEMMA PlainComparison ==
    ASSUME NEW V \in SUBSET Seq(Byte), \A v \in V : ~IsDebian(v) /\ ~SemVer(v).ok
    PROVE  Comparison(Comparing(V), V)
<1>. DEFINE k == [v \in V |-> v]
            c == [p \in V \X V |-> CompareStrings(k[p[1]], k[p[2]])]
<1>1. k \in [V -> Seq(Byte)]
  OBVIOUS
<1>2. Comparison(c, V)
  <2>. HIDE DEF k
  <2>1. QED
    BY <1>1, StringComparison
<1>3. ASSUME NEW x \in V, NEW y \in V
      PROVE  Comparing(V)[<<x, y>>] = c[<<x, y>>]
  <2>1. c[<<x, y>>] = CompareStrings(x, y)
    OBVIOUS
  <2>2. Compare(x, y) = CompareStrings(x, y)
    BY DEF Compare, CompareParsed
  <2>. HIDE DEF c
  <2>3. QED
    BY <2>1, <2>2, ComparingIs
<1>. HIDE DEF c
<1>4. QED
  BY <1>2, <1>3, SameComparison

\* Among the versions of a uniform set - all Debian's, all strings, or all of
\* SemVer with as many numbers and identifiers - Compare answers like a total
\* preorder: turning its arguments round turns its answer round, and it is
\* transitive, so a sort by it has one outcome up to equal versions.
THEOREM CompareIsPreorder ==
    \A V \in SUBSET Seq(Byte) :
      Uniform(V) =>
        /\ \A v, w \in V : Compare(v, w) \in {-1, 0, 1} /\ Compare(v, w) = 0 - Compare(w, v)
        /\ \A u, v, w \in V : Compare(u, v) <= 0 /\ Compare(v, w) <= 0 => Compare(u, w) <= 0
<1>. SUFFICES ASSUME NEW V \in SUBSET Seq(Byte), Uniform(V)
              PROVE  /\ \A v, w \in V : Compare(v, w) \in {-1, 0, 1} /\ Compare(v, w) = 0 - Compare(w, v)
                     /\ \A u, v, w \in V : Compare(u, v) <= 0 /\ Compare(v, w) <= 0 => Compare(u, w) <= 0
  OBVIOUS
<1>1. Comparison(Comparing(V), V)
  <2>0. \A v, w \in V : Kind(v) = Kind(w) /\ (Kind(v) = "semver" => Alike(SemVer(v), SemVer(w)))
    BY DEF Uniform
  <2>1. \A v \in V : /\ IsDebian(v) <=> Kind(v) = "debian"
                     /\ ~IsDebian(v) => (SemVer(v).ok <=> Kind(v) = "semver")
    BY DEF Kind
  <2>2. CASE \A v \in V : IsDebian(v)
    BY <2>2, DebianComparison
  <2>3. CASE \E v \in V : ~IsDebian(v)
    <3>1. PICK w \in V : ~IsDebian(w)
      BY <2>3
    <3>2. \A v \in V : ~IsDebian(v)
      BY <2>0, <2>1, <3>1
    <3>3. CASE SemVer(w).ok
      <4>1. \A v \in V : SemVer(v).ok /\ Kind(v) = "semver"
        BY <2>0, <2>1, <3>1, <3>2, <3>3
      <4>2. AlikeVersions(V)
        BY <2>0, <3>2, <4>1 DEF AlikeVersions
      <4>3. QED
        BY <4>2, SemVerComparison
    <3>4. CASE ~SemVer(w).ok
      <4>1. \A v \in V : ~SemVer(v).ok
        BY <2>0, <2>1, <3>1, <3>2, <3>4
      <4>2. QED
        BY <3>2, <4>1, PlainComparison
    <3>5. QED
      BY <3>3, <3>4
  <2>4. QED
    BY <2>2, <2>3
<1>2. \A x, y \in V : Comparing(V)[<<x, y>>] = Compare(x, y)
  BY ComparingIs
<1>. DEFINE c == Comparing(V)
<1>3. /\ \A x, y \in V : c[<<x, y>>] \in Signs /\ c[<<x, y>>] = 0 - c[<<y, x>>]
      /\ \A x, y, z \in V : c[<<x, y>>] <= 0 /\ c[<<y, z>>] <= 0 => c[<<x, z>>] <= 0
  BY <1>1 DEF Comparison
<1>4. \A x, y \in V : c[<<x, y>>] = Compare(x, y)
  BY <1>2
<1>. HIDE DEF c
<1>5. ASSUME NEW v \in V, NEW w \in V
      PROVE  Compare(v, w) \in {-1, 0, 1} /\ Compare(v, w) = 0 - Compare(w, v)
  <2>1. c[<<v, w>>] = Compare(v, w) /\ c[<<w, v>>] = Compare(w, v)
    BY <1>4
  <2>2. c[<<v, w>>] \in Signs /\ c[<<v, w>>] = 0 - c[<<w, v>>]
    BY <1>3
  <2>3. QED
    BY <2>1, <2>2 DEF Signs
<1>6. ASSUME NEW u \in V, NEW v \in V, NEW w \in V, Compare(u, v) <= 0, Compare(v, w) <= 0
      PROVE  Compare(u, w) <= 0
  <2>1. c[<<u, v>>] = Compare(u, v) /\ c[<<v, w>>] = Compare(v, w) /\ c[<<u, w>>] = Compare(u, w)
    BY <1>4
  <2>2. c[<<u, v>>] <= 0 /\ c[<<v, w>>] <= 0
    BY <1>6, <2>1
  <2>3. c[<<u, w>>] <= 0
    BY <1>3, <2>2
  <2>4. QED
    BY <2>1, <2>3
<1>7. QED
  BY <1>5, <1>6

-----------------------------------------------------------------------------
\* The candidates in the order of the alphabet.

\* f lists the n elements of S upwards.
Ascends(f, n, S, R) ==
    /\ f \in [1 .. n -> S]
    /\ \A i, j \in 1 .. n : i < j => <<f[i], f[j]>> \in R
    /\ \A x \in S : \E i \in 1 .. n : f[i] = x

\* What is above all that f lists comes next.
LEMMA AscendsFurther ==
    ASSUME NEW n \in Nat, NEW S, NEW R, NEW f, Ascends(f, n, S, R),
           NEW x, \A y \in S : <<y, x>> \in R
    PROVE  \E g : Ascends(g, n + 1, S \cup {x}, R)
<1>. DEFINE g == [i \in 1 .. n + 1 |-> IF i = n + 1 THEN x ELSE f[i]]
<1>1. f \in [1 .. n -> S] /\ (\A i, j \in 1 .. n : i < j => <<f[i], f[j]>> \in R)
      /\ \A y \in S : \E i \in 1 .. n : f[i] = y
  BY DEF Ascends
<1>2. \A i \in 1 .. n + 1 : i = n + 1 \/ i \in 1 .. n
  OBVIOUS
<1>3. g \in [1 .. n + 1 -> S \cup {x}]
  BY <1>1, <1>2
<1>4. /\ \A i \in 1 .. n : i \in 1 .. n + 1 /\ g[i] = f[i]
      /\ n + 1 \in 1 .. n + 1 /\ g[n + 1] = x
  OBVIOUS
<1>. HIDE DEF g
<1>5. ASSUME NEW i \in 1 .. n + 1, NEW j \in 1 .. n + 1, i < j
      PROVE  <<g[i], g[j]>> \in R
  <2>1. i \in 1 .. n
    BY <1>5
  <2>2. g[i] = f[i] /\ f[i] \in S
    BY <1>1, <1>4, <2>1
  <2>3. CASE j = n + 1
    BY <1>4, <2>2, <2>3
  <2>4. CASE j \in 1 .. n
    BY <1>1, <1>4, <1>5, <2>1, <2>2, <2>4
  <2>5. QED
    BY <1>2, <2>3, <2>4
<1>6. \A y \in S \cup {x} : \E i \in 1 .. n + 1 : g[i] = y
  BY <1>1, <1>4
<1>7. Ascends(g, n + 1, S \cup {x}, R)
  BY <1>3, <1>5, <1>6 DEF Ascends
<1>8. QED
  BY <1>7

LEMMA AscendingExists ==
    ASSUME NEW T, NEW R, StrictOrder(R, T), NEW V \in SUBSET T, IsFiniteSet(V)
    PROVE  \E f : Ascends(f, Cardinality(V), V, R)
<1>. DEFINE Good == {n \in Nat : \A S \in SUBSET T :
                       IsFiniteSet(S) /\ Cardinality(S) = n => \E f : Ascends(f, n, S, R)}
<1>1. 0 \in Good
  <2>1. ASSUME NEW S \in SUBSET T, IsFiniteSet(S), Cardinality(S) = 0
        PROVE  \E f : Ascends(f, 0, S, R)
    <3>1. S = {}
      BY <2>1, FS_EmptySet
    <3>2. Ascends(<<>>, 0, {}, R)
      BY DEF Ascends
    <3>3. QED
      BY <3>1, <3>2
  <2>2. QED
    BY <2>1
<1>2. ASSUME NEW n \in Nat, n \in Good PROVE n + 1 \in Good
  <2>1. ASSUME NEW S \in SUBSET T, IsFiniteSet(S), Cardinality(S) = n
        PROVE  \E f : Ascends(f, n, S, R)
    BY <1>2, <2>1
  <2>. HIDE DEF Good
  <2>2. ASSUME NEW S \in SUBSET T, IsFiniteSet(S), Cardinality(S) = n + 1
        PROVE  \E f : Ascends(f, n + 1, S, R)
    <3>1. ASSUME NEW x \in S
          PROVE  IsFiniteSet(S \ {x}) /\ Cardinality(S \ {x}) = n /\ (S \ {x}) \cup {x} = S
      <4>1. IsFiniteSet(S \ {x}) /\ Cardinality(S \ {x}) = Cardinality(S) - 1
        BY <2>2, FS_RemoveElement
      <4>2. (S \ {x}) \cup {x} = S
        OBVIOUS
      <4>3. QED
        BY <2>2, <4>1, <4>2
    <3>2. PICK x \in S : TRUE
      BY <2>2, FS_EmptySet
    <3>3. PICK f : Ascends(f, n, S \ {x}, R)
      BY <2>1, <3>1
    \* Something in S is above the rest.
    <3>4. \E m \in S : \A y \in S \ {m} : <<y, m>> \in R
      <4>1. CASE \A y \in S \ {x} : <<y, x>> \in R
        BY <4>1
      <4>2. CASE \E y \in S \ {x} : <<y, x>> \notin R
        <5>1. PICK y \in S \ {x} : <<y, x>> \notin R
          BY <4>2
        <5>2. <<x, y>> \in R
          BY <5>1 DEF StrictOrder
        <5>3. n \in 1 .. n /\ \E i \in 1 .. n : f[i] = y
          BY <3>3 DEF Ascends
        <5>4. f[n] \in S \ {x} /\ \A i \in 1 .. n : f[i] = f[n] \/ <<f[i], f[n]>> \in R
          <6>1. \A i \in 1 .. n : i = n \/ i < n
            OBVIOUS
          <6>2. QED
            BY <3>3, <5>3, <6>1 DEF Ascends
        <5>5. y = f[n] \/ <<y, f[n]>> \in R
          BY <5>3, <5>4
        <5>6. <<x, f[n]>> \in R
          BY <5>2, <5>4, <5>5 DEF StrictOrder
        <5>7. ASSUME NEW z \in S \ {f[n]} PROVE <<z, f[n]>> \in R
          <6>1. z = x \/ \E i \in 1 .. n : f[i] = z
            BY <3>3 DEF Ascends
          <6>2. QED
            BY <5>4, <5>6, <6>1
        <5>8. QED
          BY <5>4, <5>7
      <4>3. QED
        BY <4>1, <4>2
    <3>5. PICK m \in S : \A y \in S \ {m} : <<y, m>> \in R
      BY <3>4
    <3>6. PICK g : Ascends(g, n, S \ {m}, R)
      BY <2>1, <3>1
    <3>7. \E h : Ascends(h, n + 1, (S \ {m}) \cup {m}, R)
      BY <3>5, <3>6, AscendsFurther
    <3>8. QED
      BY <3>1, <3>7
  <2>3. QED
    BY <2>2 DEF Good
<1>3. Cardinality(V) \in Nat
  BY FS_CardinalityType
<1>4. \A n \in 0 .. Cardinality(V) : n \in Good
  <2>. HIDE DEF Good
  <2>1. \A n \in 0 .. Cardinality(V) - 1 : n \in Good => n + 1 \in Good
    BY <1>2
  <2>2. QED
    BY <1>1, <1>3, <2>1, Climb
<1>5. Cardinality(V) \in Good
  <2>. HIDE DEF Good
  <2>1. Cardinality(V) \in 0 .. Cardinality(V)
    BY <1>3
  <2>2. QED
    BY <1>4, <2>1
<1>6. QED
  BY <1>5

LEMMA ListedAscends ==
    ASSUME NEW V \in SUBSET Seq(Byte), IsFiniteSet(V)
    PROVE  /\ Listed(V) \in Seq(V) /\ Len(Listed(V)) = Cardinality(V)
           /\ \A i, j \in 1 .. Len(Listed(V)) :
                i < j => CompareStrings(Listed(V)[i], Listed(V)[j]) < 0
           /\ \A v \in V : \E i \in 1 .. Len(Listed(V)) : Listed(V)[i] = v
<1>. DEFINE n == Cardinality(V)
            Fits(s) == \A i, j \in DOMAIN s : i < j => CompareStrings(s[i], s[j]) < 0
            Seqs == SetToSeqs(V)
<1>1. n \in Nat
  BY FS_CardinalityType
<1>2. PICK f : Ascends(f, n, V, Alphabet)
  BY AlphabetIsStrictOrder, AscendingExists
<1>3. Seqs = {s \in [1 .. n -> V] : \A i, j \in 1 .. n : i # j => s[i] # s[j]}
  BY DEF SetToSeqs
<1>. HIDE DEF n, Seqs
<1>4. f \in Seqs /\ Fits(f)
  <2>1. f \in [1 .. n -> V] /\ DOMAIN f = 1 .. n
    BY <1>2 DEF Ascends
  <2>2. \A i, j \in 1 .. n : i < j => <<f[i], f[j]>> \in Alphabet
    BY <1>2 DEF Ascends
  <2>3. ASSUME NEW i \in 1 .. n, NEW j \in 1 .. n, i # j PROVE f[i] # f[j]
    <3>1. f[i] \in Seq(Byte) /\ f[j] \in Seq(Byte)
      BY <2>1
    <3>2. i < j \/ j < i
      BY <2>3
    <3>3. <<f[i], f[j]>> \in Alphabet \/ <<f[j], f[i]>> \in Alphabet
      BY <2>2, <3>2
    <3>4. QED
      BY <3>1, <3>3, AlphabetIsStrictOrder DEF StrictOrder
  <2>4. \A i, j \in 1 .. n : i < j => CompareStrings(f[i], f[j]) < 0
    BY <2>1, <2>2, AlphabetIsStrictOrder
  <2>5. QED
    BY <1>3, <2>1, <2>3, <2>4
<1>5. Listed(V) = CHOOSE s \in Seqs : Fits(s)
  BY DEF Listed, Seqs
<1>. DEFINE s == Listed(V)
<1>6. s \in Seqs /\ Fits(s)
  <2>. HIDE DEF Fits
  <2>1. QED
    BY <1>4, <1>5
<1>. HIDE DEF s
<1>7. s \in [1 .. n -> V] /\ \A i, j \in 1 .. n : i # j => s[i] # s[j]
  BY <1>3, <1>6
<1>8. s \in Seq(V) /\ Len(s) = n /\ DOMAIN s = 1 .. n
  BY <1>1, <1>7
<1>9. \A v \in V : \E i \in 1 .. n : s[i] = v
  <2>1. IsFiniteSet(1 .. n) /\ Cardinality(1 .. n) = n
    BY <1>1, FS_Interval
  <2>2. s \in Injection(1 .. n, V)
    BY <1>7 DEF Injection, IsInjective
  <2>3. s \in Surjection(1 .. n, V)
    BY <2>1, <2>2, FS_Injection DEF n
  <2>4. QED
    BY <2>3 DEF Surjection
<1>10. QED
  BY <1>6, <1>8, <1>9 DEF s, n

-----------------------------------------------------------------------------
\* The candidates sorted: what is inserted goes behind the last that is not
\* older.

Insert(x, v) ==
    LET I == {i \in 1 .. Len(x) : Compare(x[i], v) >= 0}
    IN InsertAt(x, 1 + (IF I # {} THEN Max(I) ELSE 0), v)

\* What z is after v is inserted in x.
Inserted(z, x, v, B) ==
    /\ z \in Seq(B) /\ Len(z) = Len(x) + 1
    /\ z[1] = IF \E i \in 1 .. Len(x) : Compare(x[i], v) >= 0 THEN x[1] ELSE v
    /\ \A i \in 1 .. Len(x) + 1 : z[i] = v \/ \E j \in 1 .. Len(x) : z[i] = x[j]

LEMMA InsertIs ==
    ASSUME NEW B, NEW x \in Seq(B), NEW v \in B
    PROVE  Inserted(Insert(x, v), x, v, B)
<1>. DEFINE I == {i \in 1 .. Len(x) : Compare(x[i], v) >= 0}
            at == 1 + (IF I # {} THEN Max(I) ELSE 0)
            left == SubSeq(x, 1, at - 1)
            right == SubSeq(x, at, Len(x))
<1>1. Insert(x, v) = left \o <<v>> \o right
  BY DEF Insert, InsertAt
<1>2. Len(x) \in Nat /\ I \in SUBSET (0 .. Len(x)) /\ I \in SUBSET (1 .. Len(x))
  OBVIOUS
<1>3. at \in 1 .. Len(x) + 1 /\ (at = 1 <=> I = {})
  <2>1. CASE I = {}
    BY <1>2, <2>1
  <2>2. CASE I # {}
    <3>1. Max(I) \in I
      <4>. DEFINE N == Len(x)
      <4>1. N \in Nat /\ I \in SUBSET (0 .. N)
        BY <1>2
      <4>. HIDE DEF I, N
      <4>2. QED
        BY <2>2, <4>1, MaxIsGreatest
    <3>. DEFINE m == Max(I)
    <3>2. m \in 1 .. Len(x)
      BY <1>2, <3>1
    <3>3. at = 1 + m
      BY <2>2
    <3>4. at \in 1 .. Len(x) + 1 /\ at # 1
      <4>. HIDE DEF I, m, at
      <4>1. QED
        BY <1>2, <3>2, <3>3
    <3>. HIDE DEF I, m, at
    <3>5. QED
      BY <2>2, <3>4
  <2>3. QED
    BY <2>1, <2>2
<1>4. I # {} <=> \E i \in 1 .. Len(x) : Compare(x[i], v) >= 0
  OBVIOUS
<1>. HIDE DEF I, at
<1>5. /\ left \in Seq(B) /\ Len(left) = at - 1 /\ \A i \in 1 .. at - 1 : left[i] = x[i]
      /\ right \in Seq(B) /\ Len(right) = Len(x) - at + 1
      /\ \A i \in 1 .. Len(x) - at + 1 : right[i] = x[at + i - 1]
  BY <1>2, <1>3
<1>. HIDE DEF left, right
<1>. DEFINE z == left \o <<v>> \o right
<1>6. z \in Seq(B) /\ Len(z) = Len(x) + 1
  <2>1. <<v>> \in Seq(B) /\ Len(<<v>>) = 1
    OBVIOUS
  <2>2. left \o <<v>> \in Seq(B) /\ Len(left \o <<v>>) = at
    BY <1>2, <1>3, <1>5, <2>1
  <2>. DEFINE p == left \o <<v>>
  <2>3. z = p \o right
    BY Zenon
  <2>. HIDE DEF z
  <2>4. p \in Seq(B) /\ Len(p) = at
    BY <2>2, Zenon
  <2>. HIDE DEF p
  <2>5. z \in Seq(B) /\ Len(z) = Len(p) + Len(right)
    <3>1. p \in Seq(B) /\ right \in Seq(B)
      BY <1>5, <2>4
    <3>2. p \o right \in Seq(B) /\ Len(p \o right) = Len(p) + Len(right)
      BY <3>1, ConcatProperties
    <3>3. QED
      BY <2>3, <3>2
  <2>6. QED
    BY <1>2, <1>3, <1>5, <2>4, <2>5
<1>7. ASSUME NEW i \in 1 .. Len(x) + 1
      PROVE  /\ i < at => z[i] = x[i]
             /\ i = at => z[i] = v
             /\ i > at => z[i] = x[i - 1]
  <2>1. i \in Int /\ at \in Int /\ Len(x) \in Int
    BY <1>2, <1>3
  <2>2. ASSUME i < at PROVE z[i] = x[i]
    BY <1>2, <1>3, <1>5, <2>2
  <2>3. ASSUME i = at PROVE z[i] = v
    BY <1>2, <1>3, <1>5, <2>3
  <2>4. ASSUME i > at PROVE z[i] = x[i - 1]
    <3>1. z[i] = right[i - at]
      BY <1>2, <1>3, <1>5, <2>1, <2>4
    <3>. DEFINE j == i - at
    <3>2. j \in 1 .. Len(x) - at + 1 /\ at + j - 1 = i - 1
      BY <1>2, <1>3, <2>1, <2>4
    <3>3. right[j] = x[at + j - 1]
      <4>. HIDE DEF j
      <4>1. QED
        BY <1>5, <3>2
    <3>4. QED
      <4>1. x[at + j - 1] = x[i - 1]
        <5>. HIDE DEF j
        <5>1. QED
          BY <3>2
      <4>2. QED
        BY <3>1, <3>3, <4>1
  <2>5. QED
    BY <2>2, <2>3, <2>4
<1>. HIDE DEF z
<1>8. z[1] = IF I # {} THEN x[1] ELSE v
  <2>1. 1 \in 1 .. Len(x) + 1
    BY <1>2
  <2>2. (1 < at => z[1] = x[1]) /\ (1 = at => z[1] = v)
    BY <1>7, <2>1
  <2>3. CASE I = {}
    BY <1>3, <2>2, <2>3
  <2>4. CASE I # {}
    <3>1. Len(x) \in Nat /\ at \in 1 .. Len(x) + 1 /\ at # 1
      BY <1>2, <1>3, <2>4
    <3>2. 1 < at
      BY <3>1
    <3>3. QED
      BY <2>2, <2>4, <3>2
  <2>5. QED
    BY <2>3, <2>4
<1>9. ASSUME NEW i \in 1 .. Len(x) + 1
      PROVE  z[i] = v \/ \E j \in 1 .. Len(x) : z[i] = x[j]
  BY <1>2, <1>3, <1>7
<1>10. Inserted(z, x, v, B)
  BY <1>4, <1>6, <1>8, <1>9 DEF Inserted
<1>11. QED
  BY <1>1, <1>10 DEF z

\* How Sorted inserts the elements of s.
Inserting(h, s) ==
    /\ h[0] = <<>>
    /\ \A k \in 1 .. Len(s) : h[k] = Insert(h[k - 1], s[k])

LEMMA SortedIs ==
    ASSUME NEW s \in Seq(Seq(Byte))
    PROVE  \E h : Inserting(h, s) /\ Sorted(s) = h[Len(s)]
<1>. DEFINE n == Len(s)
            T == Seq(Seq(Byte))
            step == [i \in 1 .. n |-> [x \in T |-> Insert(x, s[i])]]
            Body(g) == [S \in SUBSET (1 .. n) |->
                          IF S = {} THEN <<>> ELSE Insert(g[S \ {Max(S)}], s[Max(S)])]
            iter[S \in SUBSET (1 .. n)] ==
              IF S = {} THEN <<>> ELSE Insert(iter[S \ {Max(S)}], s[Max(S)])
            h == [k \in 0 .. n |-> iter[1 .. k]]
<1>1. n \in Nat /\ DOMAIN s = 1 .. n /\ \A i \in 1 .. n : s[i] \in Seq(Byte)
  <2>. HIDE DEF step, Body, iter, h
  <2>1. QED
    OBVIOUS
<1>2. Sorted(s) = iter[1 .. n]
  BY <1>1 DEF Sorted, FoldLeft, MapThenFoldSet, SelectLastInSeq, Insert
<1>3. iter = Body(iter)
  <2>1. \A i \in 1 .. n : step[i] \in [T -> T]
    <3>1. ASSUME NEW i \in 1 .. n, NEW x \in T PROVE Insert(x, s[i]) \in T
      <4>. DEFINE B == Seq(Byte)
      <4>1. s[i] \in B /\ x \in Seq(B)
        BY <1>1
      <4>2. Insert(x, s[i]) \in Seq(B)
        <5>. HIDE DEF B
        <5>1. QED
          BY <4>1, InsertIs DEF Inserted
      <4>3. QED
        BY <4>2
    <3>2. QED
      BY <3>1
  <2>2. PICK g \in [SUBSET (1 .. n) -> T] : Folds(g, n, <<>>, step)
    <3>1. <<>> \in T
      OBVIOUS
    <3>. HIDE DEF step, T, n, iter, h, Body
    <3>2. QED
      BY <1>1, <2>1, <3>1, FoldExists
  <2>3. ASSUME NEW S \in SUBSET (1 .. n), S # {}
        PROVE  Max(S) \in 1 .. n /\ S \ {Max(S)} \in SUBSET (1 .. n)
    <3>1. S \in SUBSET (0 .. n)
      OBVIOUS
    <3>2. QED
      <4>. HIDE DEF n
      <4>1. QED
        BY <1>1, <2>3, <3>1, MaxIsGreatest
  <2>4. g = Body(g)
    <3>1. ASSUME NEW S \in SUBSET (1 .. n)
          PROVE  (IF S = {} THEN <<>> ELSE step[Max(S)][g[S \ {Max(S)}]]) = Body(g)[S]
      <4>. HIDE DEF iter, h, T
      <4>1. QED
        BY <2>2, <2>3
    <3>2. QED
      BY <2>2, <3>1 DEF Folds
  <2>5. QED
    BY <2>4
<1>. HIDE DEF iter, step, T
<1>4. h[0] = <<>>
  BY <1>1, <1>3, 1 .. 0 = {}
<1>5. ASSUME NEW k \in 1 .. n
      PROVE  h[k] = Insert(h[k - 1], s[k])
  <2>1. 1 .. k \in SUBSET (1 .. n) /\ k \in Nat \ {0} /\ k \in 0 .. n /\ k - 1 \in 0 .. n
    BY <1>1
  <2>2. 1 .. k # {} /\ Max(1 .. k) = k /\ (1 .. k) \ {k} = 1 .. k - 1
    BY <2>1, FoldSteps
  <2>. HIDE DEF n, h
  <2>3. iter[1 .. k] = Insert(iter[1 .. k - 1], s[k])
    BY <1>3, <2>1, <2>2
  <2>4. QED
    BY <2>1, <2>3 DEF h
<1>6. h[n] = iter[1 .. n]
  BY <1>1
<1>7. Inserting(h, s) /\ Sorted(s) = h[n]
  <2>. HIDE DEF h
  <2>1. QED
    BY <1>2, <1>4, <1>5, <1>6 DEF Inserting
<1>8. QED
  BY <1>7

\* What sorting brings to the front: nothing exceeds it, and what compares equal
\* to it stood behind it.
LEMMA FirstOfSorted ==
    ASSUME NEW s \in Seq(Seq(Byte)), s # <<>>,
           Uniform({s[i] : i \in 1 .. Len(s)})
    PROVE  \E j \in 1 .. Len(s) :
             /\ Sorted(s)[1] = s[j]
             /\ \A i \in 1 .. Len(s) :
                  Compare(s[i], s[j]) <= 0 /\ (i < j => Compare(s[i], s[j]) < 0)
<1>. DEFINE n == Len(s)
            V == {s[i] : i \in 1 .. n}
<1>1. n \in Nat /\ n > 0 /\ \A i \in 1 .. n : s[i] \in Seq(Byte) /\ s[i] \in V
  OBVIOUS
<1>2. /\ \A v, w \in V : Compare(v, w) \in {-1, 0, 1} /\ Compare(v, w) = 0 - Compare(w, v)
      /\ \A u, v, w \in V : Compare(u, v) <= 0 /\ Compare(v, w) <= 0 => Compare(u, w) <= 0
  <2>1. V \in SUBSET Seq(Byte) /\ Uniform(V)
    BY <1>1
  <2>. HIDE DEF V
  <2>2. QED
    BY <2>1, CompareIsPreorder
<1>. HIDE DEF n, V
<1>3. PICK h : Inserting(h, s) /\ Sorted(s) = h[n]
  BY SortedIs DEF n
<1>. DEFINE Top(k, j) ==
              /\ h[k][1] = s[j]
              /\ \A i \in 1 .. k : Compare(s[i], s[j]) <= 0 /\ (i < j => Compare(s[i], s[j]) < 0)
            Good == {k \in 0 .. n :
                       /\ h[k] \in Seq(V) /\ Len(h[k]) = k
                       /\ \A i \in 1 .. k : \E j \in 1 .. k : h[k][i] = s[j]
                       /\ k > 0 => \E j \in 1 .. k : Top(k, j)}
<1>4. 0 \in Good
  <2>1. h[0] = <<>>
    BY <1>3 DEF Inserting
  <2>2. <<>> \in Seq(V) /\ Len(<<>>) = 0
    OBVIOUS
  <2>3. h[0] \in Seq(V) /\ Len(h[0]) = 0
    BY <2>1, <2>2
  <2>4. 0 \in 0 .. n /\ 1 .. 0 = {} /\ ~(0 > 0)
    BY <1>1
  <2>. HIDE DEF Top
  <2>5. QED
    BY <2>3, <2>4
<1>5. ASSUME NEW k \in 0 .. n - 1, k \in Good PROVE k + 1 \in Good
  <2>. DEFINE x == h[k]
              m == k + 1
              v == s[m]
  <2>1. m \in 1 .. n /\ m - 1 = k /\ k \in Nat /\ v \in V
    BY <1>1
  <2>2. h[m] = Insert(x, v)
    BY <1>3, <2>1 DEF Inserting, n
  <2>3. /\ x \in Seq(V) /\ Len(x) = k
        /\ \A i \in 1 .. k : \E j \in 1 .. k : x[i] = s[j]
        /\ k > 0 => \E j \in 1 .. k : Top(k, j)
    BY <1>5
  <2>4. /\ h[m] \in Seq(V) /\ Len(h[m]) = k + 1
        /\ h[m][1] = IF \E i \in 1 .. k : Compare(x[i], v) >= 0 THEN x[1] ELSE v
        /\ \A i \in 1 .. k + 1 : h[m][i] = v \/ \E j \in 1 .. k : h[m][i] = x[j]
    <3>. DEFINE z == Insert(x, v)
    <3>1. x \in Seq(V) /\ v \in V /\ Len(x) = k
      BY <2>1, <2>3
    <3>2. z = h[m]
      BY <2>2
    <3>3. /\ z \in Seq(V) /\ Len(z) = Len(x) + 1
          /\ z[1] = IF \E i \in 1 .. Len(x) : Compare(x[i], v) >= 0 THEN x[1] ELSE v
          /\ \A i \in 1 .. Len(x) + 1 : z[i] = v \/ \E j \in 1 .. Len(x) : z[i] = x[j]
      <4>. HIDE DEF x, v
      <4>1. Inserted(z, x, v, V)
        BY <3>1, InsertIs
      <4>2. QED
        BY <4>1 DEF Inserted
    <3>. HIDE DEF x, v, m, z
    <3>4. QED
      BY <3>1, <3>2, <3>3
  <2>5. ASSUME NEW i \in 1 .. m PROVE \E j \in 1 .. m : h[m][i] = s[j]
    <3>1. CASE h[m][i] = v
      <4>1. m \in 1 .. m
        BY <2>1
      <4>. HIDE DEF m
      <4>2. QED
        BY <3>1, <4>1
    <3>2. CASE \E j \in 1 .. k : h[m][i] = x[j]
      <4>1. PICK i0 \in 1 .. k : h[m][i] = x[i0]
        BY <3>2
      <4>2. PICK j \in 1 .. k : x[i0] = s[j]
        BY <2>3
      <4>3. j \in 1 .. m
        BY <2>1
      <4>. HIDE DEF x, m
      <4>4. QED
        BY <4>1, <4>2, <4>3
    <3>3. QED
      BY <2>4, <3>1, <3>2
  <2>6. \A i \in 1 .. m : i \in 1 .. n /\ s[i] \in V /\ (i = m \/ i \in 1 .. k)
    BY <1>1, <2>1
  <2>7. \E j \in 1 .. m : Top(m, j)
    <3>1. CASE \E i \in 1 .. k : Compare(x[i], v) >= 0
      <4>1. PICK i \in 1 .. k : Compare(x[i], v) >= 0
        BY <3>1
      <4>2. PICK i0 \in 1 .. k : x[i] = s[i0]
        BY <2>3
      <4>3. PICK j \in 1 .. k : Top(k, j)
        BY <2>1, <2>3, <4>1
      <4>4. h[m][1] = s[j] /\ j \in 1 .. m
        BY <2>1, <2>4, <3>1, <4>3
      <4>5. s[i0] \in V /\ s[j] \in V /\ v \in V
        <5>1. k \in Nat /\ i0 \in 1 .. k /\ j \in 1 .. k
          BY <2>1
        <5>2. i0 \in 1 .. m /\ j \in 1 .. m /\ m \in 1 .. m
          BY <5>1
        <5>3. QED
          BY <2>6, <5>2
      <4>6. Compare(v, s[i0]) <= 0
        <5>1. Compare(s[i0], v) >= 0
          BY <4>1, <4>2
        <5>2. Compare(v, s[i0]) = 0 - Compare(s[i0], v) /\ Compare(s[i0], v) \in {-1, 0, 1}
          BY <1>2, <4>5
        <5>3. QED
          BY <5>1, <5>2
      <4>7. Compare(s[i0], s[j]) <= 0
        BY <4>2, <4>3
      <4>8. Compare(v, s[j]) <= 0
        BY <1>2, <4>5, <4>6, <4>7
      <4>9. ASSUME NEW l \in 1 .. m
            PROVE  Compare(s[l], s[j]) <= 0 /\ (l < j => Compare(s[l], s[j]) < 0)
        <5>1. CASE l = m
          BY <2>1, <4>3, <4>8, <5>1
        <5>2. CASE l \in 1 .. k
          BY <4>3, <5>2
        <5>3. QED
          BY <2>6, <5>1, <5>2
      <4>10. QED
        BY <4>4, <4>9
    <3>2. CASE ~\E i \in 1 .. k : Compare(x[i], v) >= 0
      <4>1. h[m][1] = s[m] /\ m \in 1 .. m
        BY <2>1, <2>4, <3>2
      <4>2. Compare(v, v) <= 0
        <5>1. Compare(v, v) = 0 - Compare(v, v) /\ Compare(v, v) \in {-1, 0, 1}
          BY <1>2, <2>1
        <5>2. QED
          BY <5>1
      <4>3. ASSUME NEW l \in 1 .. k
            PROVE  Compare(s[l], v) < 0
        <5>1. PICK j \in 1 .. k : Top(k, j)
          BY <2>1, <2>3
        <5>2. x[1] = s[j] /\ Compare(s[l], s[j]) <= 0 /\ 1 \in 1 .. k
          BY <2>1, <5>1
        <5>3. s[l] \in V /\ s[j] \in V /\ v \in V
          BY <2>1, <2>6
        <5>4. ~(Compare(s[j], v) >= 0)
          BY <3>2, <5>2
        <5>5. /\ Compare(s[j], v) \in {-1, 0, 1} /\ Compare(s[l], v) \in {-1, 0, 1}
              /\ Compare(s[l], s[j]) \in {-1, 0, 1}
              /\ Compare(v, s[l]) = 0 - Compare(s[l], v)
              /\ Compare(v, s[j]) = 0 - Compare(s[j], v)
          BY <1>2, <5>3
        <5>6. Compare(v, s[l]) <= 0 /\ Compare(s[l], s[j]) <= 0 => Compare(v, s[j]) <= 0
          BY <1>2, <5>3
        <5>7. QED
          BY <5>2, <5>4, <5>5, <5>6
      <4>4. ASSUME NEW l \in 1 .. m
            PROVE  Compare(s[l], v) <= 0 /\ (l < m => Compare(s[l], v) < 0)
        <5>1. CASE l = m
          BY <4>2, <5>1, <2>1
        <5>2. CASE l \in 1 .. k
          <6>1. Compare(s[l], v) < 0 /\ Compare(s[l], v) \in {-1, 0, 1}
            BY <1>2, <2>1, <2>6, <4>3, <5>2
          <6>2. QED
            BY <6>1
        <5>3. QED
          BY <2>6, <5>1, <5>2
      <4>5. QED
        BY <4>1, <4>4
    <3>3. QED
      BY <3>1, <3>2
  <2>8. m \in 0 .. n /\ h[m] \in Seq(V) /\ Len(h[m]) = m
    BY <2>1, <2>4
  <2>. HIDE DEF x, v, m, Top
  <2>9. m \in Good
    BY <2>5, <2>7, <2>8
  <2>10. QED
    BY <2>9 DEF m
<1>6. n \in Good
  <2>. HIDE DEF Good
  <2>1. \A k \in 0 .. n : k \in Good
    <3>1. \A k \in 0 .. n - 1 : k \in Good => k + 1 \in Good
      BY <1>5
    <3>2. QED
      BY <1>1, <1>4, <3>1, Climb
  <2>2. QED
    BY <1>1, <2>1
<1>7. QED
  BY <1>1, <1>3, <1>6 DEF n

-----------------------------------------------------------------------------
\* What an update selects.

\* Among versions of a uniform set, Older is the order of Compare.
LEMMA OlderIsLess ==
    ASSUME NEW A \in SUBSET Seq(Byte), Uniform(A),
           NEW v \in A, NEW w \in A
    PROVE  /\ Compare(v, w) \in {-1, 0, 1} /\ Compare(v, w) = 0 - Compare(w, v)
           /\ Older(v, w) <=> Compare(v, w) < 0
<1>1. Compare(v, w) \in {-1, 0, 1} /\ Compare(v, w) = 0 - Compare(w, v)
  BY CompareIsPreorder
<1>2. CASE Kind(v) = "debian"
  <2>1. Compare(v, w) = (IF DebianBefore(v, w) THEN -1 ELSE IF DebianBefore(w, v) THEN 1 ELSE 0)
    BY <1>2, DpkgOrderOfVersions
  <2>2. Older(v, w) <=> DebianBefore(v, w)
    BY <1>2 DEF Older
  <2>3. QED
    BY <1>1, <2>1, <2>2
<1>3. CASE Kind(v) # "debian"
  BY <1>1, <1>3 DEF Older
<1>4. QED
  BY <1>2, <1>3

\* A sort of a uniform set has an order to go by.
LEMMA UniformIsOrdered ==
    ASSUME NEW S \in SUBSET Seq(Byte), Uniform(S)
    PROVE  Ordered(S)
<1>. DEFINE atMost == {pair \in S \X S : Compare(pair[1], pair[2]) <= 0}
<1>1. /\ \A v, w \in S : Compare(v, w) \in {-1, 0, 1} /\ Compare(v, w) = 0 - Compare(w, v)
      /\ \A u, v, w \in S : Compare(u, v) <= 0 /\ Compare(v, w) <= 0 => Compare(u, w) <= 0
  BY CompareIsPreorder
<1>2. \A v, w \in S : <<v, w>> \in atMost <=> Compare(v, w) <= 0
  OBVIOUS
<1>3. ASSUME NEW p \in atMost
      PROVE  p[1] \in S /\ p[2] \in S /\ Compare(p[1], p[2]) <= 0
  OBVIOUS
<1>4. ASSUME NEW p \in atMost, NEW q \in atMost, p[2] = q[1] PROVE <<p[1], q[2]>> \in atMost
  <2>. HIDE DEF atMost
  <2>1. p[1] \in S /\ p[2] \in S /\ q[2] \in S /\ Compare(p[1], p[2]) <= 0 /\ Compare(p[2], q[2]) <= 0
    BY <1>3, <1>4
  <2>2. Compare(p[1], q[2]) <= 0
    BY <1>1, <2>1
  <2>3. QED
    BY <1>2, <2>1, <2>2
<1>5. Ordered(S) <=> /\ \A v, w \in S : Compare(v, w) = 0 - Compare(w, v)
                     /\ \A p, q \in atMost : p[2] = q[1] => <<p[1], q[2]>> \in atMost
  BY DEF Ordered
<1>. HIDE DEF atMost
<1>6. QED
  BY <1>1, <1>4, <1>5

\* Those of S that no other exceeds, and the first of them in the alphabet.
Newest(S) == {v \in S : \A w \in S : ~Older(v, w)}
FirstNewest(S) == {v \in Newest(S) : \A w \in Newest(S) \ {v} : CompareStrings(v, w) < 0}

\* Few candidates are sorted by insertion, which leaves equal ones in the order
\* of the alphabet.
LEMMA FewAreStable ==
    ASSUME NEW S \in SUBSET Seq(Byte), IsFiniteSet(S), S # {}, Uniform(S)
    PROVE  {Sorted(Listed(S))[1]} = FirstNewest(S)
<1>. DEFINE s == Listed(S)
<1>1. /\ s \in Seq(S)
      /\ \A i, j \in 1 .. Len(s) : i < j => CompareStrings(s[i], s[j]) < 0
      /\ \A v \in S : \E i \in 1 .. Len(s) : s[i] = v
  BY ListedAscends
<1>2. ASSUME NEW v \in S, NEW w \in S
      PROVE  /\ Compare(v, w) \in {-1, 0, 1} /\ Compare(v, w) = 0 - Compare(w, v)
             /\ Older(v, w) <=> Compare(v, w) < 0
  BY OlderIsLess
<1>. HIDE DEF s
<1>3. Len(s) \in Nat /\ \A i \in 1 .. Len(s) : s[i] \in S
  <2>1. s \in Seq(S)
    BY <1>1
  <2>2. QED
    BY <2>1
<1>4. s \in Seq(Seq(Byte)) /\ s # <<>>
  <2>1. s \in Seq(Seq(Byte))
    BY <1>1
  <2>2. PICK v \in S : TRUE
    OBVIOUS
  <2>3. PICK i \in 1 .. Len(s) : s[i] = v
    BY <1>1
  <2>4. QED
    BY <2>1, <2>3
<1>5. Uniform({s[i] : i \in 1 .. Len(s)})
  <2>1. {s[i] : i \in 1 .. Len(s)} = S
    BY <1>1, <1>3
  <2>2. QED
    BY <2>1
<1>6. PICK j \in 1 .. Len(s) :
        /\ Sorted(s)[1] = s[j]
        /\ \A i \in 1 .. Len(s) :
             Compare(s[i], s[j]) <= 0 /\ (i < j => Compare(s[i], s[j]) < 0)
  BY <1>4, <1>5, FirstOfSorted
<1>. DEFINE top == s[j]
<1>7. top \in S
  BY <1>3
<1>8. ASSUME NEW w \in S \ {top}
      PROVE  ~Older(top, w) /\ (Older(w, top) \/ CompareStrings(top, w) < 0)
  <2>1. PICK i \in 1 .. Len(s) : s[i] = w
    BY <1>1
  <2>2. Compare(w, top) <= 0 /\ (i < j => Compare(w, top) < 0)
    BY <1>6, <2>1
  <2>3. i # j /\ i \in Int /\ j \in Int
    BY <1>3, <2>1
  <2>4. j < i => CompareStrings(top, w) < 0
    BY <1>1, <2>1
  <2>. HIDE DEF top
  <2>5. /\ Compare(w, top) \in {-1, 0, 1} /\ Compare(top, w) = 0 - Compare(w, top)
        /\ (Older(w, top) <=> Compare(w, top) < 0) /\ (Older(top, w) <=> Compare(top, w) < 0)
    BY <1>2, <1>7
  <2>6. QED
    BY <2>2, <2>3, <2>4, <2>5
<1>9. ~Older(top, top)
  <2>. HIDE DEF top
  <2>1. QED
    BY <1>2, <1>7
<1>. HIDE DEF top
<1>10. top \in Newest(S)
  BY <1>7, <1>8, <1>9 DEF Newest
<1>11. ASSUME NEW w \in Newest(S) \ {top} PROVE CompareStrings(top, w) < 0
  <2>1. w \in S \ {top} /\ ~Older(w, top)
    BY <1>7 DEF Newest
  <2>2. QED
    BY <1>8, <2>1
<1>12. top \in FirstNewest(S)
  BY <1>10, <1>11 DEF FirstNewest
<1>13. ASSUME NEW v \in FirstNewest(S) PROVE v = top
  <2>. SUFFICES ASSUME v # top PROVE FALSE
    OBVIOUS
  <2>1. v \in Newest(S) /\ v \in S
    BY DEF FirstNewest, Newest
  <2>2. CompareStrings(v, top) < 0
    BY <1>10 DEF FirstNewest
  <2>3. CompareStrings(top, v) < 0
    BY <1>11, <2>1
  <2>4. v \in Seq(Byte) /\ top \in Seq(Byte)
    BY <1>7, <2>1
  <2>5. <<v, top>> \in Alphabet /\ <<top, v>> \in Alphabet
    BY <2>2, <2>3, <2>4, AlphabetIsStrictOrder
  <2>6. QED
    BY <2>4, <2>5, AlphabetIsStrictOrder DEF StrictOrder
<1>14. FirstNewest(S) = {top}
  BY <1>12, <1>13
<1>15. Sorted(s)[1] = top
  BY <1>6 DEF top
<1>16. QED
  BY <1>14, <1>15 DEF s

\* Of more candidates one is in front that no other exceeds.
LEMMA FrontsAreNewest ==
    ASSUME NEW S \in SUBSET Seq(Byte), Uniform(S), Cardinality(S) \in Int,
           ~(Cardinality(S) <= MaxInsertion)
    PROVE  Fronts(S) \subseteq Newest(S)
<1>1. Ordered(S) /\ Cardinality(S) > MaxInsertion
  BY UniformIsOrdered, VersionOrderAssumption
<1>2. Fronts(S) = {v \in S : \A w \in S : Compare(v, w) >= 0}
  BY <1>1 DEF Fronts
<1>3. ASSUME NEW v \in S, NEW w \in S, Compare(v, w) >= 0 PROVE ~Older(v, w)
  <2>1. Compare(v, w) \in {-1, 0, 1} /\ (Older(v, w) <=> Compare(v, w) < 0)
    BY OlderIsLess
  <2>2. QED
    BY <1>3, <2>1
<1>4. QED
  BY <1>2, <1>3 DEF Newest

\* What an update may select.
Selections == IF Candidates = {} THEN {{}} ELSE {{v} : v \in Fronts(Candidates)}

\* What NewestIsSelected says of a selection.
Right(selection) ==
    LET good == {v \in available : min # <<>> => ~Older(v, min)}
        newest == {v \in good : \A w \in good : ~Older(v, w)}
        first == {v \in newest : \A w \in newest \ {v} : CompareStrings(v, w) < 0}
    IN CASE good = {} -> selection = {}
         [] good # {} /\ Cardinality(good) <= MaxInsertion -> selection = first
         [] OTHER -> \E v \in newest : selection = {v}

LEMMA SelectionIsRight ==
    ASSUME Published, IsFiniteSet(available),
           Uniform(available \cup ({min} \ {<<>>})),
           NEW selection \in Selections
    PROVE  Right(selection)
<1>. DEFINE A == available \cup ({min} \ {<<>>})
            good == {v \in available : min # <<>> => ~Older(v, min)}
<1>1. A \in SUBSET Seq(Byte) /\ available \subseteq A /\ (min # <<>> => min \in A) /\ Uniform(A)
  BY VersionOrderAssumption DEF Published
<1>. HIDE DEF A
<1>2. good = Candidates
  <2>1. ASSUME NEW v \in available, min # <<>>
        PROVE  ~Older(v, min) <=> Compare(v, min) >= 0
    <3>1. v \in A /\ min \in A
      BY <1>1, <2>1
    <3>2. Compare(v, min) \in {-1, 0, 1} /\ (Older(v, min) <=> Compare(v, min) < 0)
      BY <1>1, <3>1, OlderIsLess
    <3>3. QED
      BY <3>2
  <2>2. QED
    BY <2>1 DEF Candidates
<1>3. good \in SUBSET Seq(Byte) /\ IsFiniteSet(good) /\ Uniform(good)
  <2>1. good \subseteq available /\ good \subseteq A
    BY <1>1
  <2>. HIDE DEF good
  <2>2. IsFiniteSet(good)
    BY <2>1, FS_Subset
  <2>3. Uniform(good)
    BY <1>1, <2>1 DEF Uniform
  <2>4. QED
    BY <1>1, <2>1, <2>2, <2>3
<1>4. Right(selection) <=>
        CASE good = {} -> selection = {}
          [] good # {} /\ Cardinality(good) <= MaxInsertion -> selection = FirstNewest(good)
          [] OTHER -> \E v \in Newest(good) : selection = {v}
  BY DEF Right, Newest, FirstNewest
<1>. HIDE DEF good
<1>5. CASE good = {}
  <2>1. selection = {}
    BY <1>2, <1>5 DEF Selections
  <2>2. QED
    BY <1>4, <1>5, <2>1
<1>6. CASE good # {} /\ Cardinality(good) <= MaxInsertion
  <2>1. Fronts(good) = {Sorted(Listed(good))[1]}
    <3>1. ~(Cardinality(good) > MaxInsertion)
      BY <1>3, <1>6, FS_CardinalityType, VersionOrderAssumption
    <3>2. QED
      BY <1>6, <3>1 DEF Fronts
  <2>2. PICK v \in Fronts(good) : selection = {v}
    BY <1>2, <1>6 DEF Selections
  <2>3. selection = {Sorted(Listed(good))[1]}
    BY <2>1, <2>2
  <2>4. selection = FirstNewest(good)
    BY <1>3, <1>6, <2>3, FewAreStable
  <2>5. QED
    BY <1>4, <1>6, <2>4
<1>7. CASE good # {} /\ ~(Cardinality(good) <= MaxInsertion)
  <2>1. Cardinality(good) \in Int
    BY <1>3, FS_CardinalityType
  <2>2. Fronts(good) \subseteq Newest(good)
    BY <1>3, <1>7, <2>1, FrontsAreNewest
  <2>3. PICK v \in Fronts(good) : selection = {v}
    BY <1>2, <1>7 DEF Selections
  <2>4. \E w \in Newest(good) : selection = {w}
    BY <2>2, <2>3
  <2>5. QED
    BY <1>4, <1>7, <2>4
<1>8. QED
  BY <1>5, <1>6, <1>7

\* An update's answer stands until something is published, and only finitely
\* many versions are.
Selecting ==
    /\ Published
    /\ IsFiniteSet(available)
    /\ picked # NotYet => picked \in Selections

LEMMA SelectingAlways == Spec => []Selecting
<1>1. Init => Selecting
  BY FS_EmptySet DEF Init, Selecting, Published
<1>2. Selecting /\ [Next]_vars => Selecting'
  <2>. SUFFICES ASSUME Selecting, [Next]_vars PROVE Selecting'
    OBVIOUS
  <2>1. CASE Update
    <3>1. picked' \in Selections /\ available' = available /\ min' = min
      BY <2>1 DEF Update, Selections
    <3>2. Selections' = Selections
      BY <3>1 DEF Selections, Candidates
    <3>3. QED
      BY <3>1, <3>2 DEF Selecting, Published
  <2>2. ASSUME NEW v \in Versions \ available, Publish(v) PROVE Selecting'
    <3>1. available' = available \cup {v} /\ picked' = NotYet /\ min' = min
      BY <2>2 DEF Publish
    <3>2. IsFiniteSet(available \cup {v})
      BY FS_AddElement DEF Selecting
    <3>3. QED
      BY <3>1, <3>2 DEF Selecting, Published, NotYet
  <2>3. CASE UNCHANGED vars
    BY <2>3 DEF vars, Selecting, Published, Selections, Candidates, NotYet
  <2>4. QED
    BY <2>1, <2>2, <2>3 DEF Next
<1>3. QED
  BY <1>1, <1>2, PTL DEF Spec

\* NewestIsSelected for every uniform set of versions, of any size: sorting by
\* Compare brings a version to the front that is not below MinVersion and that
\* no other exceeds; of at most MaxInsertion candidates it is the first in the
\* alphabet among its equals.
THEOREM SelectsTheNewest == Spec => []NewestIsSelected
<1>1. Selecting => NewestIsSelected
  BY SelectionIsRight DEF Selecting, NewestIsSelected, Right
<1>2. QED
  BY <1>1, SelectingAlways, PTL
=============================================================================
