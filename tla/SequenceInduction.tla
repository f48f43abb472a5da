------------------------- MODULE SequenceInduction -------------------------
(***************************************************************************)
(* Induction over numbers for sets, and what it gives: functions defined   *)
(* by recursion over 0..N exist, and FlattenSeq of a longer sequence is    *)
(* FlattenSeq of the shorter one and what was added, on either side.       *)
(*                                                                         *)
(* NaturalsInduction's theorems take an operator; these take a set, so     *)
(* that they can be used with any backend.                                 *)
(***************************************************************************)
EXTENDS Integers, Sequences, SequencesExt, SequenceTheorems, WellFoundedInduction, TLAPS

LEMMA Induction ==
    ASSUME NEW S, 0 \in S, \A n \in Nat : n \in S => n + 1 \in S
    PROVE  Nat \subseteq S
<1> DEFINE rest == Nat \ S
           less == OpToRel(<, Nat)
<1>1. SUFFICES ASSUME rest # {} PROVE FALSE
  OBVIOUS
<1>2. IsWellFoundedOn(less, Nat)
  BY NatLessThanWellFounded
<1>3. \A m, n \in Nat : m < n => <<m, n>> \in less
  BY DEF OpToRel
<1>4. rest \subseteq Nat
  OBVIOUS
<1> HIDE DEF less
<1>5. PICK n \in rest : \A m \in rest : ~(<<m, n>> \in less)
  BY <1>1, <1>2, <1>4, WFMin
<1>6. n \in Nat /\ n # 0
  BY <1>5
<1>7. n - 1 \in Nat /\ n - 1 < n /\ (n - 1) + 1 = n
  BY <1>6
<1>8. n - 1 \in S
  BY <1>3, <1>5, <1>6, <1>7
<1>9. QED
  BY <1>5, <1>7, <1>8

(* f begins with init and goes on with step, N times; such a function      *)
(* exists.                                                                 *)
Steps(N, D) == [(1..N) \X D -> D]
Iterates(f, N, D, init, step) ==
    /\ f \in [0..N -> D]
    /\ f[0] = init
    /\ \A n \in 1..N : f[n] = step[<<n, f[n - 1]>>]

LEMMA Recursion ==
    ASSUME NEW D, NEW init \in D, NEW N \in Nat, NEW step \in Steps(N, D)
    PROVE  \E f : Iterates(f, N, D, init, step)
<1> DEFINE Begins(f, k) == /\ f \in [0..k -> D] /\ f[0] = init
                           /\ \A n \in 1..k : f[n] = step[<<n, f[n - 1]>>]
           S == {k \in Nat : k <= N => \E f : Begins(f, k)}
<1>0. step \in [(1..N) \X D -> D]
  BY DEF Steps
<1>1. 0 \in S
  <2>1. Begins([n \in 0..0 |-> init], 0)
    OBVIOUS
  <2> QED
    BY <2>1
<1>2. ASSUME NEW k \in Nat, k \in S PROVE k + 1 \in S
  <2>1. SUFFICES ASSUME k + 1 <= N PROVE \E f : Begins(f, k + 1)
    OBVIOUS
  <2>2. PICK f : Begins(f, k)
    BY <1>2, <2>1
  <2> DEFINE g == [n \in 0..k + 1 |-> IF n = k + 1 THEN step[<<k + 1, f[k]>>] ELSE f[n]]
  <2>3. k \in 0..k /\ f[k] \in D /\ <<k + 1, f[k]>> \in (1..N) \X D
    BY <2>1, <2>2
  <2>4. step[<<k + 1, f[k]>>] \in D
    BY <1>0, <2>3
  <2>5. g \in [0..k + 1 -> D] /\ g[0] = init
    BY <2>2, <2>4
  <2>6. ASSUME NEW n \in 1..k + 1 PROVE g[n] = step[<<n, g[n - 1]>>]
    <3>1. n - 1 \in 0..k /\ n - 1 # k + 1 /\ g[n - 1] = f[n - 1]
      OBVIOUS
    <3>2. CASE n = k + 1
      BY <3>1, <3>2
    <3>3. CASE n # k + 1
      BY <2>2, <3>1, <3>3
    <3> QED
      BY <3>2, <3>3
  <2>7. Begins(g, k + 1)
    BY <2>5, <2>6
  <2> QED
    BY <2>7
<1>3. N \in S
  <2> HIDE DEF S
  <2> QED
    BY <1>1, <1>2, Induction
<1>4. PICK f : Begins(f, N)
  BY <1>3
<1> QED
  BY <1>4 DEF Iterates

(* A function over an initial piece of the positive numbers is a sequence. *)
LEMMA FunctionsAreSequences ==
    ASSUME NEW S, NEW n \in Nat, NEW f \in [1..n -> S]
    PROVE  f \in Seq(S) /\ Len(f) = n
  OBVIOUS

-----------------------------------------------------------------------------
(* The algebra of \o, under a name of its own: provers that know \o from   *)
(* its elements would look at those instead.                               *)
Cat(s, t) == s \o t

LEMMA CatAlgebra ==
    ASSUME NEW D
    PROVE  /\ \A x, y \in Seq(D) : Cat(x, y) \in Seq(D)
           /\ \A x, y, z \in Seq(D) : Cat(Cat(x, y), z) = Cat(x, Cat(y, z))
           /\ \A x \in Seq(D) : Cat(x, <<>>) = x /\ Cat(<<>>, x) = x
           /\ \A x, y, z \in Seq(D) : Cat(x, y) = Cat(x, z) => y = z
<1>1. \A x, y \in Seq(D) : Cat(x, y) \in Seq(D)
  BY ConcatProperties DEF Cat
<1>2. \A x, y, z \in Seq(D) : Cat(Cat(x, y), z) = Cat(x, Cat(y, z))
  BY ConcatAssociative DEF Cat
<1>3. \A x \in Seq(D) : Cat(x, <<>>) = x /\ Cat(<<>>, x) = x
  BY ConcatEmptySeq DEF Cat
<1>4. \A x, y, z \in Seq(D) : Cat(x, y) = Cat(x, z) => y = z
  BY ConcatSimplifications DEF Cat
<1> QED
  BY <1>1, <1>2, <1>3, <1>4

(* FlattenSeq goes through the sequence and adds one element after the     *)
(* other.                                                                  *)
LEMMA FlattenSteps ==
    ASSUME NEW D, NEW ss \in Seq(Seq(D))
    PROVE  \E f \in [0..Len(ss) -> Seq(D)] :
               /\ f[0] = <<>>
               /\ \A n \in 1..Len(ss) : f[n] = f[n - 1] \o ss[n]
               /\ FlattenSeq(ss) = f[Len(ss)]
<1> DEFINE N == Len(ss)
           T == Seq(D)
           step == [p \in (1..N) \X Seq(D) |-> p[2] \o ss[p[1]]]
<1>1. N \in Nat /\ \A n \in 1..N : ss[n] \in Seq(D)
  OBVIOUS
<1>2. step \in [(1..N) \X Seq(D) -> Seq(D)]
  BY <1>1, ConcatProperties
<1>3. <<>> \in Seq(D)
  OBVIOUS
<1>4. PICK f \in [0..N -> Seq(D)] :
          f[0] = <<>> /\ \A n \in 1..N : f[n] = step[<<n, f[n - 1]>>]
  <2>1. N \in Nat /\ step \in Steps(N, T) /\ <<>> \in T
    BY <1>1, <1>2, <1>3 DEF Steps
  <2>2. \E f : Iterates(f, N, T, <<>>, step)
    <3> HIDE DEF step, N, T
    <3> QED
      BY <2>1, Recursion
  <2> QED
    BY <2>2 DEF Iterates
<1>5. ASSUME NEW n \in 1..N PROVE n - 1 \in 0..N /\ f[n] = f[n - 1] \o ss[n]
  <2>1. n - 1 \in 0..N
    BY <1>1
  <2>2. f[n - 1] \in Seq(D)
    BY <2>1
  <2> QED
    BY <1>4, <2>1, <2>2
<1>6. CASE N = 0
  BY <1>3, <1>4, <1>5, <1>6 DEF FlattenSeq
<1>7. CASE N # 0
  <2> DEFINE Flattens(g) == g = [i \in 1..N |-> IF i = 1 THEN ss[i] ELSE g[i - 1] \o ss[i]]
             h == [i \in 1..N |-> f[i]]
             g == CHOOSE g : Flattens(g)
  <2>1. ASSUME NEW i \in 1..N PROVE h[i] = IF i = 1 THEN ss[i] ELSE h[i - 1] \o ss[i]
    <3>1. CASE i = 1
      <4>1. f[1] = f[0] \o ss[1] /\ ss[1] \in Seq(D)
        <5>1. 1 \in 1..N /\ 1 - 1 = 0
          BY <3>1
        <5> QED
          BY <1>1, <1>5, <5>1
      <4> QED
        BY <1>4, <3>1, <4>1, ConcatEmptySeq
    <3>2. CASE i # 1
      <4>1. i - 1 \in 1..N
        BY <1>1, <3>2
      <4> QED
        BY <1>5, <3>2, <4>1
    <3> QED
      BY <3>1, <3>2
  <2>2. Flattens(h)
    BY <2>1
  <2>3. Flattens(g)
    BY <2>2
  <2>4. FlattenSeq(ss) = g[N]
    BY <1>7 DEF FlattenSeq
  <2> HIDE DEF g, h
  <2>5. \A i \in 1..N : g[i] = f[i]
    <3> DEFINE S == {n \in Nat : n + 1 \in 1..N => g[n + 1] = f[n + 1]}
    <3>1. 0 \in S
      <4>1. 1 \in 1..N
        BY <1>1, <1>7
      <4>2. g[1] = ss[1] /\ h[1] = ss[1]
        BY <2>2, <2>3, <4>1
      <4> QED
        BY <4>1, <4>2 DEF h
    <3>2. ASSUME NEW n \in Nat, n \in S PROVE n + 1 \in S
      <4>1. SUFFICES ASSUME n + 2 \in 1..N PROVE g[n + 2] = f[n + 2]
        OBVIOUS
      <4>2. n + 1 \in 1..N /\ g[n + 1] = f[n + 1]
        BY <1>1, <3>2, <4>1
      <4>3. g[n + 2] = g[n + 1] \o ss[n + 2]
        <5>1. n + 2 # 1 /\ (n + 2) - 1 = n + 1
          OBVIOUS
        <5> QED
          BY <2>3, <4>1, <5>1
      <4>4. f[n + 2] = f[n + 1] \o ss[n + 2]
        <5>1. (n + 2) - 1 = n + 1
          OBVIOUS
        <5> QED
          BY <1>5, <4>1, <5>1
      <4> QED
        BY <4>2, <4>3, <4>4
    <3>3. Nat \subseteq S
      <4> HIDE DEF S
      <4> QED
        BY <3>1, <3>2, Induction
    <3>4. ASSUME NEW i \in 1..N PROVE g[i] = f[i]
      <4>1. i - 1 \in Nat /\ (i - 1) + 1 = i
        BY <1>1
      <4>2. i - 1 \in S
        BY <3>3, <4>1
      <4> QED
        BY <4>1, <4>2
    <3> QED
      BY <3>4
  <2>6. FlattenSeq(ss) = f[N]
    BY <1>1, <1>7, <2>4, <2>5
  <2> QED
    BY <1>4, <1>5, <2>6
<1> QED
  BY <1>6, <1>7

(* Whatever is built up in this way is FlattenSeq.                         *)
LEMMA FlattenUnique ==
    ASSUME NEW D, NEW ss \in Seq(Seq(D)), NEW g,
           g[0] = <<>>, \A n \in 1..Len(ss) : g[n] = g[n - 1] \o ss[n]
    PROVE  FlattenSeq(ss) = g[Len(ss)]
<1>1. PICK f \in [0..Len(ss) -> Seq(D)] :
          /\ f[0] = <<>>
          /\ \A n \in 1..Len(ss) : f[n] = f[n - 1] \o ss[n]
          /\ FlattenSeq(ss) = f[Len(ss)]
  BY FlattenSteps
<1> DEFINE S == {n \in Nat : n <= Len(ss) => g[n] = f[n]}
<1>2. 0 \in S
  BY <1>1
<1>3. ASSUME NEW n \in Nat, n \in S PROVE n + 1 \in S
  <2>1. SUFFICES ASSUME n + 1 <= Len(ss) PROVE g[n + 1] = f[n + 1]
    OBVIOUS
  <2>2. n + 1 \in 1..Len(ss) /\ (n + 1) - 1 = n
    BY <2>1
  <2>3. f[n + 1] = f[n] \o ss[n + 1] /\ g[n + 1] = g[n] \o ss[n + 1]
    BY <1>1, <2>2
  <2>4. n <= Len(ss)
    BY <2>2
  <2>5. g[n] = f[n]
    BY <1>3, <2>4
  <2> QED
    BY <2>3, <2>5
<1>4. Len(ss) \in S
  <2>1. Len(ss) \in Nat
    OBVIOUS
  <2> HIDE DEF S
  <2> QED
    BY <1>2, <1>3, <2>1, Induction
<1> QED
  BY <1>1, <1>4

LEMMA FlattenIsSeq ==
    ASSUME NEW D, NEW ss \in Seq(Seq(D))
    PROVE  FlattenSeq(ss) \in Seq(D)
<1>1. PICK f \in [0..Len(ss) -> Seq(D)] : FlattenSeq(ss) = f[Len(ss)]
  BY FlattenSteps
<1>2. Len(ss) \in 0..Len(ss)
  OBVIOUS
<1> QED
  BY <1>1, <1>2

LEMMA FlattenSingle ==
    ASSUME NEW D, NEW x \in Seq(D)
    PROVE  FlattenSeq(<<x>>) = x /\ FlattenSeq(<<>>) = <<>>
<1>1. <<x>> \in Seq(Seq(D)) /\ Len(<<x>>) = 1 /\ <<x>>[1] = x
  OBVIOUS
<1>2. PICK f \in [0..1 -> Seq(D)] :
          /\ f[0] = <<>>
          /\ \A n \in 1..1 : f[n] = f[n - 1] \o <<x>>[n]
          /\ FlattenSeq(<<x>>) = f[1]
  BY <1>1, FlattenSteps
<1>3. f[1] = <<>> \o x
  BY <1>1, <1>2
<1>4. FlattenSeq(<<>>) = <<>>
  BY DEF FlattenSeq
<1> QED
  BY <1>2, <1>3, <1>4, ConcatEmptySeq

LEMMA FlattenConcat ==
    ASSUME NEW D, NEW ss \in Seq(Seq(D)), NEW tt \in Seq(Seq(D))
    PROVE  FlattenSeq(ss \o tt) = FlattenSeq(ss) \o FlattenSeq(tt)
<1> DEFINE m == Len(ss)
           l == Len(tt)
<1>0. m \in Nat /\ l \in Nat
  OBVIOUS
<1>1. PICK f \in [0..m -> Seq(D)] :
          f[0] = <<>> /\ (\A n \in 1..m : f[n] = f[n - 1] \o ss[n]) /\ FlattenSeq(ss) = f[m]
  BY FlattenSteps
<1>2. PICK h \in [0..l -> Seq(D)] :
          h[0] = <<>> /\ (\A n \in 1..l : h[n] = h[n - 1] \o tt[n]) /\ FlattenSeq(tt) = h[l]
  BY FlattenSteps
<1> DEFINE g == [n \in 0..m + l |-> IF n <= m THEN f[n] ELSE f[m] \o h[n - m]]
<1>3. /\ ss \o tt \in Seq(Seq(D)) /\ Len(ss \o tt) = m + l
      /\ \A n \in 1..m + l : (ss \o tt)[n] = IF n <= m THEN ss[n] ELSE tt[n - m]
  BY ConcatProperties
<1>4. f[m] \in Seq(D) /\ f[m] \o <<>> = f[m]
  <2> HIDE DEF m
  <2>1. m \in 0..m
    BY <1>0
  <2>2. f[m] \in Seq(D)
    BY <2>1
  <2>3. \A x \in Seq(D) : x \o <<>> = x
    BY ConcatEmptySeq
  <2> QED
    BY <2>2, <2>3
<1>5. ASSUME NEW n \in 1..m + l PROVE g[n] = g[n - 1] \o (ss \o tt)[n]
  <2>1. n \in 0..m + l /\ n - 1 \in 0..m + l
    BY <1>0
  <2>2. CASE n <= m
    <3>1. n \in 1..m /\ n - 1 <= m /\ g[n] = f[n] /\ g[n - 1] = f[n - 1]
      BY <1>0, <2>1, <2>2
    <3> QED
      BY <1>1, <1>3, <2>2, <3>1
  <2>3. CASE n > m
    <3> DEFINE k == n - m
    <3>1. k \in 1..l /\ k - 1 \in 0..l /\ (n - 1) - m = k - 1 /\ ~(n <= m)
      BY <1>0, <2>3
    <3>2. h[k] = h[k - 1] \o tt[k] /\ h[k - 1] \in Seq(D) /\ tt[k] \in Seq(D)
      <4> HIDE DEF k, l
      <4>1. h[k] = h[k - 1] \o tt[k]
        BY <1>2, <3>1
      <4>2. h[k - 1] \in Seq(D)
        BY <3>1
      <4>3. tt[k] \in Seq(D)
        BY <3>1 DEF l
      <4> QED
        BY <4>1, <4>2, <4>3
    <3>3. g[n] = f[m] \o h[k] /\ (ss \o tt)[n] = tt[k]
      BY <1>3, <2>1, <3>1
    <3>4. g[n - 1] = f[m] \o h[k - 1]
      <4>1. CASE n - 1 <= m
        <5>1. n - 1 = m /\ k - 1 = 0
          BY <1>0, <2>3, <4>1
        <5> QED
          <6>1. g[n - 1] = f[m] /\ h[k - 1] = <<>>
            BY <1>2, <2>1, <5>1
          <6> HIDE DEF g, k
          <6> QED
            BY <1>4, <6>1
      <4>2. CASE ~(n - 1 <= m)
        BY <2>1, <3>1, <4>2
      <4> QED
        BY <4>1, <4>2
    <3> HIDE DEF k, g
    <3> QED
      <4> DEFINE x == f[m]
                 y == h[k - 1]
                 z == tt[k]
      <4>1. x \in Seq(D) /\ y \in Seq(D) /\ z \in Seq(D)
        BY <1>4, <3>2
      <4>2. \A r, s, t \in Seq(D) : Cat(Cat(r, s), t) = Cat(r, Cat(s, t))
        BY CatAlgebra
      <4> HIDE DEF x, y, z
      <4>3. Cat(Cat(x, y), z) = Cat(x, Cat(y, z))
        BY ONLY <4>1, <4>2
      <4> QED
        BY <3>2, <3>3, <3>4, <4>3 DEF Cat, x, y, z
  <2>4. n <= m \/ n > m
    BY <1>0
  <2> QED
    BY <2>2, <2>3, <2>4
<1>6. g[0] = <<>>
  BY <1>0, <1>1
<1>7. FlattenSeq(ss \o tt) = g[m + l]
  <2> HIDE DEF g, m, l
  <2> QED
    BY <1>3, <1>5, <1>6, FlattenUnique
<1>8. g[m + l] = f[m] \o h[l]
  <2>1. CASE l = 0
    BY <1>0, <1>2, <1>4, <2>1
  <2>2. CASE l # 0
    BY <1>0, <2>2
  <2> QED
    BY <2>1, <2>2
<1> QED
  BY <1>1, <1>2, <1>7, <1>8

(* FlattenSeq after a map, which is how the models use it.                 *)
OverAll(f, s) == FlattenSeq([i \in 1..Len(s) |-> f[s[i]]])

LEMMA MapConcat ==
    ASSUME NEW D, NEW P, NEW f, \A q \in P : f[q] \in D,
           NEW s \in Seq(P), NEW t \in Seq(P)
    PROVE  [i \in 1..Len(s \o t) |-> f[(s \o t)[i]]] =
               [i \in 1..Len(s) |-> f[s[i]]] \o [i \in 1..Len(t) |-> f[t[i]]]
<1> DEFINE M(r) == [i \in 1..Len(r) |-> f[r[i]]]
<1>1. ASSUME NEW r \in Seq(P) PROVE M(r) \in Seq(D) /\ Len(M(r)) = Len(r)
  <2>1. Len(r) \in Nat /\ \A i \in 1..Len(r) : r[i] \in P
    OBVIOUS
  <2>2. M(r) \in [1..Len(r) -> D]
    BY <2>1
  <2>3. M(r) \in Seq(D)
    BY <2>1, <2>2
  <2> QED
    BY <2>1, <2>2, <2>3
<1>2. /\ s \o t \in Seq(P) /\ Len(s \o t) = Len(s) + Len(t)
      /\ \A i \in 1..Len(s) + Len(t) : (s \o t)[i] = IF i <= Len(s) THEN s[i] ELSE t[i - Len(s)]
  BY ConcatProperties
<1>3. M(s \o t) = M(s) \o M(t)
  <2>1. /\ M(s) \in Seq(D) /\ M(t) \in Seq(D) /\ M(s \o t) \in Seq(D)
        /\ Len(M(s)) = Len(s) /\ Len(M(t)) = Len(t) /\ Len(M(s \o t)) = Len(s) + Len(t)
    BY <1>1, <1>2
  <2>2. /\ M(s) \o M(t) \in Seq(D) /\ Len(M(s) \o M(t)) = Len(s) + Len(t)
        /\ \A i \in 1..Len(s) + Len(t) :
               (M(s) \o M(t))[i] = IF i <= Len(s) THEN M(s)[i] ELSE M(t)[i - Len(s)]
    <3> DEFINE a == M(s)
               b == M(t)
    <3>1. a \in Seq(D) /\ b \in Seq(D) /\ Len(a) = Len(s) /\ Len(b) = Len(t)
      BY <2>1
    <3> HIDE DEF a, b
    <3>2. /\ a \o b \in Seq(D) /\ Len(a \o b) = Len(a) + Len(b)
          /\ \A i \in 1..Len(a) + Len(b) : (a \o b)[i] = IF i <= Len(a) THEN a[i] ELSE b[i - Len(a)]
      BY <3>1, ConcatProperties
    <3> QED
      BY <3>1, <3>2 DEF a, b
  <2>3. ASSUME NEW i \in 1..Len(s) + Len(t) PROVE M(s \o t)[i] = (M(s) \o M(t))[i]
    <3>0. Len(s) \in Nat /\ Len(t) \in Nat
      OBVIOUS
    <3>1. M(s \o t)[i] = f[(s \o t)[i]]
      BY <1>2
    <3>2. CASE i <= Len(s)
      <4>1. i \in 1..Len(s)
        BY <3>0, <3>2
      <4>2. M(s)[i] = f[s[i]]
        BY <4>1
      <4> HIDE DEF M
      <4> QED
        BY <1>2, <2>2, <3>1, <3>2, <4>2
    <3>3. CASE ~(i <= Len(s))
      <4>1. i - Len(s) \in 1..Len(t)
        BY <3>0, <3>3
      <4>2. M(t)[i - Len(s)] = f[t[i - Len(s)]]
        BY <4>1
      <4> HIDE DEF M
      <4> QED
        BY <1>2, <2>2, <3>1, <3>3, <4>2
    <3> QED
      BY <3>2, <3>3
  <2> HIDE DEF M
  <2> QED
    BY <2>1, <2>2, <2>3, SeqEqual
<1> QED
  BY <1>3

LEMMA OverAllFacts ==
    ASSUME NEW D, NEW P, NEW f, \A q \in P : f[q] \in Seq(D)
    PROVE  /\ \A s \in Seq(P) : OverAll(f, s) \in Seq(D)
           /\ \A s, t \in Seq(P) : OverAll(f, s \o t) = OverAll(f, s) \o OverAll(f, t)
           /\ \A q \in P : OverAll(f, <<q>>) = f[q]
           /\ OverAll(f, <<>>) = <<>>
<1> DEFINE M(r) == [i \in 1..Len(r) |-> f[r[i]]]
           T == Seq(D)
<1>1. \A q \in P : f[q] \in T
  OBVIOUS
<1>2. ASSUME NEW s \in Seq(P) PROVE OverAll(f, s) = FlattenSeq(M(s)) /\ M(s) \in Seq(T)
  <2>1. Len(s) \in Nat /\ \A i \in 1..Len(s) : f[s[i]] \in T
    BY <1>1
  <2>2. M(s) \in Seq(T)
    <3> HIDE DEF T
    <3> QED
      BY <2>1
  <2> QED
    BY <2>2 DEF OverAll
<1>3. ASSUME NEW s \in Seq(P) PROVE OverAll(f, s) \in Seq(D)
  <2> HIDE DEF M
  <2> QED
    BY <1>2, FlattenIsSeq
<1>4. ASSUME NEW s \in Seq(P), NEW t \in Seq(P)
      PROVE  OverAll(f, s \o t) = OverAll(f, s) \o OverAll(f, t)
  <2>1. M(s \o t) = M(s) \o M(t)
    <3> HIDE DEF T
    <3> QED
      BY <1>1, MapConcat
  <2>2. s \o t \in Seq(P)
    BY ConcatProperties
  <2> HIDE DEF M
  <2>3. FlattenSeq(M(s) \o M(t)) = FlattenSeq(M(s)) \o FlattenSeq(M(t))
    BY <1>2, FlattenConcat
  <2> QED
    BY <1>2, <2>1, <2>2, <2>3
<1>5. ASSUME NEW q \in P PROVE OverAll(f, <<q>>) = f[q]
  <2>1. M(<<q>>) = <<f[q]>>
    <3>1. Len(<<q>>) = 1 /\ <<q>>[1] = q
      OBVIOUS
    <3> QED
      BY <3>1
  <2>2. <<q>> \in Seq(P) /\ f[q] \in Seq(D)
    OBVIOUS
  <2> HIDE DEF M
  <2> QED
    BY <1>2, <2>1, <2>2, FlattenSingle
<1>6. OverAll(f, <<>>) = <<>>
  <2>1. M(<<>>) = <<>> /\ <<>> \in Seq(P)
    OBVIOUS
  <2>2. FlattenSeq(<<>>) = <<>>
    BY DEF FlattenSeq
  <2> HIDE DEF M
  <2> QED
    BY <1>2, <2>1, <2>2
<1> QED
  BY <1>3, <1>4, <1>5, <1>6

-----------------------------------------------------------------------------
(* Cutting a sequence in two, and putting it together again.               *)
LEMMA CutAt ==
    ASSUME NEW D, NEW s \in Seq(D), NEW n \in 0..Len(s)
    PROVE  /\ SubSeq(s, 1, n) \in Seq(D) /\ Len(SubSeq(s, 1, n)) = n
           /\ SubSeq(s, n + 1, Len(s)) \in Seq(D) /\ Len(SubSeq(s, n + 1, Len(s))) = Len(s) - n
           /\ SubSeq(s, 1, n) \o SubSeq(s, n + 1, Len(s)) = s
<1>1. Len(s) \in Nat /\ n \in Nat /\ n <= Len(s)
  OBVIOUS
<1>2. \A i \in 1..Len(s) : s[i] \in D
  OBVIOUS
<1>3. SubSeq(s, 1, n) \in Seq(D) /\ Len(SubSeq(s, 1, n)) = n
  BY <1>1, <1>2, SubSeqProperties
<1>4. SubSeq(s, n + 1, Len(s)) \in Seq(D) /\ Len(SubSeq(s, n + 1, Len(s))) = Len(s) - n
  BY <1>1, <1>2, SubSeqProperties
<1>5. SubSeq(s, 1, n) \o SubSeq(s, n + 1, Len(s)) = SubSeq(s, 1, Len(s))
  <2>1. /\ 1 \in 1..Len(s) + 1 /\ n \in 1 - 1..Len(s) /\ Len(s) \in n..Len(s)
    BY <1>1
  <2> QED
    BY <2>1, ConcatAdjacentSubSeq
<1> QED
  BY <1>3, <1>4, <1>5, SubSeqFull

(* Two ways to write a sequence as a beginning and an end: if one beginning *)
(* is as long as the other or longer, it begins with it.                   *)
LEMMA SameBeginning ==
    ASSUME NEW D, NEW s \in Seq(D), NEW t \in Seq(D), NEW u \in Seq(D), NEW v \in Seq(D),
           s \o t = u \o v, Len(u) <= Len(s)
    PROVE  /\ SubSeq(s, 1, Len(u)) = u
           /\ SubSeq(s, Len(u) + 1, Len(s)) \o t = v
<1> DEFINE n == Len(u)
           a == SubSeq(s, 1, n)
           b == SubSeq(s, n + 1, Len(s))
<1>1. n \in 0..Len(s) /\ n \in Nat /\ Len(s) \in Nat
  OBVIOUS
<1>2. a \in Seq(D) /\ Len(a) = n /\ b \in Seq(D) /\ a \o b = s
  <2> HIDE DEF n
  <2>1. a \in Seq(D) /\ Len(a) = n
    BY <1>1, CutAt
  <2>2. b \in Seq(D) /\ a \o b = s
    BY <1>1, CutAt
  <2> QED
    BY <2>1, <2>2
<1>3. \A i \in 1..n : a[i] = s[i]
  BY <1>1
<1>4. \A i \in 1..n : s[i] = u[i]
  <2>1. SUFFICES ASSUME NEW i \in 1..n PROVE s[i] = u[i]
    OBVIOUS
  <2>2. i \in 1..Len(s) + Len(t) /\ i <= Len(s) /\ i \in 1..Len(u) + Len(v) /\ i <= Len(u)
    BY <1>1
  <2>3. (s \o t)[i] = s[i] /\ (u \o v)[i] = u[i]
    BY <2>2, ConcatProperties
  <2> QED
    BY <2>3
<1>5. a = u
  <2> HIDE DEF a
  <2> QED
    BY <1>2, <1>3, <1>4, SeqEqual
<1>6. u \o (b \o t) = u \o v
  <2> HIDE DEF a, b
  <2> QED
    <3>0. a \in Seq(D) /\ b \in Seq(D) /\ t \in Seq(D)
      BY <1>2
    <3>1. Cat(Cat(a, b), t) = Cat(a, Cat(b, t))
      BY <3>0, CatAlgebra
    <3> QED
      BY <1>2, <1>5, <3>1 DEF Cat
<1>7. b \o t \in Seq(D)
  BY <1>2, ConcatProperties
<1>8. b \o t = v
  <2> HIDE DEF a, b
  <2> QED
    BY <1>6, <1>7, ConcatSimplifications
<1> QED
  BY <1>5, <1>8
=============================================================================
