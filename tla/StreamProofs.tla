---------------------------- MODULE StreamProofs ----------------------------
(***************************************************************************)
(* Facts about numbers, sequences and the recursive operators on           *)
(* responses, which the proofs of the collector, of the gateway and of the *)
(* scanners share.  Induction is put as a least counterexample.            *)
(***************************************************************************)
EXTENDS ResponseStream, NaturalsInduction, FiniteSetTheorems, TLAPS

\* Every set of natural numbers has a least member.
LEMMA LeastMember ==
    ASSUME NEW T, T \subseteq Nat, T # {}
    PROVE  \E x \in T : \A y \in T : x <= y
<1>1. PICK x \in T : \A y \in T : <<y, x>> \notin OpToRel(<, Nat)
  BY NatLessThanWellFounded, WFMin
<1>2. ASSUME NEW y \in T PROVE x <= y
  <2>1. x \in Nat /\ y \in Nat
    OBVIOUS
  <2>2. ~(y < x)
    BY <1>1, <2>1 DEF OpToRel
  <2> QED
    BY <2>1, <2>2
<1> QED
  BY <1>2

\* A bounded one has a greatest.
LEMMA GreatestMember ==
    ASSUME NEW T, NEW n \in Nat, T \subseteq 0..n, T # {}
    PROVE  \E x \in T : \A y \in T : y <= x
<1> DEFINE U == {n - x : x \in T}
<1>1. U \subseteq Nat /\ U # {}
  OBVIOUS
<1>2. PICK u \in U : \A v \in U : u <= v
  BY <1>1, LeastMember
<1>3. PICK x \in T : u = n - x
  OBVIOUS
<1>4. ASSUME NEW y \in T PROVE y <= x
  <2>1. n - y \in U
    OBVIOUS
  <2>2. n - x <= n - y
    BY <1>2, <1>3, <2>1
  <2> QED
    BY <2>2
<1> QED
  BY <1>4

LEMMA MinMember ==
    ASSUME NEW T, T \subseteq Nat, T # {}
    PROVE  Min(T) \in T /\ \A y \in T : Min(T) <= y
  BY LeastMember DEF Min

LEMMA MaxMember ==
    ASSUME NEW T, NEW n \in Nat, T \subseteq 0..n, T # {}
    PROVE  Max(T) \in T /\ \A y \in T : y <= Max(T)
<1>1. PICK x \in T : \A y \in T : y <= x
  BY GreatestMember
<1>2. \A y \in T : x >= y
  BY <1>1
<1>3. Max(T) \in T /\ \A y \in T : Max(T) >= y
  BY <1>2 DEF Max
<1> QED
  BY <1>3

-----------------------------------------------------------------------------
(* Iterations: the n-fold application of a step to what came before.       *)

Iterates(f, base, step, n) ==
    \A k \in 0..n : f[k] = IF k = 0 THEN base ELSE step[<<k, f[k - 1]>>]

LEMMA IterationExists ==
    ASSUME NEW A, NEW base \in A, NEW step \in [Nat \X A -> A], NEW n \in Nat
    PROVE  \E f \in [0..n -> A] : Iterates(f, base, step, n)
<1> DEFINE T == {k \in Nat : ~ \E f \in [0..k -> A] : Iterates(f, base, step, k)}
<1>1. T \subseteq Nat /\ (n \notin T => \E f \in [0..n -> A] : Iterates(f, base, step, n))
  OBVIOUS
<1>2. ASSUME NEW k \in T, \A j \in T : k <= j PROVE FALSE
  <2>1. k \in Nat /\ ~ \E f \in [0..k -> A] : Iterates(f, base, step, k)
    OBVIOUS
  <2>2. k # 0
    <3>1. PICK f : f = [i \in 0..0 |-> base]
      OBVIOUS
    <3>2. f \in [0..0 -> A] /\ Iterates(f, base, step, 0)
      BY <3>1 DEF Iterates
    <3> QED
      BY <2>1, <3>2
  <2>3. PICK j \in Nat : k = j + 1
    <3>1. k - 1 \in Nat /\ k = (k - 1) + 1
      BY <2>1, <2>2
    <3> QED
      BY <3>1
  <2>4. j \notin T
    BY <1>2, <2>3
  <2>5. PICK f \in [0..j -> A] : Iterates(f, base, step, j)
    BY <2>4
  <2> HIDE DEF T
  <2>6. PICK last \in A : last = step[<<k, f[j]>>]
    <3>1. f[j] \in A /\ <<k, f[j]>> \in Nat \X A
      BY <2>1
    <3> QED
      BY <3>1
  <2>7. PICK g : g = [i \in 0..k |-> IF i = k THEN last ELSE f[i]]
    OBVIOUS
  <2>8. g \in [0..k -> A]
    BY <2>3, <2>7
  <2>9. ASSUME NEW i \in 0..k
        PROVE  g[i] = IF i = 0 THEN base ELSE step[<<i, g[i - 1]>>]
    <3>1. CASE i = k
      <4>1. g[i] = last /\ i # 0 /\ i - 1 = j /\ j \in 0..k /\ j # k
        BY <2>3, <2>7, <3>1
      <4>2. g[i - 1] = f[j]
        BY <2>7, <4>1
      <4> QED
        BY <2>6, <3>1, <4>1, <4>2
    <3>2. CASE i # k
      <4>1. i \in 0..j /\ g[i] = f[i]
        BY <2>3, <2>7, <3>2
      <4>2. i # 0 => i - 1 \in 0..k /\ i - 1 # k
        BY <2>3, <4>1
      <4>3. i # 0 => g[i - 1] = f[i - 1]
        BY <2>7, <4>2
      <4> QED
        BY <2>5, <4>1, <4>3 DEF Iterates
    <3> QED
      BY <3>1, <3>2
  <2> QED
    BY <2>1, <2>8, <2>9 DEF Iterates
<1> HIDE DEF T
<1>3. T = {}
  BY <1>1, <1>2, LeastMember
<1> QED
  BY <1>1, <1>3

-----------------------------------------------------------------------------
(* Concatenations.                                                         *)

\* f holds the concatenations of the first i parts of s.
Joins(f, s, n) == f = [i \in 1..n |-> IF i = 1 THEN s[i] ELSE f[i - 1] \o s[i]]

LEMMA JoinsUnique ==
    ASSUME NEW n \in Nat \ {0}, NEW s, NEW f, NEW g, Joins(f, s, n), Joins(g, s, n)
    PROVE  f[n] = g[n]
<1>1. /\ \A i \in 1..n : f[i] = IF i = 1 THEN s[i] ELSE f[i - 1] \o s[i]
      /\ \A i \in 1..n : g[i] = IF i = 1 THEN s[i] ELSE g[i - 1] \o s[i]
  BY DEF Joins
<1> DEFINE T == {k \in 1..n : f[k] # g[k]}
<1>2. T \subseteq Nat /\ (f[n] # g[n] => n \in T)
  OBVIOUS
<1>3. ASSUME NEW k \in T, \A j \in T : k <= j PROVE FALSE
  <2>1. k \in 1..n /\ f[k] # g[k]
    OBVIOUS
  <2>2. k # 1
    BY <1>1, <2>1
  <2>3. k - 1 \in 1..n
    BY <2>1, <2>2
  <2>4. k - 1 \notin T
    BY <1>3, <2>1
  <2>5. f[k - 1] = g[k - 1]
    BY <2>3, <2>4
  <2>6. f[k] = f[k - 1] \o s[k] /\ g[k] = g[k - 1] \o s[k]
    BY <1>1, <2>1, <2>2
  <2> QED
    BY <2>1, <2>5, <2>6
<1> HIDE DEF T
<1> QED
  BY <1>2, <1>3, LeastMember

\* FlattenSeq, when the concatenations are known.
LEMMA FlattenKnown ==
    ASSUME NEW n \in Nat \ {0}, NEW s, Len(s) = n, NEW g, Joins(g, s, n)
    PROVE  FlattenSeq(s) = g[n]
<1> DEFINE flat == CHOOSE f : Joins(f, s, n)
<1>1. Joins(flat, s, n)
  OBVIOUS
<1>2. FlattenSeq(s) = flat[n]
  BY DEF FlattenSeq, Joins
<1> HIDE DEF flat
<1> QED
  BY <1>1, <1>2, JoinsUnique

\* off[i] is where part i of ss ends in the concatenation flat.
Ranges(flat, ss, off, n) ==
    /\ off \in [0..n -> Nat] /\ off[0] = 0 /\ Len(flat) = off[n]
    /\ \A i \in 1..n : off[i] = off[i - 1] + Len(ss[i])
    /\ \A i \in 1..n : \A k \in 1..Len(ss[i]) : flat[off[i - 1] + k] = ss[i][k]

LEMMA FlattenRanges ==
    ASSUME NEW X, NEW n \in Nat \ {0}, NEW ss \in [1..n -> Seq(X)]
    PROVE  FlattenSeq(ss) \in Seq(X) /\ \E off : Ranges(FlattenSeq(ss), ss, off, n)
<1>1. PICK step : step = [x \in Nat \X Seq(X) |-> IF x[1] \in 1..n THEN x[2] \o ss[x[1]] ELSE x[2]]
  OBVIOUS
<1>2. step \in [Nat \X Seq(X) -> Seq(X)]
  BY <1>1
<1>3. PICK f \in [0..n -> Seq(X)] : Iterates(f, <<>>, step, n)
  <2>1. <<>> \in Seq(X)
    OBVIOUS
  <2> QED
    BY <1>2, <2>1, IterationExists
<1>0. /\ n \in Nat /\ n \in 0..n /\ n \in 1..n /\ 0 \in 0..n /\ 1 \in 1..n
      /\ \A k \in 1..n : k \in Nat /\ k \in 0..n /\ k # 0 /\ k - 1 \in 0..n
  OBVIOUS
<1>t. (\A k \in 0..n : f[k] \in Seq(X)) /\ (\A k \in 1..n : ss[k] \in Seq(X))
  OBVIOUS
<1>a. f[0] = <<>>
  BY <1>0, <1>3 DEF Iterates
<1>b. ASSUME NEW k \in 1..n PROVE f[k] = f[k - 1] \o ss[k]
  <2>1. PICK x \in Seq(X) : x = f[k - 1]
    BY <1>0, <1>t
  <2>2. f[k] = step[<<k, x>>]
    BY <1>0, <1>3, <2>1 DEF Iterates
  <2>3. <<k, x>> \in Nat \X Seq(X) /\ <<k, x>>[1] = k /\ <<k, x>>[2] = x
    BY <1>0
  <2>4. step[<<k, x>>] = x \o ss[k]
    BY <1>1, <2>3
  <2> QED
    BY <2>1, <2>2, <2>4
<1>4. /\ f[0] = <<>>
      /\ \A k \in 1..n : /\ f[k] = f[k - 1] \o ss[k] /\ f[k - 1] \in Seq(X) /\ ss[k] \in Seq(X)
                         /\ f[k] \in Seq(X)
  BY <1>0, <1>t, <1>a, <1>b
<1>5. FlattenSeq(ss) = f[n]
  <2>1. PICK g : g = [i \in 1..n |-> f[i]]
    OBVIOUS
  <2>2. ASSUME NEW i \in 1..n PROVE g[i] = IF i = 1 THEN ss[i] ELSE g[i - 1] \o ss[i]
    <3>1. CASE i = 1
      <4>1. PICK x \in Seq(X) : x = ss[1]
        BY <1>0, <1>4
      <4>2. f[1] = f[0] \o x
        <5>1. f[1] = f[1 - 1] \o ss[1]
          BY <1>0, <1>4
        <5> QED
          BY <4>1, <5>1
      <4>3. f[1] = x
        BY <1>4, <4>2
      <4> QED
        BY <2>1, <3>1, <4>1, <4>3
    <3>2. CASE i # 1
      <4>1. i - 1 \in 1..n
        BY <3>2
      <4>2. f[i] = f[i - 1] \o ss[i] /\ g[i] = f[i] /\ g[i - 1] = f[i - 1]
        BY <1>4, <2>1, <4>1
      <4> QED
        BY <3>2, <4>2
    <3> QED
      BY <3>1, <3>2
  <2>3. Joins(g, ss, n)
    <3>1. g = [i \in 1..n |-> g[i]]
      BY <2>1
    <3>2. g = [i \in 1..n |-> IF i = 1 THEN ss[i] ELSE g[i - 1] \o ss[i]]
      BY <2>2, <3>1
    <3> QED
      BY <3>2 DEF Joins
  <2>4. Len(ss) = n
    <3>1. DOMAIN ss = 1..n /\ ss \in Seq(Seq(X))
      BY <1>0
    <3> QED
      BY <1>0, <3>1
  <2>5. g[n] = f[n]
    BY <1>0, <2>1
  <2>6. FlattenSeq(ss) = g[n]
    BY <2>3, <2>4, FlattenKnown
  <2> QED
    BY <2>5, <2>6
<1>6. PICK off : off = [i \in 0..n |-> Len(f[i])]
  OBVIOUS
<1>7. off \in [0..n -> Nat] /\ off[0] = 0 /\ off[n] = Len(f[n])
  <2>1. \A i \in 0..n : Len(f[i]) \in Nat
    BY <1>t
  <2> QED
    BY <1>0, <1>4, <1>6, <2>1
<1>8. ASSUME NEW i \in 1..n PROVE off[i] = off[i - 1] + Len(ss[i])
  <2>1. PICK x \in Seq(X), y \in Seq(X) : x = f[i - 1] /\ y = ss[i] /\ f[i] = x \o y
    BY <1>4
  <2>2. Len(x \o y) = Len(x) + Len(y)
    OBVIOUS
  <2> QED
    BY <1>0, <1>6, <2>1, <2>2
<1>9. ASSUME NEW i \in 1..n, NEW k \in 1..Len(ss[i]) PROVE f[n][off[i - 1] + k] = ss[i][k]
  <2>0. PICK p \in Nat, e \in Nat, l \in Nat :
          p = off[i - 1] /\ e = off[i] /\ l = Len(ss[i]) /\ e = p + l
    <3>1. off[i - 1] \in Nat /\ off[i] \in Nat
      BY <1>0, <1>7
    <3>2. Len(ss[i]) \in Nat
      BY <1>4
    <3> QED
      BY <1>8, <3>1, <3>2
  <2>k. k \in 1..l /\ p + k \in 1..e
    <3>1. k \in 1..l
      BY <2>0
    <3>2. e = p + l
      BY <2>0
    <3> QED
      BY <3>1, <3>2
  <2> DEFINE T == {m \in i..n : ~(e <= Len(f[m]) /\ f[m][p + k] = ss[i][k])}
  <2>1. T \subseteq Nat /\ (n \notin T => f[n][p + k] = ss[i][k])
    BY <1>0
  <2>2. ASSUME NEW m \in T, \A j \in T : m <= j PROVE FALSE
    <3>1. m \in i..n /\ ~(e <= Len(f[m]) /\ f[m][p + k] = ss[i][k]) /\ m \in 1..n
      BY <1>0
    <3>2. PICK x \in Seq(X), y \in Seq(X) : x = f[m - 1] /\ y = ss[m] /\ f[m] = x \o y
      BY <1>4, <3>1
    <3>3. CASE m = i
      <4>1. p = Len(x) /\ e = Len(f[m])
        BY <1>0, <1>6, <2>0, <3>1, <3>2, <3>3
      <4>2. k \in 1..Len(y) /\ (x \o y)[Len(x) + k] = y[k]
        BY <3>2, <3>3
      <4> HIDE DEF T
      <4>3. f[m][p + k] = ss[i][k]
        BY <3>2, <3>3, <4>1, <4>2
      <4> QED
        BY <3>1, <4>1, <4>3
    <3>4. CASE m # i
      <4>1. m - 1 \in i..n /\ m - 1 \notin T
        BY <1>0, <2>2, <3>1, <3>4
      <4>2. e <= Len(x) /\ x[p + k] = ss[i][k]
        BY <3>2, <4>1
      <4> HIDE DEF T
      <4>3. p + k \in 1..Len(x) /\ Len(x) \in Nat /\ Len(y) \in Nat
        BY <2>k, <4>2
      <4>4. (x \o y)[p + k] = x[p + k] /\ Len(x \o y) = Len(x) + Len(y)
        BY <4>3
      <4> QED
        BY <3>1, <3>2, <4>2, <4>3, <4>4
    <3> QED
      BY <3>3, <3>4
  <2> HIDE DEF T
  <2>3. T = {}
    BY <2>1, <2>2, LeastMember
  <2> QED
    BY <2>0, <2>1, <2>3
<1>10. Ranges(f[n], ss, off, n)
  BY <1>7, <1>8, <1>9 DEF Ranges
<1>11. f[n] \in Seq(X)
  BY <1>0, <1>t
<1> QED
  BY <1>5, <1>10, <1>11

-----------------------------------------------------------------------------
(* Offsets.                                                                *)

LEMMA OffsetsGrow ==
    ASSUME NEW n \in Nat, NEW off \in [0..n -> Nat], \A i \in 1..n : off[i - 1] <= off[i],
           NEW x \in 0..n, NEW y \in 0..n, x <= y
    PROVE  off[x] <= off[y]
<1> DEFINE T == {i \in 0..n : x <= i /\ off[x] > off[i]}
<1>1. T \subseteq Nat
  OBVIOUS
<1>2. ASSUME NEW i \in T, \A j \in T : i <= j PROVE FALSE
  <2>1. i \in Nat /\ x \in Nat /\ x <= i /\ off[x] > off[i] /\ i \in 0..n
    OBVIOUS
  <2>2. i # x /\ off[x] \in Nat /\ off[i] \in Nat
    BY <2>1
  <2>3. i - 1 \in 0..n /\ x <= i - 1 /\ i \in 1..n /\ ~(i <= i - 1)
    BY <2>1, <2>2
  <2>4. i - 1 \notin T
    BY <1>2, <2>3
  <2>5. off[x] <= off[i - 1] /\ off[i - 1] \in Nat /\ off[i - 1] <= off[i]
    BY <2>2, <2>3, <2>4
  <2> QED
    BY <2>1, <2>2, <2>5
<1>3. T = {}
  BY <1>1, <1>2, LeastMember
<1>4. y \notin T /\ off[x] \in Nat /\ off[y] \in Nat
  BY <1>3
<1> QED
  BY <1>4

LEMMA Located ==
    ASSUME NEW n \in Nat, NEW off \in [0..n -> Nat], off[0] = 0, NEW k \in 1..off[n]
    PROVE  \E i \in 1..n : off[i - 1] < k /\ k <= off[i]
<1> DEFINE T == {i \in 0..n : k <= off[i]}
<1>1. n \in 0..n /\ off[n] \in Nat
  OBVIOUS
<1>2. T \subseteq Nat /\ n \in T
  BY <1>1
<1>3. PICK i \in T : \A j \in T : i <= j
  BY <1>2, LeastMember
<1>4. i \in 0..n /\ k <= off[i] /\ i # 0
  OBVIOUS
<1>5. i \in 1..n /\ i - 1 \in 0..n /\ ~(i <= i - 1)
  BY <1>4
<1>6. off[i - 1] < k
  <2>1. i - 1 \notin T
    BY <1>3, <1>5
  <2>2. off[i - 1] \in Nat /\ k \in Nat
    BY <1>1, <1>5
  <2> QED
    BY <1>5, <2>1, <2>2
<1> QED
  BY <1>4, <1>5, <1>6

-----------------------------------------------------------------------------
(* The accumulated text.                                                   *)

\* text holds what mergeDelta has accumulated after each event of s.
Accumulates(text, s) ==
    /\ text[0] = <<>>
    /\ \A k \in 1..Len(s) : text[k] = IF IsText(s[k]) THEN Append(text[k - 1], s[k]) ELSE text[k - 1]

LEMMA AccumulatedText ==
    ASSUME NEW X, NEW s \in Seq(X)
    PROVE  \E text \in [0..Len(s) -> Seq(X)] : Accumulates(text, s) /\ Accumulated(s) = text[Len(s)]
<1> DEFINE Is(f) == f = [k \in 0..Len(s) |-> IF k = 0 THEN <<>>
                                  ELSE IF IsText(s[k]) THEN Append(f[k - 1], s[k]) ELSE f[k - 1]]
<1>1. PICK n \in Nat : n = Len(s)
  OBVIOUS
<1>2. PICK step : step = [x \in Nat \X Seq(X) |->
                            IF x[1] \in 1..n /\ IsText(s[x[1]]) THEN Append(x[2], s[x[1]]) ELSE x[2]]
  OBVIOUS
<1>3. step \in [Nat \X Seq(X) -> Seq(X)]
  BY <1>1, <1>2
<1>4. PICK f \in [0..n -> Seq(X)] : Iterates(f, <<>>, step, n)
  <2>1. <<>> \in Seq(X)
    OBVIOUS
  <2> QED
    BY <1>3, <2>1, IterationExists
<1>5. ASSUME NEW k \in 0..n
      PROVE  f[k] = IF k = 0 THEN <<>> ELSE IF IsText(s[k]) THEN Append(f[k - 1], s[k]) ELSE f[k - 1]
  <2>1. f[k] = IF k = 0 THEN <<>> ELSE step[<<k, f[k - 1]>>]
    BY <1>4 DEF Iterates
  <2>2. k # 0 => k \in 1..n /\ f[k - 1] \in Seq(X)
    OBVIOUS
  <2> QED
    BY <1>2, <2>1, <2>2
<1>6. Is(f)
  <2>1. f = [k \in 0..n |-> f[k]]
    OBVIOUS
  <2> QED
    BY <1>1, <1>5, <2>1
<1>7. PICK text : text = CHOOSE g : Is(g)
  OBVIOUS
<1>8. Is(text)
  BY <1>6, <1>7
<1>9. Accumulated(s) = text[n]
  BY <1>1, <1>7 DEF Accumulated
<1>10. \A k \in 0..n : text[k] = IF k = 0 THEN <<>>
                                 ELSE IF IsText(s[k]) THEN Append(text[k - 1], s[k]) ELSE text[k - 1]
  BY <1>1, <1>8
<1>11. DOMAIN text = 0..n
  BY <1>1, <1>8
<1> HIDE DEF Is
<1> DEFINE T == {k \in 0..n : text[k] # f[k]}
<1>12. ASSUME NEW k \in T, \A j \in T : k <= j PROVE FALSE
  <2>1. k \in 0..n /\ text[k] # f[k]
    OBVIOUS
  <2>2. k # 0 => k - 1 \in 0..n /\ k - 1 \notin T
    BY <1>12, <2>1
  <2>3. k # 0 => text[k - 1] = f[k - 1]
    BY <2>2
  <2> HIDE DEF T
  <2> QED
    BY <1>5, <1>10, <2>1, <2>3
<1>13. T = {}
  <2>1. T \subseteq Nat
    OBVIOUS
  <2> HIDE DEF T
  <2> QED
    BY <1>12, <2>1, LeastMember
<1>14. \A k \in 0..n : text[k] = f[k]
  BY <1>13
<1>15. Accumulated(s) = f[n]
  BY <1>9, <1>14
<1>16. Accumulates(f, s)
  <2>1. 0 \in 0..n /\ \A k \in 1..n : k \in 0..n /\ k # 0
    OBVIOUS
  <2> QED
    BY <1>1, <1>5, <2>1 DEF Accumulates
<1> QED
  BY <1>1, <1>15, <1>16

LEMMA AccumulatedType ==
    ASSUME NEW X, NEW s \in Seq(X)
    PROVE  Accumulated(s) \in Seq(X)
<1>1. PICK text \in [0..Len(s) -> Seq(X)] : Accumulated(s) = text[Len(s)]
  BY AccumulatedText
<1> QED
  BY <1>1
=============================================================================
