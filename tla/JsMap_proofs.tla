---------------------------- MODULE JsMap_proofs ----------------------------
(* Lemmas that several proofs share. What Kept does to a Map, for all of     *)
(* them: what stays is what should stay, and in its order. And what sums do  *)
(* that are taken over sets. By induction over the entries or the terms,     *)
(* that is by the least number or set of them for which it would not hold.   *)
EXTENDS JsMap, Functions, FiniteSetTheorems, WellFoundedInduction, TLAPS

(* A nonempty set of numbers has a least one.                                *)
LEMMA LeastOf ==
    ASSUME NEW T \in SUBSET Nat, T # {}
    PROVE  \E x \in T : \A y \in T : x <= y
  <1> DEFINE R == {ss \in Nat \X Nat : ss[1] < ss[2]}
  <1>1. IsWellFoundedOn(R, Nat)
    <2>1. R = OpToRel(<, Nat)
      BY DEF OpToRel
    <2> QED  BY <2>1, NatLessThanWellFounded
  <1>2. PICK x \in T : \A y \in T : ~(<<y, x>> \in R)
    <2> HIDE DEF R
    <2> QED  BY <1>1, WFMin
  <1>3. \A y \in T : ~(y < x)
    BY <1>2
  <1> QED  BY <1>3

(* f[n] is what is kept of the first n entries.                              *)
Step(s, K, f, n) ==
    IF n = 0 THEN <<>>
    ELSE IF s[n] \in K THEN Append(f[n - 1], s[n]) ELSE f[n - 1]
IsKept(s, K, f, n) == f = [i \in 0..n |-> Step(s, K, f, i)]

(* The recursive function of Kept exists ...                                 *)
LEMMA KeptExists ==
    ASSUME NEW s, NEW K, NEW m \in Nat
    PROVE  \E f : IsKept(s, K, f, m)
  <1> DEFINE T == {n \in Nat : ~\E f : IsKept(s, K, f, n)}
  <1> SUFFICES ASSUME T # {} PROVE FALSE
    OBVIOUS
  <1>1. PICK n \in T : \A y \in T : n <= y
    <2>1. T \in SUBSET Nat
      OBVIOUS
    <2> HIDE DEF T
    <2> QED  BY <2>1, LeastOf
  <1>2. n # 0
    <2>1. IsKept(s, K, [i \in 0..0 |-> <<>>], 0)
      BY DEF IsKept, Step
    <2> QED  BY <2>1
  <1>3. PICK f : IsKept(s, K, f, n - 1)
    <2>1. n - 1 \in Nat /\ n - 1 \notin T
      BY <1>1, <1>2
    <2> QED  BY <2>1
  <1> DEFINE g == [i \in 0..n |-> IF i = n THEN Step(s, K, f, n) ELSE f[i]]
  <1>4. IsKept(s, K, g, n)
    <2>1. ASSUME NEW i \in 0..n
          PROVE  g[i] = Step(s, K, g, i)
      <3>1. CASE i = n
        BY <1>2, <3>1 DEF Step
      <3>2. CASE i # n
        <4>1. g[i] = f[i] /\ i \in 0..(n - 1)
          BY <3>2
        <4>2. f[i] = Step(s, K, f, i)
          BY <1>3, <4>1 DEF IsKept
        <4>3. i # 0 => f[i - 1] = g[i - 1]
          BY <3>2
        <4> QED  BY <4>1, <4>2, <4>3 DEF Step
      <3> QED  BY <3>1, <3>2
    <2> QED  BY <2>1 DEF IsKept
  <1> QED  BY <1>4

(* ... so that Kept is its last value.                                       *)
LEMMA KeptUnfolds ==
    ASSUME NEW s, NEW K, Len(s) \in Nat
    PROVE  \E f : IsKept(s, K, f, Len(s)) /\ Kept(s, K) = f[Len(s)]
  <1> DEFINE g == CHOOSE f : IsKept(s, K, f, Len(s))
  <1>1. IsKept(s, K, g, Len(s))
    BY KeptExists
  <1>2. Kept(s, K) = g[Len(s)]
    BY DEF Kept, IsKept, Step
  <1> QED  BY <1>1, <1>2

(* The entries of t are those of the first n of s that are in K; place tells *)
(* where they were.                                                          *)
Places(s, K, t, n, place) ==
    /\ place \in [1..Len(t) -> 1..n]
    /\ \A i \in 1..Len(t) : t[i] = s[place[i]] /\ s[place[i]] \in K
    /\ \A i, j \in 1..Len(t) : i < j => place[i] < place[j]
    /\ \A j \in 1..n : s[j] \in K => \E i \in 1..Len(t) : place[i] = j

LEMMA PlacesStep ==
    ASSUME NEW S, NEW s \in Seq(S), NEW K, NEW n \in 1..Len(s),
           NEW t \in Seq(S), NEW place, Places(s, K, t, n - 1, place), Len(t) <= n - 1,
           (\E j \in 1..(n - 1) : s[j] \notin K) => Len(t) < n - 1
    PROVE  LET u == IF s[n] \in K THEN Append(t, s[n]) ELSE t
           IN  /\ u \in Seq(S) /\ Len(u) <= n
               /\ (\E j \in 1..n : s[j] \notin K) => Len(u) < n
               /\ \E p : Places(s, K, u, n, p)
  <1>1. s[n] \in S /\ Len(s) \in Nat /\ Len(t) \in Nat
    OBVIOUS
  <1>2. CASE s[n] \notin K
    <2>1. place \in [1..Len(t) -> 1..n]
      BY DEF Places
    <2>2. \A j \in 1..n : j = n \/ j \in 1..(n - 1)
      OBVIOUS
    <2>3. Places(s, K, t, n, place)
      BY <1>2, <2>1, <2>2 DEF Places
    <2>4. Len(t) < n
      BY <1>1
    <2> QED  BY <1>1, <1>2, <2>3, <2>4
  <1>3. CASE s[n] \in K
    <2> DEFINE u == Append(t, s[n])
               p == [i \in 1..Len(u) |-> IF i = Len(u) THEN n ELSE place[i]]
    <2>1. /\ u \in Seq(S) /\ Len(u) = Len(t) + 1 /\ u[Len(u)] = s[n]
          /\ \A i \in 1..Len(t) : u[i] = t[i]
      BY <1>1
    <2>2. \A i \in 1..Len(u) : i = Len(u) \/ (i \in 1..Len(t) /\ i # Len(u))
      <3>1. Len(u) = Len(t) + 1
        BY <2>1
      <3> HIDE DEF u
      <3> QED  BY <1>1, <3>1
    <2>3. \A i \in 1..Len(t) : i \in 1..Len(u) /\ p[i] = place[i] /\ place[i] \in 1..(n - 1)
      <3>1. \A i \in 1..Len(t) : place[i] \in 1..(n - 1)
        BY DEF Places
      <3>2. Len(u) = Len(t) + 1
        BY <2>1
      <3> HIDE DEF u
      <3>3. \A i \in 1..Len(t) : i \in 1..Len(u) /\ i # Len(u)
        BY <1>1, <3>2
      <3> QED  BY <3>1, <3>3
    <2>4. Len(u) \in 1..Len(u) /\ p[Len(u)] = n
      <3> HIDE DEF u
      <3>1. Len(u) \in 1..Len(u)
        BY <1>1, <2>1
      <3> QED  BY <3>1
    <2> HIDE DEF u, p
    <2>5. p \in [1..Len(u) -> 1..n]
      <3>1. \A i \in 1..Len(u) : p[i] \in 1..n
        BY <2>2, <2>3, <2>4
      <3> QED  BY <3>1 DEF p
    <2>6. \A i \in 1..Len(u) : u[i] = s[p[i]] /\ s[p[i]] \in K
      BY <1>3, <2>1, <2>2, <2>3, <2>4 DEF Places
    <2>7. ASSUME NEW i \in 1..Len(u), NEW j \in 1..Len(u), i < j
          PROVE  p[i] < p[j]
      <3>1. i \in 1..Len(t) /\ p[i] = place[i]
        BY <1>1, <2>1, <2>3, <2>7
      <3>2. CASE j = Len(u)
        BY <2>3, <2>4, <3>1, <3>2
      <3>3. CASE j # Len(u)
        <4>1. j \in 1..Len(t)
          BY <2>2, <3>3
        <4> QED  BY <2>3, <2>7, <3>1, <4>1 DEF Places
      <3> QED  BY <3>2, <3>3
    <2>8. ASSUME NEW j \in 1..n, s[j] \in K
          PROVE  \E i \in 1..Len(u) : p[i] = j
      <3>1. CASE j = n
        BY <2>4, <3>1
      <3>2. CASE j # n
        <4>1. j \in 1..(n - 1)
          BY <3>2
        <4>2. PICK i \in 1..Len(t) : place[i] = j
          BY <2>8, <4>1 DEF Places
        <4> QED  BY <2>3, <4>2
      <3> QED  BY <3>1, <3>2
    <2>9. Places(s, K, u, n, p)
      BY <2>5, <2>6, <2>7, <2>8 DEF Places
    <2>10. (\E j \in 1..n : s[j] \notin K) => Len(u) < n
      <3>1. \A j \in 1..n : j = n \/ j \in 1..(n - 1)
        OBVIOUS
      <3>2. (\E j \in 1..n : s[j] \notin K) => Len(t) < n - 1
        BY <1>3, <3>1
      <3> QED  BY <1>1, <2>1, <3>2
    <2> QED  BY <1>1, <1>3, <2>1, <2>9, <2>10 DEF u
  <1> QED  BY <1>2, <1>3

(* What is kept: of the entries those in K, none else, in their order.       *)
LEMMA KeptPlaces ==
    ASSUME NEW S, NEW s \in Seq(S), NEW K
    PROVE  /\ Kept(s, K) \in Seq(S) /\ Len(Kept(s, K)) <= Len(s)
           /\ (\E j \in 1..Len(s) : s[j] \notin K) => Len(Kept(s, K)) < Len(s)
           /\ \E place : Places(s, K, Kept(s, K), Len(s), place)
  <1>0. Len(s) \in Nat
    OBVIOUS
  <1>1. PICK f : IsKept(s, K, f, Len(s)) /\ Kept(s, K) = f[Len(s)]
    BY <1>0, KeptUnfolds
  <1> DEFINE Good(n) == /\ f[n] \in Seq(S) /\ Len(f[n]) <= n
                        /\ (\E j \in 1..n : s[j] \notin K) => Len(f[n]) < n
                        /\ \E place : Places(s, K, f[n], n, place)
             T == {n \in Nat : n <= Len(s) /\ ~Good(n)}
  <1>2. T = {}
    <2> SUFFICES ASSUME T # {} PROVE FALSE
      OBVIOUS
    <2>1. PICK n \in T : \A y \in T : n <= y
      <3>1. T \in SUBSET Nat
        OBVIOUS
      <3> HIDE DEF T
      <3> QED  BY <3>1, LeastOf
    <2>2. n \in 0..Len(s) /\ f[n] = Step(s, K, f, n)
      <3>1. n \in Nat /\ n <= Len(s)
        BY <2>1
      <3>2. n \in 0..Len(s)
        BY <1>0, <3>1
      <3>3. f = [i \in 0..Len(s) |-> Step(s, K, f, i)]
        BY <1>1 DEF IsKept
      <3>4. f[n] = [i \in 0..Len(s) |-> Step(s, K, f, i)][n]
        BY <3>3
      <3> QED  BY <3>2, <3>4
    <2>3. n # 0
      <3>1. CASE n = 0
        <4>1. f[n] = <<>>
          BY <2>2, <3>1 DEF Step
        <4>2. Places(s, K, <<>>, 0, [i \in 1..0 |-> 0])
          BY DEF Places
        <4>3. <<>> \in Seq(S) /\ Len(<<>>) = 0 /\ 1..0 = {}
          OBVIOUS
        <4>4. Good(n)
          BY <3>1, <4>1, <4>2, <4>3
        <4> QED  BY <2>1, <4>4
      <3> QED  BY <3>1
    <2>4. n - 1 \in Nat /\ n - 1 <= Len(s) /\ n \in 1..Len(s)
      BY <1>0, <2>2, <2>3
    <2>5. Good(n - 1)
      <3>1. n - 1 \notin T
        BY <2>1, <2>4
      <3> QED  BY <2>4, <3>1
    <2>6. PICK place : Places(s, K, f[n - 1], n - 1, place)
      BY <2>5
    <2>7. f[n] = IF s[n] \in K THEN Append(f[n - 1], s[n]) ELSE f[n - 1]
      BY <2>2, <2>3 DEF Step
    <2>8. Good(n)
      BY <2>4, <2>5, <2>6, <2>7, PlacesStep
    <2> QED  BY <2>1, <2>8
  <1>3. Good(Len(s))
    <2>1. Len(s) \notin T
      BY <1>2
    <2> QED  BY <1>0, <2>1
  <1> QED  BY <1>1, <1>3
----------------------------------------------------------------------------
(* Sums. Of a set of finite sets one is the least: no other is part of it.   *)
LEMMA LeastSet ==
    ASSUME NEW S, IsFiniteSet(S), NEW P \in SUBSET (SUBSET S), P # {}
    PROVE  \E r \in P : IsFiniteSet(r) /\ \A s \in P : s \subseteq r => s = r
  <1> DEFINE T == {n \in Nat : \E r \in P : Cardinality(r) = n}
  <1>1. T \in SUBSET Nat /\ T # {}
    <2>1. PICK r \in P : TRUE
      OBVIOUS
    <2>2. IsFiniteSet(r)
      BY FS_Subset
    <2>3. Cardinality(r) \in Nat
      BY <2>2, FS_CardinalityType
    <2> QED  BY <2>3
  <1>2. PICK n \in T : \A y \in T : n <= y
    <2> HIDE DEF T
    <2> QED  BY <1>1, LeastOf
  <1>3. PICK r \in P : Cardinality(r) = n
    BY <1>2
  <1>4. IsFiniteSet(r)
    BY FS_Subset
  <1>5. ASSUME NEW s \in P, s \subseteq r, s # r
        PROVE  FALSE
    <2>1. IsFiniteSet(s) /\ Cardinality(s) <= n /\ (Cardinality(s) = n => s = r)
      BY <1>3, <1>4, <1>5, FS_Subset
    <2>2. Cardinality(s) \in Nat
      BY <2>1, FS_CardinalityType
    <2>3. Cardinality(s) \in T
      BY <2>2
    <2>4. n <= Cardinality(s) /\ n \in Nat
      BY <1>1, <1>2, <2>3
    <2> HIDE DEF T
    <2> QED  BY <1>5, <2>1, <2>2, <2>4
  <1> QED  BY <1>4, <1>5

(* g[s] is the sum of f over s, for every subset s of S.                     *)
SumStep(f, g, s) ==
    IF s = {} THEN 0
    ELSE f[CHOOSE x \in s : TRUE] + g[s \ {CHOOSE x \in s : TRUE}]
IsSum(f, S, g) == g = [s \in SUBSET S |-> SumStep(f, g, s)]

LEMMA SumUnique ==
    ASSUME NEW f, NEW S, IsFiniteSet(S), NEW R, NEW g, NEW h, IsSum(f, S, g), IsSum(f, R, h),
           NEW s \in SUBSET S, s \in SUBSET R
    PROVE  g[s] = h[s]
  <1> DEFINE P == {r \in SUBSET S : r \in SUBSET R /\ g[r] # h[r]}
  <1> SUFFICES ASSUME P # {} PROVE FALSE
    OBVIOUS
  <1>1. PICK r \in P : \A q \in P : q \subseteq r => q = r
    <2>1. P \in SUBSET (SUBSET S)
      OBVIOUS
    <2> HIDE DEF P
    <2> QED  BY <2>1, LeastSet
  <1>2. r \in SUBSET S /\ r \in SUBSET R /\ g[r] # h[r]
    OBVIOUS
  <1>3. g[r] = SumStep(f, g, r) /\ h[r] = SumStep(f, h, r)
    BY <1>2 DEF IsSum
  <1>4. r # {}
    BY <1>2, <1>3 DEF SumStep
  <1> DEFINE x == CHOOSE y \in r : TRUE
  <1>5. x \in r
    BY <1>4
  <1>6. g[r \ {x}] = h[r \ {x}]
    <2> HIDE DEF x
    <2>1. r \ {x} \subseteq r /\ r \ {x} # r
      BY <1>5
    <2>2. r \ {x} \notin P
      <3> HIDE DEF P
      <3> QED  BY <1>1, <2>1
    <2> QED  BY <1>2, <2>1, <2>2
  <1> QED  BY <1>2, <1>3, <1>4, <1>6 DEF SumStep

LEMMA SumExists ==
    ASSUME NEW f, NEW S, IsFiniteSet(S)
    PROVE  \E g : IsSum(f, S, g)
  <1> DEFINE P == {r \in SUBSET S : ~\E g : IsSum(f, r, g)}
  <1> SUFFICES ASSUME P # {} PROVE FALSE
    OBVIOUS
  <1>1. PICK r \in P : IsFiniteSet(r) /\ \A q \in P : q \subseteq r => q = r
    <2>1. P \in SUBSET (SUBSET S)
      OBVIOUS
    <2> HIDE DEF P
    <2> QED  BY <2>1, LeastSet
  <1>2. r \in SUBSET S /\ ~\E g : IsSum(f, r, g)
    OBVIOUS
  <1> DEFINE Own(s) == CHOOSE g : IsSum(f, s, g)
  <1>4. ASSUME NEW s \in SUBSET r, s # r
        PROVE  IsSum(f, s, Own(s))
    <2>1. s \notin P
      <3> HIDE DEF P
      <3> QED  BY <1>1, <1>4
    <2>2. \E g : IsSum(f, s, g)
      BY <1>2, <2>1
    <2> QED  BY <2>2
  <1> HIDE DEF Own, P
  <1> DEFINE part == [s \in SUBSET r |-> Own(s)[s]]
             g == [s \in SUBSET r |-> IF s = r THEN SumStep(f, part, s) ELSE part[s]]
  <1>5. ASSUME NEW s \in SUBSET r
        PROVE  g[s] = SumStep(f, g, s)
    <2> DEFINE x == CHOOSE y \in s : TRUE
    <2>0. s # {} => s \ {x} \in SUBSET r /\ s \ {x} # r /\ g[s \ {x}] = part[s \ {x}]
      <3>1. s # {} => x \in s
        OBVIOUS
      <3> HIDE DEF x, part
      <3> QED  BY <3>1
    <2>1. SumStep(f, g, s) = SumStep(f, part, s)
      <3> HIDE DEF g, part
      <3> QED  BY <2>0 DEF SumStep
    <2>2. CASE s = r
      BY <2>1, <2>2
    <2>3. CASE s # r
      <3>1. IsSum(f, s, Own(s))
        BY <1>4, <2>3
      <3>2. g[s] = Own(s)[s]
        BY <2>3
      <3>3. Own(s)[s] = SumStep(f, Own(s), s)
        BY <3>1 DEF IsSum
      <3>4. s # {} => Own(s)[s \ {x}] = part[s \ {x}]
        <4> SUFFICES ASSUME s # {} PROVE Own(s)[s \ {x}] = part[s \ {x}]
          OBVIOUS
        <4>1. s \ {x} \in SUBSET r /\ s \ {x} # r
          BY <2>0
        <4>2. part[s \ {x}] = Own(s \ {x})[s \ {x}]
          BY <4>1
        <4>3. IsSum(f, s \ {x}, Own(s \ {x}))
          BY <1>4, <4>1
        <4>4. IsFiniteSet(s)
          BY <1>1, FS_Subset
        <4> HIDE DEF part, g, x
        <4> QED  BY <3>1, <4>2, <4>3, <4>4, SumUnique
      <3> HIDE DEF part, g
      <3> QED  BY <2>1, <3>2, <3>3, <3>4 DEF SumStep
    <2> QED  BY <2>2, <2>3
  <1>6. IsSum(f, r, g)
    BY <1>5 DEF IsSum
  <1> QED  BY <1>2, <1>6

LEMMA SumUnfolds ==
    ASSUME NEW f, NEW S, IsFiniteSet(S)
    PROVE  \E g : IsSum(f, S, g) /\ SumFunctionOnSet(f, S) = g[S]
  <1> DEFINE h == CHOOSE g : IsSum(f, S, g)
  <1>1. IsSum(f, S, h)
    BY SumExists
  <1>2. SumFunctionOnSet(f, S) = h[S]
    BY DEF SumFunctionOnSet, FoldFunctionOnSet, MapThenFoldSet, IsSum, SumStep
  <1> QED  BY <1>1, <1>2

(* The sum over no terms, and over others.                                   *)
LEMMA SumIs ==
    ASSUME NEW f, NEW S, IsFiniteSet(S)
    PROVE  /\ S = {} => SumFunctionOnSet(f, S) = 0
           /\ S # {} => LET x == CHOOSE y \in S : TRUE
                        IN  SumFunctionOnSet(f, S) = f[x] + SumFunctionOnSet(f, S \ {x})
  <1>1. PICK g : IsSum(f, S, g) /\ SumFunctionOnSet(f, S) = g[S]
    BY SumUnfolds
  <1>2. g[S] = SumStep(f, g, S)
    BY <1>1 DEF IsSum
  <1>3. CASE S = {}
    BY <1>1, <1>2, <1>3 DEF SumStep
  <1>4. CASE S # {}
    <2> DEFINE x == CHOOSE y \in S : TRUE
    <2>1. IsFiniteSet(S \ {x})
      BY FS_Subset
    <2>2. PICK h : IsSum(f, S \ {x}, h) /\ SumFunctionOnSet(f, S \ {x}) = h[S \ {x}]
      BY <2>1, SumUnfolds
    <2>3. g[S \ {x}] = h[S \ {x}]
      <3> HIDE DEF x
      <3> QED  BY <1>1, <2>2, SumUnique
    <2> QED  BY <1>1, <1>2, <1>4, <2>2, <2>3 DEF SumStep
  <1> QED  BY <1>3, <1>4

LEMMA SumNat ==
    ASSUME NEW f, NEW S, IsFiniteSet(S), \A x \in S : f[x] \in Nat
    PROVE  SumFunctionOnSet(f, S) \in Nat
  <1> DEFINE P == {r \in SUBSET S : SumFunctionOnSet(f, r) \notin Nat}
  <1> SUFFICES ASSUME P # {} PROVE FALSE
    OBVIOUS
  <1>1. PICK r \in P : IsFiniteSet(r) /\ \A q \in P : q \subseteq r => q = r
    <2>1. P \in SUBSET (SUBSET S)
      OBVIOUS
    <2> HIDE DEF P
    <2> QED  BY <2>1, LeastSet
  <1>2. r \in SUBSET S /\ SumFunctionOnSet(f, r) \notin Nat
    OBVIOUS
  <1>3. r # {}
    <2>1. r = {} => SumFunctionOnSet(f, r) = 0
      BY <1>1, SumIs
    <2> QED  BY <1>2, <2>1
  <1> DEFINE x == CHOOSE y \in r : TRUE
  <1>4. x \in r /\ SumFunctionOnSet(f, r) = f[x] + SumFunctionOnSet(f, r \ {x})
    BY <1>1, <1>3, SumIs
  <1> HIDE DEF x
  <1>5. SumFunctionOnSet(f, r \ {x}) \in Nat
    <2>1. r \ {x} \notin P
      <3> HIDE DEF P
      <3> QED  BY <1>1, <1>4
    <2> QED  BY <1>2, <2>1
  <1>6. f[x] \in Nat
    BY <1>2, <1>4
  <1> QED  BY <1>2, <1>4, <1>5, <1>6

(* A sum is any of its terms and the sum of the others.                      *)
LEMMA SumSplit ==
    ASSUME NEW f, NEW S, IsFiniteSet(S), \A x \in S : f[x] \in Nat, NEW a \in S
    PROVE  SumFunctionOnSet(f, S) = f[a] + SumFunctionOnSet(f, S \ {a})
  <1> DEFINE Splits(r) == \A x \in r :
                 SumFunctionOnSet(f, r) = f[x] + SumFunctionOnSet(f, r \ {x})
             P == {r \in SUBSET S : ~Splits(r)}
  <1> SUFFICES ASSUME P # {} PROVE FALSE
    <2> SUFFICES Splits(S)
      OBVIOUS
    <2> HIDE DEF Splits
    <2> QED  OBVIOUS
  <1>1. PICK r \in P : IsFiniteSet(r) /\ \A q \in P : q \subseteq r => q = r
    <2>1. P \in SUBSET (SUBSET S)
      OBVIOUS
    <2> HIDE DEF P
    <2> QED  BY <2>1, LeastSet
  <1>2. r \in SUBSET S /\ ~Splits(r)
    <2> HIDE DEF Splits
    <2> QED  OBVIOUS
  <1>3. PICK x \in r : SumFunctionOnSet(f, r) # f[x] + SumFunctionOnSet(f, r \ {x})
    BY <1>2
  <1> DEFINE c == CHOOSE y \in r : TRUE
  <1>4. c \in r /\ SumFunctionOnSet(f, r) = f[c] + SumFunctionOnSet(f, r \ {c})
    BY <1>1, <1>3, SumIs
  <1> HIDE DEF c
  <1>5. c # x
    BY <1>3, <1>4
  <1>6. ASSUME NEW z \in r
        PROVE  Splits(r \ {z})
    <2>1. r \ {z} \notin P
      <3> HIDE DEF P
      <3> QED  BY <1>1
    <2> HIDE DEF Splits
    <2> QED  BY <1>2, <2>1
  <1> HIDE DEF P
  <1> DEFINE rest == SumFunctionOnSet(f, (r \ {c}) \ {x})
  <1>7. SumFunctionOnSet(f, r \ {c}) = f[x] + rest
    <2>1. Splits(r \ {c}) /\ x \in r \ {c}
      BY <1>4, <1>5, <1>6
    <2> QED  BY <2>1
  <1>8. SumFunctionOnSet(f, r \ {x}) = f[c] + rest
    <2>1. (r \ {x}) \ {c} = (r \ {c}) \ {x}
      OBVIOUS
    <2>2. Splits(r \ {x}) /\ c \in r \ {x}
      BY <1>4, <1>5, <1>6
    <2>3. SumFunctionOnSet(f, r \ {x}) = f[c] + SumFunctionOnSet(f, (r \ {x}) \ {c})
      BY <2>2
    <2> QED  BY <2>1, <2>3
  <1>9. rest \in Nat
    <2>1. IsFiniteSet((r \ {c}) \ {x})
      BY <1>1, FS_Subset
    <2>2. \A y \in (r \ {c}) \ {x} : f[y] \in Nat
      BY <1>2
    <2> QED  BY <2>1, <2>2, SumNat
  <1>10. f[x] \in Nat /\ f[c] \in Nat
    BY <1>2, <1>4
  <1> HIDE DEF rest, Splits
  <1> QED  BY <1>3, <1>4, <1>7, <1>8, <1>9, <1>10

(* A sum is at most another one that has its terms, or greater ones.         *)
LEMMA SumCover ==
    ASSUME NEW f, NEW A, IsFiniteSet(A), \A x \in A : f[x] \in Nat,
           NEW g, NEW B, IsFiniteSet(B), \A x \in B : g[x] \in Nat,
           \A x \in A : f[x] > 0 => x \in B /\ f[x] <= g[x]
    PROVE  SumFunctionOnSet(f, A) <= SumFunctionOnSet(g, B)
  <1> DEFINE Covered(r) == \A b \in SUBSET B :
                 (\A x \in r : f[x] > 0 => x \in b) =>
                   SumFunctionOnSet(f, r) <= SumFunctionOnSet(g, b)
             P == {r \in SUBSET A : ~Covered(r)}
  <1> SUFFICES ASSUME P # {} PROVE FALSE
    <2> SUFFICES Covered(A)
      OBVIOUS
    <2> HIDE DEF Covered
    <2> QED  OBVIOUS
  <1>1. PICK r \in P : IsFiniteSet(r) /\ \A q \in P : q \subseteq r => q = r
    <2>1. P \in SUBSET (SUBSET A)
      OBVIOUS
    <2> HIDE DEF P
    <2> QED  BY <2>1, LeastSet
  <1>2. r \in SUBSET A /\ ~Covered(r)
    <2> HIDE DEF Covered
    <2> QED  OBVIOUS
  <1>3. PICK b \in SUBSET B :
          /\ \A x \in r : f[x] > 0 => x \in b
          /\ ~(SumFunctionOnSet(f, r) <= SumFunctionOnSet(g, b))
    BY <1>2
  <1>4. IsFiniteSet(b) /\ \A y \in b : g[y] \in Nat
    BY FS_Subset
  <1>5. SumFunctionOnSet(g, b) \in Nat
    BY <1>4, SumNat
  <1>6. r # {}
    <2>1. r = {} => SumFunctionOnSet(f, r) = 0
      BY <1>1, SumIs
    <2> QED  BY <1>3, <1>5, <2>1
  <1>7. PICK x : x \in r
    BY <1>6
  <1>8. f[x] \in Nat /\ \A y \in r : f[y] \in Nat
    BY <1>2, <1>7
  <1>9. SumFunctionOnSet(f, r) = f[x] + SumFunctionOnSet(f, r \ {x})
    BY <1>1, <1>7, <1>8, SumSplit
  <1>10. Covered(r \ {x})
    <2>1. r \ {x} \notin P
      <3> HIDE DEF P
      <3> QED  BY <1>1, <1>7
    <2> HIDE DEF Covered
    <2> QED  BY <1>2, <2>1
  <1>11. SumFunctionOnSet(f, r \ {x}) \in Nat
    <2>1. IsFiniteSet(r \ {x})
      BY <1>1, FS_Subset
    <2> QED  BY <1>8, <2>1, SumNat
  <1> HIDE DEF P
  <1>12. CASE f[x] = 0
    <2>1. SumFunctionOnSet(f, r \ {x}) <= SumFunctionOnSet(g, b)
      BY <1>3, <1>10
    <2> HIDE DEF Covered
    <2> QED  BY <1>3, <1>5, <1>9, <1>11, <1>12, <2>1
  <1>13. CASE f[x] # 0
    <2>1. f[x] > 0
      BY <1>8, <1>13
    <2>2. x \in b /\ f[x] <= g[x] /\ g[x] \in Nat
      BY <1>2, <1>3, <1>4, <1>7, <2>1
    <2>3. SumFunctionOnSet(g, b) = g[x] + SumFunctionOnSet(g, b \ {x})
      BY <1>4, <2>2, SumSplit
    <2>4. SumFunctionOnSet(g, b \ {x}) \in Nat
      <3>1. IsFiniteSet(b \ {x})
        BY <1>4, FS_Subset
      <3> QED  BY <1>4, <3>1, SumNat
    <2>5. SumFunctionOnSet(f, r \ {x}) <= SumFunctionOnSet(g, b \ {x})
      <3>1. b \ {x} \in SUBSET B /\ \A y \in r \ {x} : f[y] > 0 => y \in b \ {x}
        BY <1>3
      <3> QED  BY <1>10, <3>1
    <2> HIDE DEF Covered
    <2> QED  BY <1>3, <1>8, <1>9, <1>11, <2>2, <2>3, <2>4, <2>5
  <1> QED  BY <1>12, <1>13

(* One term greater by one.                                                  *)
LEMMA SumMore ==
    ASSUME NEW D, NEW f \in [D -> Nat], NEW A \in SUBSET D, IsFiniteSet(A), NEW a \in D,
           NEW g \in [D -> Nat], g[a] = f[a] + 1, \A x \in D : x # a => g[x] = f[x]
    PROVE  /\ SumFunctionOnSet(f, A) \in Nat
           /\ a \in A => SumFunctionOnSet(g, A) = SumFunctionOnSet(f, A) + 1
           /\ a \notin A => SumFunctionOnSet(g, A) = SumFunctionOnSet(f, A)
  <1>1. /\ g \in [D -> Nat] /\ g[a] = f[a] + 1
        /\ \A x \in D : x # a => g[x] = f[x]
    OBVIOUS
  <1>2. \A x \in A : f[x] \in Nat /\ g[x] \in Nat
    BY <1>1
  <1>3. ASSUME NEW r \in SUBSET A, a \notin r
        PROVE  SumFunctionOnSet(g, r) = SumFunctionOnSet(f, r) /\ SumFunctionOnSet(f, r) \in Nat
    <2>1. IsFiniteSet(r)
      BY FS_Subset
    <2>2. \A x \in r : f[x] \in Nat /\ g[x] \in Nat /\ f[x] <= g[x] /\ g[x] <= f[x]
      BY <1>1, <1>2, <1>3
    <2>3. SumFunctionOnSet(g, r) \in Nat /\ SumFunctionOnSet(f, r) \in Nat
      BY <2>1, <2>2, SumNat
    <2>4. SumFunctionOnSet(f, r) <= SumFunctionOnSet(g, r)
      BY <2>1, <2>2, SumCover
    <2>5. SumFunctionOnSet(g, r) <= SumFunctionOnSet(f, r)
      BY <2>1, <2>2, SumCover
    <2> QED  BY <2>3, <2>4, <2>5
  <1>4. SumFunctionOnSet(f, A) \in Nat
    BY <1>2, SumNat
  <1>5. CASE a \in A
    <2>1. SumFunctionOnSet(g, A) = g[a] + SumFunctionOnSet(g, A \ {a})
      BY <1>2, <1>5, SumSplit
    <2>2. SumFunctionOnSet(f, A) = f[a] + SumFunctionOnSet(f, A \ {a})
      BY <1>2, <1>5, SumSplit
    <2>3. /\ SumFunctionOnSet(g, A \ {a}) = SumFunctionOnSet(f, A \ {a})
          /\ SumFunctionOnSet(f, A \ {a}) \in Nat
      BY <1>3
    <2>4. f[a] \in Nat
      BY <1>2, <1>5
    <2> QED  BY <1>1, <1>4, <1>5, <2>1, <2>2, <2>3, <2>4
  <1>6. CASE a \notin A
    BY <1>1, <1>3, <1>4, <1>6
  <1> QED  BY <1>5, <1>6
=============================================================================
