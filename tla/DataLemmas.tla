----------------------------- MODULE DataLemmas -----------------------------
(***************************************************************************)
(* Facts about numbers, finite sets, sums and lists that the proofs about   *)
(* several components rest on.                                              *)
(***************************************************************************)
EXTENDS Lists, Functions, FiniteSetTheorems, SequenceTheorems,
        WellFoundedInduction, TLAPS

-----------------------------------------------------------------------------
(* Induction over finite sets and numbers, for a set of them, and what it   *)
(* gives of sums.                                                           *)

LEMMA SubsetInduction ==
  ASSUME NEW S, IsFiniteSet(S), NEW good \in SUBSET (SUBSET S),
         \A T \in SUBSET S : (\A x \in T : T \ {x} \in good) => T \in good
  PROVE  \A T \in SUBSET S : T \in good
<1>. DEFINE bad == (SUBSET S) \ good
<1>. SUFFICES ASSUME bad # {} PROVE FALSE
  OBVIOUS
<1>1. IsWellFoundedOn(StrictSubsetOrdering(S), SUBSET S)
  <2>1. FiniteSubsetsOf(S) = SUBSET S
    BY FS_FiniteSubsetsOfFinite
  <2>2. IsWellFoundedOn(StrictSubsetOrdering(S), FiniteSubsetsOf(S))
    BY FS_StrictSubsetOrderingWellFounded
  <2>. QED  BY <2>1, <2>2, Zenon
<1>2. bad \subseteq SUBSET S /\ bad # {}
  OBVIOUS
<1>. HIDE DEF bad
<1>3. PICK T \in bad : \A U \in bad : ~ (<<U, T>> \in StrictSubsetOrdering(S))
  BY <1>1, <1>2, WFMin
<1>4. T \in SUBSET S /\ T \notin good
  BY DEF bad
<1>5. ASSUME NEW x \in T
      PROVE  T \ {x} \in good
  <2>1. <<T \ {x}, T>> \in StrictSubsetOrdering(S)
    BY <1>4 DEF StrictSubsetOrdering
  <2>. QED  BY <1>3, <1>4, <2>1 DEF bad
<1>. QED  BY <1>4, <1>5

LEMMA NumberInduction ==
  ASSUME NEW N, 0 \in N, \A n \in Nat : n \in N => n + 1 \in N
  PROVE  \A n \in Nat : n \in N
<1>. DEFINE less == {ss \in Nat \X Nat : ss[1] < ss[2]}
            bad == Nat \ N
<1>. SUFFICES ASSUME bad # {} PROVE FALSE
  OBVIOUS
<1>1. IsWellFoundedOn(less, Nat)
  BY NatLessThanWellFounded DEF OpToRel
<1>2. bad \subseteq Nat /\ bad # {}
  OBVIOUS
<1>. HIDE DEF bad, less
<1>3. PICK n \in bad : \A m \in bad : ~ (<<m, n>> \in less)
  BY <1>1, <1>2, WFMin
<1>4. n \in Nat /\ n \notin N /\ n # 0
  BY DEF bad
<1>5. n - 1 \in Nat /\ <<n - 1, n>> \in less
  BY <1>4 DEF less
<1>6. n - 1 \in N
  BY <1>3, <1>5 DEF bad
<1>. QED  BY <1>4, <1>5, <1>6

(* One step of SumFunction.                                                 *)
Some(s) == CHOOSE y \in s : TRUE

SumStep(f, g, s) ==
  IF s = {} THEN 0 ELSE f[Some(s)] + g[s \ {Some(s)}]

LEMMA SomeIsIn ==
  ASSUME NEW s, s # {}
  PROVE  Some(s) \in s
BY DEF Some

LEMMA SumUnfolds ==
  ASSUME NEW f
  PROVE  SumFunction(f) =
           (CHOOSE g : g = [s \in SUBSET DOMAIN f |-> SumStep(f, g, s)])
             [DOMAIN f]
BY DEF SumFunction, SumFunctionOnSet, FoldFunctionOnSet, MapThenFoldSet,
       SumStep, Some

(* A function that each step gets from the one before is there.             *)
Steps(f, V, a, b, base, step) ==
  /\ f \in [a .. b -> V]
  /\ f[a] = base
  /\ \A n \in a + 1 .. b : f[n] = step[<<f[n - 1], n>>]

LEMMA StepsExist ==
  ASSUME NEW V, NEW a \in Int, NEW b \in Int, a <= b, NEW base \in V,
         NEW step \in [V \X Int -> V]
  PROVE  \E f : Steps(f, V, a, b, base, step)
<1>. DEFINE N == {n \in Nat : \E f : Steps(f, V, a, a + n, base, step)}
<1>1. 0 \in N
  <2>. DEFINE f == [i \in a .. a |-> base]
  <2>1. Steps(f, V, a, a, base, step)
    <3>1. f \in [a .. a -> V] /\ f[a] = base
      OBVIOUS
    <3>2. \A n \in a + 1 .. a : FALSE
      OBVIOUS
    <3>. HIDE DEF f
    <3>. QED  BY <3>1, <3>2 DEF Steps
  <2>. HIDE DEF f
  <2>2. a + 0 = a
    OBVIOUS
  <2>. QED  BY <2>1, <2>2
<1>2. ASSUME NEW n \in Nat, n \in N PROVE n + 1 \in N
  <2>. DEFINE c == a + n
              d == a + (n + 1)
  <2>1. c \in Int /\ d \in Int /\ d = c + 1 /\ a <= c
    OBVIOUS
  <2>2. PICK f : Steps(f, V, a, c, base, step)
    BY <1>2
  <2>. HIDE DEF c, d
  <2>3. f \in [a .. c -> V] /\ f[a] = base
    BY <2>2 DEF Steps
  <2>4. \A i \in a + 1 .. c : f[i] = step[<<f[i - 1], i>>]
    BY <2>2 DEF Steps
  <2>. DEFINE g == [i \in a .. d |-> IF i = d THEN step[<<f[c], d>>] ELSE f[i]]
  <2>5. step[<<f[c], d>>] \in V
    BY <2>1, <2>3
  <2>6. g \in [a .. d -> V]
    BY <2>1, <2>3, <2>5
  <2>7. g[a] = base
    BY <2>1, <2>3
  <2>8. ASSUME NEW i \in a + 1 .. d PROVE g[i] = step[<<g[i - 1], i>>]
    <3>1. CASE i = d
      <4>1. g[i] = step[<<f[c], d>>] /\ g[i - 1] = f[c]
        BY <2>1, <3>1
      <4>. QED  BY <3>1, <4>1
    <3>2. CASE i # d
      <4>1. i \in a + 1 .. c /\ g[i] = f[i] /\ g[i - 1] = f[i - 1]
        BY <2>1, <3>2
      <4>. QED  BY <2>4, <4>1
    <3>. QED  BY <3>1, <3>2
  <2>. HIDE DEF g
  <2>9. Steps(g, V, a, d, base, step)
    BY <2>6, <2>7, <2>8 DEF Steps
  <2>. QED  BY <2>9 DEF d
<1>. HIDE DEF N
<1>3. \A n \in Nat : n \in N
  BY <1>1, <1>2, NumberInduction
<1>4. b - a \in N
  BY <1>3
<1>5. a + (b - a) = b
  OBVIOUS
<1>. QED  BY <1>4, <1>5 DEF N

(* Of natural numbers one is the least.                                     *)
LEMMA LeastNatural ==
  ASSUME NEW S \in SUBSET Nat, S # {}
  PROVE  \E m \in S : \A y \in S : m <= y
<1>. DEFINE N == {n \in Nat : \A y \in S : n <= y}
<1>. SUFFICES ASSUME \A m \in S : m \notin N PROVE FALSE
  OBVIOUS
<1>1. 0 \in N
  OBVIOUS
<1>2. ASSUME NEW n \in Nat, n \in N PROVE n + 1 \in N
  <2>1. \A y \in S : n <= y /\ n # y /\ y \in Nat
    BY <1>2
  <2>. QED  BY <2>1
<1>3. \A n \in Nat : n \in N
  <2>. HIDE DEF N
  <2>. QED  BY <1>1, <1>2, NumberInduction
<1>. QED  BY <1>3

(* A finite set of integers has a greatest and a least.                     *)
LEMMA GreatestExists ==
  ASSUME NEW S \in SUBSET Int, IsFiniteSet(S), S # {}
  PROVE  \E m \in S : \A y \in S : y <= m
<1>. DEFINE Top(T) == \E m \in T : \A y \in T : y <= m
            good == {T \in SUBSET S : T = {} \/ Top(T)}
<1>1. ASSUME NEW T \in SUBSET S, \A x \in T : T \ {x} \in good
      PROVE  T \in good
  <2>. SUFFICES ASSUME T # {} PROVE Top(T)
    OBVIOUS
  <2>1. PICK x \in T : TRUE
    OBVIOUS
  <2>2. T \ {x} = {} \/ Top(T \ {x})
    BY <1>1, <2>1
  <2>3. CASE T \ {x} = {}
    <3>1. \A y \in T : y = x
      BY <2>3
    <3>. QED  BY <2>1, <3>1
  <2>4. CASE Top(T \ {x})
    <3>1. PICK m \in T \ {x} : \A y \in T \ {x} : y <= m
      BY <2>4
    <3>2. m \in Int /\ x \in Int
      BY <2>1, <3>1
    <3>3. CASE x <= m
      <4>1. \A y \in T : y <= m
        BY <3>1, <3>3
      <4>. QED  BY <3>1, <4>1
    <3>4. CASE m <= x
      <4>1. \A y \in T : y \in Int /\ y <= x
        BY <3>1, <3>2, <3>4
      <4>. QED  BY <2>1, <4>1
    <3>. QED  BY <3>2, <3>3, <3>4
  <2>. QED  BY <2>2, <2>3, <2>4
<1>2. good \in SUBSET (SUBSET S) /\ \A T \in good : T # {} => Top(T)
  OBVIOUS
<1>. HIDE DEF good
<1>3. S \in good
  BY <1>1, <1>2, SubsetInduction
<1>. QED  BY <1>2, <1>3

LEMMA LeastExists ==
  ASSUME NEW S \in SUBSET Int, IsFiniteSet(S), S # {}
  PROVE  \E m \in S : \A y \in S : m <= y
<1>. DEFINE minus == {-x : x \in S}
<1>1. minus \in SUBSET Int /\ IsFiniteSet(minus) /\ minus # {}
  <2>1. minus \in SUBSET Int
    OBVIOUS
  <2>2. minus # {}
    OBVIOUS
  <2>3. IsFiniteSet(minus)
    <3>. DEFINE f == [x \in S |-> -x]
    <3>1. f \in Surjection(S, minus)
      BY DEF Surjection
    <3>. HIDE DEF f, minus
    <3>. QED  BY <3>1, FS_Surjection
  <2>. QED  BY <2>1, <2>2, <2>3
<1>2. PICK m \in minus : \A y \in minus : y <= m
  <2>. HIDE DEF minus
  <2>. QED  BY <1>1, GreatestExists
<1>3. -m \in S /\ m \in Int
  BY <1>2
<1>4. ASSUME NEW y \in S PROVE -m <= y
  <2>1. -y <= m /\ y \in Int
    BY <1>2
  <2>. QED  BY <1>3, <2>1
<1>. QED  BY <1>3, <1>4

(* What SumFunction computes on the way, for every part of the domain.      *)
SumsOf(f, S, sum) ==
  /\ sum \in [SUBSET S -> Nat]
  /\ SumFunction(f) = sum[S] /\ sum[{}] = 0
  /\ \A s \in SUBSET S : s # {} => sum[s] = f[Some(s)] + sum[s \ {Some(s)}]

LEMMA SumExists ==
  ASSUME NEW S, IsFiniteSet(S), NEW f \in [S -> Nat]
  PROVE  \E sum : SumsOf(f, S, sum)
<1>. DEFINE Small(n) == {s \in SUBSET S : Cardinality(s) <= n}
            Sums(n) == {g \in [Small(n) -> Nat] :
                          \A s \in Small(n) : g[s] = SumStep(f, g, s)}
            N == {n \in Nat : Sums(n) # {}}
<1>0. \A s \in SUBSET S :
        /\ IsFiniteSet(s) /\ Cardinality(s) \in Nat
        /\ Cardinality(s) = 0 <=> s = {}
        /\ \A x \in s : Cardinality(s \ {x}) = Cardinality(s) - 1
  BY FS_Subset, FS_CardinalityType, FS_EmptySet, FS_RemoveElement
<1>1. 0 \in N
  <2>1. Small(0) = {{}}
    <3>1. \A s \in SUBSET S : Cardinality(s) <= 0 <=> s = {}
      BY <1>0
    <3>. QED  BY <3>1
  <2>2. [s \in Small(0) |-> 0] \in Sums(0)
    BY <2>1 DEF SumStep
  <2>. QED  BY <2>2
<1>2. ASSUME NEW n \in Nat, n \in N
      PROVE  n + 1 \in N
  <2>1. PICK g \in [Small(n) -> Nat] :
          \A s \in Small(n) : g[s] = SumStep(f, g, s)
    BY <1>2
  <2>. DEFINE h == [s \in Small(n + 1) |->
                      IF s \in Small(n) THEN g[s] ELSE SumStep(f, g, s)]
  <2>2. ASSUME NEW s \in Small(n + 1), s # {}
        PROVE  Some(s) \in S /\ s \ {Some(s)} \in Small(n)
    <3>1. s \in SUBSET S /\ Cardinality(s) <= n + 1 /\ Some(s) \in s
      BY <2>2, SomeIsIn
    <3>2. Cardinality(s \ {Some(s)}) <= n
      BY <1>0, <3>1
    <3>. QED  BY <3>1, <3>2
  <2>3. \A s \in Small(n + 1) : SumStep(f, g, s) \in Nat
    BY <2>1, <2>2 DEF SumStep
  <2>4. \A s \in Small(n + 1) : SumStep(f, h, s) = SumStep(f, g, s)
    <3>1. \A s \in Small(n) : s \in Small(n + 1) /\ h[s] = g[s]
      BY <1>0
    <3>. HIDE DEF h, Small
    <3>. QED  BY <2>2, <3>1 DEF SumStep
  <2>5. h \in [Small(n + 1) -> Nat]
    BY <2>1, <2>3
  <2>6. \A s \in Small(n + 1) : h[s] = SumStep(f, g, s)
    BY <2>1
  <2>7. h \in Sums(n + 1)
    BY <2>4, <2>5, <2>6
  <2>. HIDE DEF Sums
  <2>. QED  BY <2>7
<1>3. Cardinality(S) \in N
  <2>. HIDE DEF N
  <2>. QED  BY <1>0, <1>1, <1>2, NumberInduction
<1>4. Small(Cardinality(S)) = SUBSET S
  BY FS_Subset, <1>0
<1>5. PICK g \in [SUBSET S -> Nat] : \A s \in SUBSET S : g[s] = SumStep(f, g, s)
  BY <1>3, <1>4
<1>6. PICK sum : /\ sum = [s \in SUBSET S |-> SumStep(f, sum, s)]
                  /\ SumFunction(f) = sum[S]
  <2>. DEFINE h == CHOOSE h : h = [s \in SUBSET S |-> SumStep(f, h, s)]
  <2>1. g = [s \in SUBSET S |-> SumStep(f, g, s)]
    BY <1>5
  <2>2. h = [s \in SUBSET S |-> SumStep(f, h, s)]
    BY <2>1
  <2>3. SumFunction(f) = h[S]
    BY SumUnfolds
  <2>. HIDE DEF h
  <2>. QED  BY <2>2, <2>3
<1>7. \A s \in SUBSET S : sum[s] = SumStep(f, sum, s)
  <2>1. \A s \in SUBSET S : [t \in SUBSET S |-> SumStep(f, sum, t)][s]
                              = SumStep(f, sum, s)
    OBVIOUS
  <2>. QED  BY <1>6, <2>1
<1>8. sum[{}] = 0
  <2>1. SumStep(f, sum, {}) = 0
    BY DEF SumStep
  <2>. QED  BY <1>7, <2>1
<1>. DEFINE good == {s \in SUBSET S : sum[s] \in Nat}
<1>9. {} \in good
  BY <1>8
<1>10. ASSUME NEW s \in SUBSET S, s # {}, s \ {Some(s)} \in good
       PROVE  s \in good
  <2>1. Some(s) \in S
    BY <1>10, SomeIsIn
  <2>2. f[Some(s)] \in Nat /\ sum[s \ {Some(s)}] \in Nat
    BY <1>10, <2>1
  <2>3. SumStep(f, sum, s) \in Nat
    BY <1>10, <2>2 DEF SumStep
  <2>. QED  BY <1>7, <2>3
<1>11. good \in SUBSET (SUBSET S) /\ \A s \in good : sum[s] \in Nat
  OBVIOUS
<1>. HIDE DEF good
<1>12. \A s \in SUBSET S : (\A x \in s : s \ {x} \in good) => s \in good
  BY <1>9, <1>10, SomeIsIn
<1>13. \A s \in SUBSET S : s \in good
  BY <1>11, <1>12, SubsetInduction
<1>14. sum \in [SUBSET S -> Nat]
  <2>1. \A s \in SUBSET S : sum[s] \in Nat
    BY <1>11, <1>13
  <2>2. sum = [s \in SUBSET S |-> sum[s]]
    <3>1. sum = [s \in SUBSET S |-> SumStep(f, sum, s)]
      BY <1>6
    <3>. QED  BY <3>1
  <2>. QED  BY <2>1, <2>2
<1>15. \A s \in SUBSET S : s # {} =>
         sum[s] = f[Some(s)] + sum[s \ {Some(s)}]
  BY <1>7 DEF SumStep
<1>. QED  BY <1>6, <1>8, <1>14, <1>15 DEF SumsOf

LEMMA SumIsNat ==
  ASSUME NEW S, IsFiniteSet(S), NEW f \in [S -> Nat]
  PROVE  SumFunction(f) \in Nat
<1>1. PICK sum : SumsOf(f, S, sum)
  BY SumExists
<1>. QED  BY <1>1 DEF SumsOf

(* What holds of the parts holds of the sum.                                *)
LEMMA SumsAtMost ==
  ASSUME NEW S, IsFiniteSet(S), NEW f \in [S -> Nat], NEW g \in [S -> Nat],
         NEW h \in [S -> Nat], \A x \in S : f[x] + g[x] <= h[x]
  PROVE  SumFunction(f) + SumFunction(g) <= SumFunction(h)
<1>1. PICK F \in [SUBSET S -> Nat] :
        /\ SumFunction(f) = F[S] /\ F[{}] = 0
        /\ \A s \in SUBSET S : s # {} => F[s] = f[Some(s)] + F[s \ {Some(s)}]
  <2>1. \E sum : SumsOf(f, S, sum)
    BY SumExists
  <2>. QED  BY <2>1 DEF SumsOf
<1>2. PICK G \in [SUBSET S -> Nat] :
        /\ SumFunction(g) = G[S] /\ G[{}] = 0
        /\ \A s \in SUBSET S : s # {} => G[s] = g[Some(s)] + G[s \ {Some(s)}]
  <2>1. \E sum : SumsOf(g, S, sum)
    BY SumExists
  <2>. QED  BY <2>1 DEF SumsOf
<1>3. PICK H \in [SUBSET S -> Nat] :
        /\ SumFunction(h) = H[S] /\ H[{}] = 0
        /\ \A s \in SUBSET S : s # {} => H[s] = h[Some(s)] + H[s \ {Some(s)}]
  <2>1. \E sum : SumsOf(h, S, sum)
    BY SumExists
  <2>. QED  BY <2>1 DEF SumsOf
<1>. DEFINE good == {s \in SUBSET S : F[s] + G[s] <= H[s]}
<1>4. {} \in good
  BY <1>1, <1>2, <1>3
<1>5. ASSUME NEW s \in SUBSET S, s # {}, s \ {Some(s)} \in good
      PROVE  s \in good
  <2>. DEFINE x == Some(s)
              t == s \ {x}
  <2>1. x \in S /\ t \in SUBSET S
    BY <1>5, SomeIsIn
  <2>2. F[s] = f[x] + F[t] /\ G[s] = g[x] + G[t] /\ H[s] = h[x] + H[t]
    BY <1>1, <1>2, <1>3, <1>5
  <2>3. F[t] + G[t] <= H[t]
    BY <1>5
  <2>. HIDE DEF x, t
  <2>4. f[x] + g[x] <= h[x]
    BY <2>1
  <2>5. /\ F[t] \in Nat /\ G[t] \in Nat /\ H[t] \in Nat
        /\ f[x] \in Nat /\ g[x] \in Nat /\ h[x] \in Nat
    BY <2>1
  <2>. QED  BY <2>2, <2>3, <2>4, <2>5
<1>6. good \in SUBSET (SUBSET S) /\ \A s \in good : F[s] + G[s] <= H[s]
  OBVIOUS
<1>. HIDE DEF good
<1>7. \A s \in SUBSET S : (\A x \in s : s \ {x} \in good) => s \in good
  BY <1>4, <1>5, SomeIsIn
<1>8. S \in good
  BY <1>6, <1>7, SubsetInduction
<1>. QED  BY <1>1, <1>2, <1>3, <1>6, <1>8

LEMMA SumAtMost ==
  ASSUME NEW S, IsFiniteSet(S), NEW f \in [S -> Nat], NEW h \in [S -> Nat],
         \A x \in S : f[x] <= h[x]
  PROVE  SumFunction(f) <= SumFunction(h)
<1>. DEFINE g == [x \in S |-> 0]
<1>1. g \in [S -> Nat] /\ \A x \in S : f[x] + g[x] <= h[x]
  OBVIOUS
<1>2. SumFunction(g) \in Nat /\ SumFunction(f) \in Nat /\ SumFunction(h) \in Nat
  BY <1>1, SumIsNat
<1>. HIDE DEF g
<1>3. SumFunction(f) + SumFunction(g) <= SumFunction(h)
  BY <1>1, SumsAtMost
<1>. QED  BY <1>2, <1>3

(* A sum of what is at most c times as much.                                *)
LEMMA SumAtMostTimes ==
  ASSUME NEW S, IsFiniteSet(S), NEW f \in [S -> Nat], NEW h \in [S -> Nat],
         NEW c \in Nat, \A x \in S : f[x] <= c * h[x]
  PROVE  SumFunction(f) <= c * SumFunction(h)
<1>1. PICK F \in [SUBSET S -> Nat] :
        /\ SumFunction(f) = F[S] /\ F[{}] = 0
        /\ \A s \in SUBSET S : s # {} => F[s] = f[Some(s)] + F[s \ {Some(s)}]
  <2>1. \E sum : SumsOf(f, S, sum)
    BY SumExists
  <2>. QED  BY <2>1 DEF SumsOf
<1>2. PICK H \in [SUBSET S -> Nat] :
        /\ SumFunction(h) = H[S] /\ H[{}] = 0
        /\ \A s \in SUBSET S : s # {} => H[s] = h[Some(s)] + H[s \ {Some(s)}]
  <2>1. \E sum : SumsOf(h, S, sum)
    BY SumExists
  <2>. QED  BY <2>1 DEF SumsOf
<1>. DEFINE good == {s \in SUBSET S : F[s] <= c * H[s]}
<1>3. {} \in good
  BY <1>1, <1>2
<1>4. ASSUME NEW s \in SUBSET S, s # {}, s \ {Some(s)} \in good
      PROVE  s \in good
  <2>. DEFINE x == Some(s)
              t == s \ {x}
  <2>1. x \in S /\ t \in SUBSET S
    BY <1>4, SomeIsIn
  <2>2. F[s] = f[x] + F[t] /\ H[s] = h[x] + H[t]
    BY <1>1, <1>2, <1>4
  <2>3. F[t] <= c * H[t]
    BY <1>4
  <2>. HIDE DEF x, t
  <2>4. /\ f[x] <= c * h[x]
        /\ F[t] \in Nat /\ H[t] \in Nat /\ f[x] \in Nat /\ h[x] \in Nat
    BY <2>1
  <2>5. c * (h[x] + H[t]) = c * h[x] + c * H[t]
    BY <2>4
  <2>6. c * h[x] \in Nat /\ c * H[t] \in Nat
    BY <2>4
  <2>7. F[s] <= c * H[s]
    BY <2>2, <2>3, <2>4, <2>5, <2>6
  <2>. QED  BY <2>7
<1>5. good \in SUBSET (SUBSET S) /\ \A s \in good : F[s] <= c * H[s]
  OBVIOUS
<1>. HIDE DEF good
<1>6. \A s \in SUBSET S : (\A x \in s : s \ {x} \in good) => s \in good
  BY <1>3, <1>4, SomeIsIn
<1>7. S \in good
  BY <1>5, <1>6, SubsetInduction
<1>. QED  BY <1>1, <1>2, <1>5, <1>7

(* The sum of numbers that are at most c.                                   *)
LEMMA SumAtMostEach ==
  ASSUME NEW S, IsFiniteSet(S), NEW f \in [S -> Nat], NEW c \in Nat,
         \A x \in S : f[x] <= c
  PROVE  SumFunction(f) <= c * Cardinality(S)
<1>1. PICK F \in [SUBSET S -> Nat] :
        /\ SumFunction(f) = F[S] /\ F[{}] = 0
        /\ \A s \in SUBSET S : s # {} => F[s] = f[Some(s)] + F[s \ {Some(s)}]
  <2>1. \E sum : SumsOf(f, S, sum)
    BY SumExists
  <2>. QED  BY <2>1 DEF SumsOf
<1>. DEFINE good == {s \in SUBSET S : F[s] <= c * Cardinality(s)}
<1>2. {} \in good
  <2>1. Cardinality({}) = 0
    BY FS_EmptySet
  <2>. QED  BY <1>1, <2>1
<1>3. ASSUME NEW s \in SUBSET S, s # {}, s \ {Some(s)} \in good
      PROVE  s \in good
  <2>. DEFINE x == Some(s)
              t == s \ {x}
              n == Cardinality(t)
  <2>1. x \in S /\ t \in SUBSET S /\ x \in s
    BY <1>3, SomeIsIn
  <2>2. F[s] = f[x] + F[t]
    BY <1>1, <1>3
  <2>3. F[t] <= c * n
    BY <1>3
  <2>4. n \in Nat /\ Cardinality(s) = n + 1
    <3>1. IsFiniteSet(s) /\ IsFiniteSet(t)
      BY <2>1, FS_Subset
    <3>2. Cardinality(t) = Cardinality(s) - 1
      BY <2>1, <3>1, FS_RemoveElement
    <3>. HIDE DEF t
    <3>. QED  BY <3>1, <3>2, FS_CardinalityType
  <2>5. f[x] <= c /\ f[x] \in Nat /\ F[t] \in Nat
    BY <2>1
  <2>. HIDE DEF x, t, n
  <2>6. c * (n + 1) = c * n + c /\ c * n \in Nat
    BY <2>4
  <2>7. F[s] <= c * Cardinality(s)
    BY <2>2, <2>3, <2>4, <2>5, <2>6
  <2>. QED  BY <2>7
<1>4. good \in SUBSET (SUBSET S) /\ \A s \in good : F[s] <= c * Cardinality(s)
  OBVIOUS
<1>. HIDE DEF good
<1>5. \A s \in SUBSET S : (\A x \in s : s \ {x} \in good) => s \in good
  BY <1>2, <1>3, SomeIsIn
<1>6. S \in good
  BY <1>4, <1>5, SubsetInduction
<1>. QED  BY <1>1, <1>4, <1>6

(* A part is at most the sum.                                               *)
LEMMA PartAtMostSum ==
  ASSUME NEW S, IsFiniteSet(S), NEW f \in [S -> Nat], NEW a \in S
  PROVE  f[a] <= SumFunction(f)
<1>1. PICK F \in [SUBSET S -> Nat] :
        /\ SumFunction(f) = F[S] /\ F[{}] = 0
        /\ \A s \in SUBSET S : s # {} => F[s] = f[Some(s)] + F[s \ {Some(s)}]
  <2>1. \E sum : SumsOf(f, S, sum)
    BY SumExists
  <2>. QED  BY <2>1 DEF SumsOf
<1>. DEFINE good == {s \in SUBSET S : a \in s => f[a] <= F[s]}
<1>2. ASSUME NEW s \in SUBSET S, s # {}, s \ {Some(s)} \in good
      PROVE  s \in good
  <2>. DEFINE x == Some(s)
              t == s \ {x}
  <2>1. x \in S /\ t \in SUBSET S
    BY <1>2, SomeIsIn
  <2>2. F[s] = f[x] + F[t] /\ (a \in t => f[a] <= F[t])
    BY <1>1, <1>2
  <2>3. a \in s => a = x \/ a \in t
    OBVIOUS
  <2>. HIDE DEF x, t
  <2>4. F[t] \in Nat /\ f[x] \in Nat /\ f[a] \in Nat
    BY <2>1
  <2>5. a \in s => f[a] <= F[s]
    BY <2>2, <2>3, <2>4
  <2>. QED  BY <2>5
<1>3. {} \in good /\ good \in SUBSET (SUBSET S)
  OBVIOUS
<1>4. \A s \in good : a \in s => f[a] <= F[s]
  OBVIOUS
<1>. HIDE DEF good
<1>5. \A s \in SUBSET S : (\A x \in s : s \ {x} \in good) => s \in good
  BY <1>2, <1>3, SomeIsIn
<1>6. S \in good
  BY <1>3, <1>5, SubsetInduction
<1>. QED  BY <1>1, <1>4, <1>6

-----------------------------------------------------------------------------
(* Sorting.                                                                 *)

Keys(m) == [1 .. m -> Int]

LEMMA FirstDifference ==
  ASSUME NEW m \in Nat, NEW k \in Keys(m), NEW l \in Keys(m), k # l
  PROVE  \E n \in 1 .. m : k[n] # l[n] /\ \A i \in 1 .. n - 1 : k[i] = l[i]
<1>. DEFINE Same(n) == \A i \in 1 .. m : i <= n => k[i] = l[i]
            N == {n \in Nat : Same(n)}
<1>. SUFFICES ASSUME \A n \in 1 .. m :
                       (\A i \in 1 .. n - 1 : k[i] = l[i]) => k[n] = l[n]
              PROVE  FALSE
  OBVIOUS
<1>1. 0 \in N
  OBVIOUS
<1>2. ASSUME NEW n \in Nat, n \in N PROVE n + 1 \in N
  <2>. SUFFICES ASSUME NEW i \in 1 .. m, i <= n + 1 PROVE k[i] = l[i]
    OBVIOUS
  <2>1. \A j \in 1 .. i - 1 : j \in 1 .. m /\ j <= n
    OBVIOUS
  <2>. QED  BY <1>2, <2>1
<1>3. m \in N
  <2>. HIDE DEF N
  <2>. QED  BY <1>1, <1>2, NumberInduction
<1>4. \A i \in 1 .. m : k[i] = l[i]
  BY <1>3
<1>. QED  BY <1>4 DEF Keys

LEMMA PrecedesOrders ==
  ASSUME NEW m \in Nat
  PROVE  /\ \A k \in Keys(m) : ~Precedes(k, k)
         /\ \A k, l \in Keys(m) : k = l \/ Precedes(k, l) \/ Precedes(l, k)
         /\ \A k, l, j \in Keys(m) :
              Precedes(k, l) /\ Precedes(l, j) => Precedes(k, j)
<1>1. \A k \in Keys(m) : ~Precedes(k, k)
  BY DEF Keys, Precedes
<1>2. ASSUME NEW k \in Keys(m), NEW l \in Keys(m), k # l
      PROVE  Precedes(k, l) \/ Precedes(l, k)
  <2>1. PICK n \in 1 .. m : k[n] # l[n] /\ \A i \in 1 .. n - 1 : k[i] = l[i]
    BY <1>2, FirstDifference
  <2>2. k[n] < l[n] \/ l[n] < k[n]
    BY <2>1 DEF Keys
  <2>3. DOMAIN k = 1 .. m /\ DOMAIN l = 1 .. m
    BY DEF Keys
  <2>. QED  BY <2>1, <2>2, <2>3 DEF Precedes
<1>3. ASSUME NEW k \in Keys(m), NEW l \in Keys(m), NEW j \in Keys(m),
             Precedes(k, l), Precedes(l, j)
      PROVE  Precedes(k, j)
  <2>1. DOMAIN k = 1 .. m /\ DOMAIN l = 1 .. m
    BY DEF Keys
  <2>2. PICK a \in 1 .. m : k[a] < l[a] /\ \A i \in 1 .. a - 1 : k[i] = l[i]
    BY <1>3, <2>1 DEF Precedes
  <2>3. PICK b \in 1 .. m : l[b] < j[b] /\ \A i \in 1 .. b - 1 : l[i] = j[i]
    BY <1>3, <2>1 DEF Precedes
  <2>4. \A i \in 1 .. m : k[i] \in Int /\ l[i] \in Int /\ j[i] \in Int
    BY DEF Keys
  <2>5. CASE a <= b
    <3>1. k[a] < j[a]
      BY <2>2, <2>3, <2>4, <2>5
    <3>2. \A i \in 1 .. a - 1 : k[i] = j[i]
      BY <2>2, <2>3, <2>5
    <3>. QED  BY <2>1, <3>1, <3>2 DEF Precedes
  <2>6. CASE b < a
    <3>1. k[b] < j[b]
      BY <2>2, <2>3, <2>4, <2>6
    <3>2. \A i \in 1 .. b - 1 : k[i] = j[i]
      BY <2>2, <2>3, <2>6
    <3>. QED  BY <2>1, <3>1, <3>2 DEF Precedes
  <2>. QED  BY <2>5, <2>6
<1>. QED  BY <1>1, <1>2, <1>3

(* t has the elements of s, each in a place of its own.                     *)
Permutes(t, s) ==
  /\ DOMAIN t = DOMAIN s
  /\ \E from \in [DOMAIN s -> DOMAIN s] :
       /\ \A p \in DOMAIN s : t[p] = s[from[p]]
       /\ \A i \in DOMAIN s : \E p \in DOMAIN s : from[p] = i
       /\ \A p, q \in DOMAIN s : from[p] = from[q] => p = q

(* In t no element of s comes after one whose key it precedes.              *)
Follows(t, s, key) ==
  \E from \in [DOMAIN s -> DOMAIN s] :
    /\ \A p \in DOMAIN s : t[p] = s[from[p]]
    /\ \A p, q \in DOMAIN s : p < q => ~Precedes(key[from[q]], key[from[p]])

LEMMA SortedPermutes ==
  ASSUME NEW S, NEW s \in Seq(S), NEW m \in Nat, NEW key \in [DOMAIN s -> Keys(m)]
  PROVE  /\ Sorted(s, key) \in Seq(S) /\ Len(Sorted(s, key)) = Len(s)
         /\ Permutes(Sorted(s, key), s) /\ Follows(Sorted(s, key), s, key)
<1>. DEFINE D == DOMAIN s
            Ahead(j, i) == \/ Precedes(key[j], key[i])
                           \/ key[j] = key[i] /\ j <= i
            R(i) == {j \in D : Ahead(j, i)}
            rank == [i \in D |-> Cardinality(R(i))]
            Nth(p) == CHOOSE i \in D : Cardinality(R(i)) = p
            from == [p \in D |-> Nth(p)]
<1>1. D = 1 .. Len(s) /\ Len(s) \in Nat
  BY LenProperties
<1>2. IsFiniteSet(D) /\ Cardinality(D) = Len(s)
  <2>1. \A n \in Nat : IsFiniteSet(1 .. n) /\ Cardinality(1 .. n) = n
    BY FS_Interval
  <2>. QED  BY <1>1, <2>1
<1>3. \A i \in D : Ahead(i, i)
  BY <1>1
<1>4. \A i, j \in D : i = j \/ (Ahead(i, j) /\ ~Ahead(j, i))
                            \/ (Ahead(j, i) /\ ~Ahead(i, j))
  <2>. SUFFICES ASSUME NEW i \in D, NEW j \in D, i # j
                PROVE  \/ Ahead(i, j) /\ ~Ahead(j, i)
                       \/ Ahead(j, i) /\ ~Ahead(i, j)
    OBVIOUS
  <2>1. key[i] \in Keys(m) /\ key[j] \in Keys(m)
    OBVIOUS
  <2>2. CASE key[i] = key[j]
    BY <1>1, <2>1, <2>2, PrecedesOrders
  <2>3. CASE key[i] # key[j]
    <3>1. ~(Precedes(key[i], key[j]) /\ Precedes(key[j], key[i]))
      BY <2>1, PrecedesOrders
    <3>2. Precedes(key[i], key[j]) \/ Precedes(key[j], key[i])
      BY <2>1, <2>3, PrecedesOrders
    <3>. QED  BY <2>3, <3>1, <3>2
  <2>. QED  BY <2>2, <2>3
<1>5. ASSUME NEW i \in D, NEW j \in D, NEW k \in D, Ahead(i, j), Ahead(j, k)
      PROVE  Ahead(i, k)
  <2>1. key[i] \in Keys(m) /\ key[j] \in Keys(m) /\ key[k] \in Keys(m)
    OBVIOUS
  <2>. QED  BY <1>1, <1>5, <2>1, PrecedesOrders
<1>. HIDE DEF Ahead
<1>6. \A i \in D : R(i) \in SUBSET D /\ IsFiniteSet(R(i)) /\ i \in R(i)
  BY <1>2, <1>3, FS_Subset
<1>7. \A i \in D : Cardinality(R(i)) \in D
  <2>. SUFFICES ASSUME NEW i \in D PROVE Cardinality(R(i)) \in D
    OBVIOUS
  <2>1. Cardinality(R(i)) \in Nat /\ Cardinality(R(i)) <= Len(s)
    BY <1>2, <1>6, FS_Subset, FS_CardinalityType
  <2>2. Cardinality(R(i)) # 0
    BY <1>6, FS_EmptySet
  <2>. HIDE DEF R, D
  <2>. QED  BY <1>1, <2>1, <2>2
<1>8. ASSUME NEW i \in D, NEW j \in D, Ahead(i, j), ~Ahead(j, i)
      PROVE  /\ Cardinality(R(i)) < Cardinality(R(j))
             /\ Cardinality(R(i)) # Cardinality(R(j))
  <2>1. R(i) \in SUBSET R(j)
    BY <1>5, <1>8
  <2>2. j \in R(j) /\ j \notin R(i)
    BY <1>6, <1>8
  <2>3. IsFiniteSet(R(j))
    BY <1>6
  <2>. HIDE DEF R
  <2>4. Cardinality(R(i)) <= Cardinality(R(j)) /\ R(i) # R(j)
    BY <2>1, <2>2, <2>3, FS_Subset
  <2>5. Cardinality(R(i)) = Cardinality(R(j)) => R(i) = R(j)
    BY <2>1, <2>3, FS_Subset
  <2>6. Cardinality(R(i)) \in Nat /\ Cardinality(R(j)) \in Nat
    BY <1>6, FS_CardinalityType
  <2>7. Cardinality(R(i)) # Cardinality(R(j))
    BY <2>4, <2>5
  <2>8. \A x, y \in Nat : x <= y /\ x # y => x < y
    OBVIOUS
  <2>. QED  BY <2>4, <2>6, <2>7, <2>8, Zenon
<1>9. \A i, j \in D : rank[i] = rank[j] => i = j
  BY <1>4, <1>8
<1>10. rank \in [D -> D]
  BY <1>7
<1>11. \A p \in D : \E i \in D : Cardinality(R(i)) = p
  <2>1. rank \in Injection(D, D)
    BY <1>9, <1>10 DEF Injection, IsInjective
  <2>2. rank \in Surjection(D, D)
    <3>. HIDE DEF D, rank
    <3>. QED  BY <1>2, <2>1, FS_Injection
  <2>3. \A p \in D : \E i \in D : rank[i] = p
    <3>. HIDE DEF D, rank
    <3>. QED  BY <2>2 DEF Surjection
  <2>. QED  BY <2>3
<1>12. Sorted(s, key) = [p \in D |-> s[Nth(p)]]
  BY DEF Sorted, Ahead
<1>. HIDE DEF R
<1>13. \A p \in D : Nth(p) \in D /\ Cardinality(R(Nth(p))) = p
  BY <1>11
<1>. HIDE DEF Nth
<1>14. from \in [D -> D] /\ \A p \in D : from[p] = Nth(p)
  BY <1>13
<1>15. \A p \in D : Sorted(s, key)[p] = s[from[p]]
  BY <1>12, <1>14
<1>16. \A i \in D : \E p \in D : from[p] = i
  <2>. SUFFICES ASSUME NEW i \in D PROVE \E p \in D : from[p] = i
    OBVIOUS
  <2>1. rank[i] \in D /\ rank[Nth(rank[i])] = rank[i] /\ Nth(rank[i]) \in D
    BY <1>10, <1>13
  <2>. QED  BY <1>9, <1>14, <2>1
<1>17. \A p, q \in D : from[p] = from[q] => p = q
  BY <1>13, <1>14
<1>18. /\ Sorted(s, key) \in Seq(S) /\ Len(Sorted(s, key)) = Len(s)
       /\ DOMAIN Sorted(s, key) = D
  <2>1. Sorted(s, key) \in [1 .. Len(s) -> S]
    BY <1>1, <1>12, <1>13
  <2>2. Sorted(s, key) \in Seq(S)
    BY <1>1, <2>1, SeqDef
  <2>. QED  BY <1>1, <1>12, <2>1, <2>2, LenProperties
<1>19. Permutes(Sorted(s, key), s)
  <2>. DEFINE t == Sorted(s, key)
  <2>1. DOMAIN t = D /\ \A p \in D : t[p] = s[from[p]]
    BY <1>15, <1>18
  <2>. HIDE DEF t, from
  <2>2. Permutes(t, s)
    BY <1>14, <1>16, <1>17, <2>1 DEF Permutes
  <2>. QED  BY <2>2 DEF t
<1>20. ASSUME NEW p \in D, NEW q \in D, p < q
       PROVE  ~Precedes(key[from[q]], key[from[p]])
  <2>. SUFFICES ASSUME Precedes(key[from[q]], key[from[p]]) PROVE FALSE
    OBVIOUS
  <2>1. /\ from[p] \in D /\ Cardinality(R(from[p])) = p
        /\ from[q] \in D /\ Cardinality(R(from[q])) = q
    BY <1>13, <1>14
  <2>. HIDE DEF from
  <2>2. Ahead(from[q], from[p]) /\ from[p] # from[q]
    BY <1>20, <2>1 DEF Ahead
  <2>3. ~Ahead(from[p], from[q])
    BY <1>4, <2>1, <2>2
  <2>4. q < p
    BY <1>8, <2>1, <2>2, <2>3
  <2>. QED  BY <1>1, <1>20, <2>4
<1>21. Follows(Sorted(s, key), s, key)
  <2>. HIDE DEF from
  <2>. QED  BY <1>14, <1>15, <1>20 DEF Follows
<1>. QED  BY <1>18, <1>19, <1>21

LEMMA SortedIsSeq ==
  ASSUME NEW S, NEW s \in Seq(S), NEW m \in Nat, NEW key \in [DOMAIN s -> Keys(m)]
  PROVE  Sorted(s, key) \in Seq(S) /\ Len(Sorted(s, key)) = Len(s)
BY SortedPermutes

(* The first of a sorted sequence is one of the sequence.                   *)
LEMMA FirstOfSorted ==
  ASSUME NEW S, NEW s \in Seq(S), s # <<>>, NEW m \in Nat,
         NEW key \in [DOMAIN s -> Keys(m)]
  PROVE  Sorted(s, key)[1] \in S
<1>1. Sorted(s, key) \in Seq(S) /\ Len(Sorted(s, key)) = Len(s)
  BY SortedIsSeq
<1>. DEFINE t == Sorted(s, key)
<1>2. t \in Seq(S) /\ Len(t) \in Nat \ {0}
  BY <1>1, EmptySeq
<1>. HIDE DEF t
<1>3. t[1] \in S
  BY <1>2, ElementOfSeq
<1>. QED  BY <1>3 DEF t

-----------------------------------------------------------------------------
(* Lists.                                                                   *)

LEMMA OneMore ==
  ASSUME NEW S, NEW s \in Seq(S), NEW e \in S
  PROVE  /\ Append(s, e) \in Seq(S)
         /\ DOMAIN s = 1 .. Len(s) /\ Len(s) \in Nat
         /\ DOMAIN Append(s, e) = 1 .. Len(s) + 1
         /\ Len(Append(s, e)) = Len(s) + 1
         /\ \A i \in 1 .. Len(s) : Append(s, e)[i] = s[i]
         /\ Append(s, e)[Len(s) + 1] = e
<1>1. DOMAIN s = 1 .. Len(s) /\ Len(s) \in Nat
  BY LenProperties
<1>2. /\ Append(s, e) \in Seq(S) /\ Len(Append(s, e)) = Len(s) + 1
      /\ \A i \in 1 .. Len(s) : Append(s, e)[i] = s[i]
      /\ Append(s, e)[Len(s) + 1] = e
  BY AppendProperties
<1>3. DOMAIN Append(s, e) = 1 .. Len(s) + 1
  BY <1>2, LenProperties
<1>. QED  BY <1>1, <1>2, <1>3

(* What Only has kept of the first k elements.                              *)
Keeping(kept, s, some, S) ==
  /\ kept \in [0 .. Len(s) -> Seq(S)] /\ kept[0] = <<>>
  /\ \A k \in 1 .. Len(s) :
       kept[k] = IF s[k] \in some THEN Append(kept[k - 1], s[k]) ELSE kept[k - 1]

LEMMA OnlyUnfolds ==
  ASSUME NEW S, NEW s \in Seq(S), NEW some
  PROVE  \E kept : Keeping(kept, s, some, S) /\ Only(s, some) = kept[Len(s)]
<1>. DEFINE len == Len(s)
            Body(g) ==
              [k \in 0 .. Len(s) |->
                 IF k = 0 THEN <<>>
                 ELSE IF s[k] \in some THEN Append(g[k - 1], s[k]) ELSE g[k - 1]]
            kept == CHOOSE g : g = Body(g)
            step == [x \in Seq(S) \X Int |->
                       IF x[2] \in 1 .. len /\ s[x[2]] \in some
                       THEN Append(x[1], s[x[2]]) ELSE x[1]]
<1>1. Only(s, some) = kept[len]
  BY DEF Only
<1>2. len \in Nat /\ \A n \in 1 .. len : s[n] \in S
  BY LenProperties, ElementOfSeq
<1>3. step \in [Seq(S) \X Int -> Seq(S)]
  <2>. SUFFICES ASSUME NEW x \in Seq(S) \X Int
                PROVE  (IF x[2] \in 1 .. len /\ s[x[2]] \in some
                        THEN Append(x[1], s[x[2]]) ELSE x[1]) \in Seq(S)
    OBVIOUS
  <2>1. x[1] \in Seq(S)
    OBVIOUS
  <2>2. CASE x[2] \in 1 .. len
    <3>1. Append(x[1], s[x[2]]) \in Seq(S)
      BY <1>2, <2>1, <2>2, AppendProperties
    <3>. QED  BY <2>1, <3>1
  <2>. QED  BY <2>1, <2>2
<1>4. PICK f : Steps(f, Seq(S), 0, len, <<>>, step)
  <2>1. <<>> \in Seq(S) /\ 0 \in Int /\ len \in Int /\ 0 <= len
    BY <1>2, EmptySeq
  <2>. HIDE DEF step, len
  <2>. QED  BY <1>3, <2>1, StepsExist
<1>5. f \in [0 .. len -> Seq(S)] /\ f[0] = <<>>
  BY <1>4 DEF Steps
<1>6. \A n \in 1 .. len : f[n] = step[<<f[n - 1], n>>]
  <2>1. 0 + 1 = 1
    OBVIOUS
  <2>. QED  BY <1>4, <2>1 DEF Steps
<1>7. ASSUME NEW n \in 1 .. len
      PROVE  f[n] = IF s[n] \in some THEN Append(f[n - 1], s[n]) ELSE f[n - 1]
  <2>1. <<f[n - 1], n>> \in Seq(S) \X Int
    <3>1. n - 1 \in 0 .. len
      BY <1>2
    <3>. QED  BY <1>5, <3>1
  <2>. QED  BY <1>6, <2>1
<1>8. f = Body(f)
  <2>1. \A n \in 0 .. len : n = 0 \/ n \in 1 .. len
    BY <1>2
  <2>. QED  BY <1>5, <1>7, <2>1
<1>9. kept = Body(kept)
  <2>. HIDE DEF Body
  <2>. QED  BY <1>8
<1>. HIDE DEF kept, step
<1>10. kept[0] = <<>>
  BY <1>2, <1>9
<1>11. ASSUME NEW n \in 1 .. len
       PROVE  kept[n] = IF s[n] \in some THEN Append(kept[n - 1], s[n])
                        ELSE kept[n - 1]
  <2>1. n \in 0 .. Len(s) /\ n # 0
    BY <1>2
  <2>2. Body(kept)[n] = IF s[n] \in some THEN Append(kept[n - 1], s[n])
                        ELSE kept[n - 1]
    BY <2>1
  <2>. HIDE DEF Body
  <2>. QED  BY <1>9, <2>2
<1>. DEFINE N == {n \in Nat : n <= len => kept[n] \in Seq(S)}
<1>12. 0 \in N
  BY <1>10, EmptySeq
<1>13. ASSUME NEW n \in Nat, n \in N PROVE n + 1 \in N
  <2>. SUFFICES ASSUME n + 1 <= len PROVE kept[n + 1] \in Seq(S)
    OBVIOUS
  <2>1. n + 1 \in 1 .. len /\ (n + 1) - 1 = n /\ n <= len
    BY <1>2
  <2>2. kept[n] \in Seq(S) /\ s[n + 1] \in S
    BY <1>2, <1>13, <2>1
  <2>3. Append(kept[n], s[n + 1]) \in Seq(S)
    BY <2>2, AppendProperties
  <2>. HIDE DEF len
  <2>. QED  BY <1>11, <2>1, <2>2, <2>3
<1>14. \A n \in 0 .. len : kept[n] \in Seq(S)
  <2>1. \A n \in Nat : n \in N
    <3>. HIDE DEF N
    <3>. QED  BY <1>12, <1>13, NumberInduction
  <2>. QED  BY <1>2, <2>1
<1>15. kept \in [0 .. len -> Seq(S)]
  <2>1. kept = [n \in 0 .. len |-> kept[n]]
    BY <1>9
  <2>. QED  BY <1>14, <2>1
<1>. HIDE DEF Body
<1>. QED  BY <1>1, <1>10, <1>11, <1>15 DEF Keeping

(* What Only returns: the elements that are in some, and no others.         *)
LEMMA OnlySome ==
  ASSUME NEW S, NEW s \in Seq(S), NEW some
  PROVE  /\ Only(s, some) \in Seq(S)
         /\ \A m \in DOMAIN Only(s, some) :
              /\ Only(s, some)[m] \in some
              /\ \E k \in DOMAIN s : Only(s, some)[m] = s[k]
         /\ \A k \in DOMAIN s : s[k] \in some =>
              \E m \in DOMAIN Only(s, some) : Only(s, some)[m] = s[k]
<1>1. PICK kept : Keeping(kept, s, some, S) /\ Only(s, some) = kept[Len(s)]
  BY OnlyUnfolds
<1>2. Len(s) \in Nat /\ DOMAIN s = 1 .. Len(s)
  BY LenProperties
<1>. DEFINE From(t, n) ==
              /\ t \in Seq(S)
              /\ \A m \in DOMAIN t : t[m] \in some /\ \E k \in 1 .. n : t[m] = s[k]
              /\ \A k \in 1 .. n : s[k] \in some =>
                   \E m \in DOMAIN t : t[m] = s[k]
            N == {n \in Nat : n <= Len(s) => From(kept[n], n)}
<1>3. 0 \in N
  <2>1. <<>> \in Seq(S) /\ Len(<<>>) = 0
    BY EmptySeq
  <2>2. \A m \in DOMAIN <<>> : FALSE
    OBVIOUS
  <2>3. \A k \in 1 .. 0 : FALSE
    OBVIOUS
  <2>4. From(<<>>, 0)
    BY <2>1, <2>2, <2>3
  <2>. QED  BY <1>1, <2>4 DEF Keeping
<1>4. ASSUME NEW n \in Nat, n \in N PROVE n + 1 \in N
  <2>. SUFFICES ASSUME n + 1 <= Len(s) PROVE From(kept[n + 1], n + 1)
    OBVIOUS
  <2>1. n + 1 \in 1 .. Len(s) /\ (n + 1) - 1 = n /\ n <= Len(s)
    BY <1>2
  <2>. DEFINE t == kept[n]
              e == s[n + 1]
  <2>2. From(t, n)
    BY <1>4, <2>1
  <2>3. t \in Seq(S) /\ e \in S
    BY <1>2, <2>1, <2>2, ElementOfSeq
  <2>4. kept[n + 1] = IF e \in some THEN Append(t, e) ELSE t
    BY <1>1, <2>1 DEF Keeping
  <2>5. \A k \in 1 .. n + 1 : k \in 1 .. n \/ k = n + 1
    OBVIOUS
  <2>6. n + 1 \in 1 .. n + 1 /\ \A k \in 1 .. n : k \in 1 .. n + 1
    OBVIOUS
  <2>. HIDE DEF t
  <2>7. CASE e \notin some
    <3>1. From(t, n + 1)
      BY <2>2, <2>5, <2>6, <2>7
    <3>. QED  BY <2>4, <2>7, <3>1
  <2>8. CASE e \in some
    <3>. DEFINE u == Append(t, e)
                l == Len(t)
    <3>1. /\ u \in Seq(S) /\ l \in Nat /\ DOMAIN t = 1 .. l
          /\ DOMAIN u = 1 .. l + 1 /\ u[l + 1] = e
          /\ \A i \in 1 .. l : u[i] = t[i]
      BY <2>3, OneMore
    <3>. HIDE DEF u, l
    <3>2. ASSUME NEW m \in DOMAIN u
          PROVE  u[m] \in some /\ \E k \in 1 .. n + 1 : u[m] = s[k]
      <4>1. CASE m = l + 1
        BY <2>6, <2>8, <3>1, <4>1
      <4>2. CASE m # l + 1
        <5>1. m \in 1 .. l
          BY <3>1, <4>2
        <5>. QED  BY <2>2, <2>6, <3>1, <5>1
      <4>. QED  BY <4>1, <4>2
    <3>3. ASSUME NEW k \in 1 .. n + 1, s[k] \in some
          PROVE  \E m \in DOMAIN u : u[m] = s[k]
      <4>1. CASE k = n + 1
        <5>1. l + 1 \in DOMAIN u
          BY <3>1
        <5>. QED  BY <3>1, <4>1, <5>1
      <4>2. CASE k # n + 1
        <5>1. PICK m \in DOMAIN t : t[m] = s[k]
          BY <2>2, <2>5, <3>3, <4>2
        <5>2. m \in DOMAIN u /\ u[m] = t[m]
          BY <3>1, <5>1
        <5>. QED  BY <5>1, <5>2
      <4>. QED  BY <4>1, <4>2
    <3>4. From(u, n + 1)
      BY <3>1, <3>2, <3>3
    <3>. QED  BY <2>4, <2>8, <3>4 DEF u
  <2>. QED  BY <2>7, <2>8
<1>5. From(kept[Len(s)], Len(s))
  <2>1. \A n \in Nat : n \in N
    <3>. HIDE DEF N
    <3>. QED  BY <1>3, <1>4, NumberInduction
  <2>. QED  BY <1>2, <2>1
<1>. QED  BY <1>1, <1>2, <1>5

(* Whether the element was met before the k-th place.                       *)
Before(s, k) == \E i \in 1 .. k - 1 : s[i] = s[k]

(* What Once has met in the first k elements.                               *)
Meeting(met, s, S) ==
  /\ met \in [0 .. Len(s) -> Seq(S)] /\ met[0] = <<>>
  /\ \A k \in 1 .. Len(s) :
       met[k] = IF Before(s, k) THEN met[k - 1] ELSE Append(met[k - 1], s[k])

LEMMA OnceUnfolds ==
  ASSUME NEW S, NEW s \in Seq(S)
  PROVE  \E met : Meeting(met, s, S) /\ Once(s) = met[Len(s)]
<1>. DEFINE len == Len(s)
            Body(g) ==
              [k \in 0 .. Len(s) |->
                 IF k = 0 THEN <<>>
                 ELSE IF Before(s, k) THEN g[k - 1] ELSE Append(g[k - 1], s[k])]
            met == CHOOSE g : g = Body(g)
            step == [x \in Seq(S) \X Int |->
                       IF x[2] \in 1 .. len /\ ~Before(s, x[2])
                       THEN Append(x[1], s[x[2]]) ELSE x[1]]
<1>1. Once(s) = met[len]
  BY Zenon DEF Once, Before
<1>2. len \in Nat /\ \A n \in 1 .. len : s[n] \in S
  BY LenProperties, ElementOfSeq
<1>3. step \in [Seq(S) \X Int -> Seq(S)]
  <2>. SUFFICES ASSUME NEW x \in Seq(S) \X Int
                PROVE  (IF x[2] \in 1 .. len /\ ~Before(s, x[2])
                        THEN Append(x[1], s[x[2]]) ELSE x[1]) \in Seq(S)
    OBVIOUS
  <2>1. x[1] \in Seq(S)
    OBVIOUS
  <2>2. CASE x[2] \in 1 .. len
    <3>1. Append(x[1], s[x[2]]) \in Seq(S)
      BY <1>2, <2>1, <2>2, AppendProperties
    <3>. QED  BY <2>1, <3>1
  <2>. QED  BY <2>1, <2>2
<1>4. PICK f : Steps(f, Seq(S), 0, len, <<>>, step)
  <2>1. <<>> \in Seq(S) /\ 0 \in Int /\ len \in Int /\ 0 <= len
    BY <1>2, EmptySeq
  <2>. HIDE DEF step, len
  <2>. QED  BY <1>3, <2>1, StepsExist
<1>5. f \in [0 .. len -> Seq(S)] /\ f[0] = <<>>
  BY <1>4 DEF Steps
<1>6. \A n \in 1 .. len : f[n] = step[<<f[n - 1], n>>]
  <2>1. 0 + 1 = 1
    OBVIOUS
  <2>. QED  BY <1>4, <2>1 DEF Steps
<1>7. ASSUME NEW n \in 1 .. len
      PROVE  f[n] = IF Before(s, n) THEN f[n - 1] ELSE Append(f[n - 1], s[n])
  <2>1. <<f[n - 1], n>> \in Seq(S) \X Int
    <3>1. n - 1 \in 0 .. len
      BY <1>2
    <3>. QED  BY <1>5, <3>1
  <2>. QED  BY <1>6, <2>1
<1>8. f = Body(f)
  <2>1. \A n \in 0 .. len : n = 0 \/ n \in 1 .. len
    BY <1>2
  <2>. QED  BY <1>5, <1>7, <2>1
<1>9. met = Body(met)
  <2>. HIDE DEF Body
  <2>. QED  BY <1>8
<1>. HIDE DEF met, step
<1>10. met[0] = <<>>
  BY <1>2, <1>9
<1>11. ASSUME NEW n \in 1 .. len
       PROVE  met[n] = IF Before(s, n) THEN met[n - 1]
                       ELSE Append(met[n - 1], s[n])
  <2>1. n \in 0 .. Len(s) /\ n # 0
    BY <1>2
  <2>2. Body(met)[n] = IF Before(s, n) THEN met[n - 1]
                       ELSE Append(met[n - 1], s[n])
    BY <2>1
  <2>. HIDE DEF Body
  <2>. QED  BY <1>9, <2>2
<1>. DEFINE N == {n \in Nat : n <= len => met[n] \in Seq(S)}
<1>12. 0 \in N
  BY <1>10, EmptySeq
<1>13. ASSUME NEW n \in Nat, n \in N PROVE n + 1 \in N
  <2>. SUFFICES ASSUME n + 1 <= len PROVE met[n + 1] \in Seq(S)
    OBVIOUS
  <2>1. n + 1 \in 1 .. len /\ (n + 1) - 1 = n /\ n <= len
    BY <1>2
  <2>2. met[n] \in Seq(S) /\ s[n + 1] \in S
    BY <1>2, <1>13, <2>1
  <2>3. Append(met[n], s[n + 1]) \in Seq(S)
    BY <2>2, AppendProperties
  <2>. HIDE DEF len
  <2>. QED  BY <1>11, <2>1, <2>2, <2>3
<1>14. \A n \in 0 .. len : met[n] \in Seq(S)
  <2>1. \A n \in Nat : n \in N
    <3>. HIDE DEF N
    <3>. QED  BY <1>12, <1>13, NumberInduction
  <2>. QED  BY <1>2, <2>1
<1>15. met \in [0 .. len -> Seq(S)]
  <2>1. met = [n \in 0 .. len |-> met[n]]
    BY <1>9
  <2>. QED  BY <1>14, <2>1
<1>. HIDE DEF Body
<1>. QED  BY <1>1, <1>10, <1>11, <1>15 DEF Meeting

LEMMA OnceEach ==
  ASSUME NEW S, NEW s \in Seq(S)
  PROVE  /\ Once(s) \in Seq(S)
         /\ \A m \in DOMAIN Once(s) : \E k \in DOMAIN s : Once(s)[m] = s[k]
         /\ \A k \in DOMAIN s : \E m \in DOMAIN Once(s) : Once(s)[m] = s[k]
<1>1. PICK met : Meeting(met, s, S) /\ Once(s) = met[Len(s)]
  BY OnceUnfolds
<1>2. Len(s) \in Nat /\ DOMAIN s = 1 .. Len(s)
  BY LenProperties
<1>. DEFINE From(t, n) ==
              /\ t \in Seq(S)
              /\ \A m \in DOMAIN t : \E k \in 1 .. n : t[m] = s[k]
              /\ \A k \in 1 .. n : \E m \in DOMAIN t : t[m] = s[k]
            N == {n \in Nat : n <= Len(s) => From(met[n], n)}
<1>. HIDE DEF From
<1>3. 0 \in N
  <2>1. <<>> \in Seq(S) /\ Len(<<>>) = 0
    BY EmptySeq
  <2>2. \A m \in DOMAIN <<>> : FALSE
    OBVIOUS
  <2>3. \A k \in 1 .. 0 : FALSE
    OBVIOUS
  <2>4. From(<<>>, 0)
    BY <2>1, <2>2, <2>3 DEF From
  <2>. QED  BY <1>1, <2>4 DEF Meeting
<1>4. ASSUME NEW n \in Nat, n \in N PROVE n + 1 \in N
  <2>. SUFFICES ASSUME n + 1 <= Len(s) PROVE From(met[n + 1], n + 1)
    OBVIOUS
  <2>1. n + 1 \in 1 .. Len(s) /\ (n + 1) - 1 = n /\ n <= Len(s)
    BY <1>2
  <2>. DEFINE t == met[n]
              e == s[n + 1]
  <2>2. From(t, n)
    BY <1>4, <2>1
  <2>3. t \in Seq(S) /\ e \in S
    BY <1>2, <2>1, <2>2, ElementOfSeq DEF From
  <2>4. met[n + 1] = IF Before(s, n + 1) THEN t ELSE Append(t, e)
    BY <1>1, <2>1 DEF Meeting
  <2>5. \A k \in 1 .. n + 1 : k \in 1 .. n \/ k = n + 1
    OBVIOUS
  <2>6. n + 1 \in 1 .. n + 1 /\ \A k \in 1 .. n : k \in 1 .. n + 1
    OBVIOUS
  <2>. HIDE DEF t
  <2>7. CASE Before(s, n + 1)
    <3>1. PICK i \in 1 .. n : s[i] = e
      BY <2>1, <2>7 DEF Before
    <3>2. PICK j \in DOMAIN t : t[j] = e
      BY <2>2, <3>1 DEF From
    <3>3. From(t, n + 1)
      BY <2>2, <2>5, <2>6, <3>2 DEF From
    <3>. QED  BY <2>4, <2>7, <3>3
  <2>8. CASE ~Before(s, n + 1)
    <3>. DEFINE u == Append(t, e)
                l == Len(t)
    <3>1. /\ u \in Seq(S) /\ l \in Nat /\ DOMAIN t = 1 .. l
          /\ DOMAIN u = 1 .. l + 1 /\ u[l + 1] = e
          /\ \A i \in 1 .. l : u[i] = t[i]
      BY <2>3, OneMore
    <3>. HIDE DEF u, l
    <3>2. ASSUME NEW m \in DOMAIN u
          PROVE  \E k \in 1 .. n + 1 : u[m] = s[k]
      <4>1. CASE m = l + 1
        BY <2>6, <3>1, <4>1
      <4>2. CASE m # l + 1
        <5>1. m \in 1 .. l
          BY <3>1, <4>2
        <5>2. PICK k \in 1 .. n : t[m] = s[k]
          BY <2>2, <3>1, <5>1 DEF From
        <5>3. k \in 1 .. n + 1 /\ u[m] = t[m]
          BY <2>6, <3>1, <5>1
        <5>. QED  BY <5>2, <5>3
      <4>. QED  BY <4>1, <4>2
    <3>3. ASSUME NEW k \in 1 .. n + 1
          PROVE  \E m \in DOMAIN u : u[m] = s[k]
      <4>1. CASE k = n + 1
        <5>1. l + 1 \in DOMAIN u
          BY <3>1
        <5>. QED  BY <3>1, <4>1, <5>1
      <4>2. CASE k # n + 1
        <5>1. PICK m \in DOMAIN t : t[m] = s[k]
          BY <2>2, <2>5, <3>3, <4>2 DEF From
        <5>2. m \in DOMAIN u /\ u[m] = t[m]
          BY <3>1, <5>1
        <5>. QED  BY <5>1, <5>2
      <4>. QED  BY <4>1, <4>2
    <3>4. From(u, n + 1)
      BY <3>1, <3>2, <3>3 DEF From
    <3>. QED  BY <2>4, <2>8, <3>4 DEF u
  <2>. QED  BY <2>7, <2>8
<1>5. From(met[Len(s)], Len(s))
  <2>1. \A n \in Nat : n \in N
    <3>. HIDE DEF N
    <3>. QED  BY <1>3, <1>4, NumberInduction
  <2>. QED  BY <1>2, <2>1
<1>. QED  BY <1>1, <1>2, <1>5 DEF From

(* What Flat has put together of the first k lists.                         *)
Joining(flat, s, S) ==
  /\ flat \in [0 .. Len(s) -> Seq(S)] /\ flat[0] = <<>>
  /\ \A k \in 1 .. Len(s) : flat[k] = flat[k - 1] \o s[k]

LEMMA FlatUnfolds ==
  ASSUME NEW S, NEW s \in Seq(Seq(S))
  PROVE  \E flat : Joining(flat, s, S) /\ Flat(s) = flat[Len(s)]
<1>. DEFINE len == Len(s)
            Body(g) ==
              [k \in 0 .. Len(s) |->
                 IF k = 0 THEN <<>> ELSE g[k - 1] \o s[k]]
            flat == CHOOSE g : g = Body(g)
            step == [x \in Seq(S) \X Int |->
                       IF x[2] \in 1 .. len THEN x[1] \o s[x[2]] ELSE x[1]]
<1>1. Flat(s) = flat[len]
  BY DEF Flat
<1>2. len \in Nat /\ \A n \in 1 .. len : s[n] \in Seq(S)
  BY LenProperties, ElementOfSeq
<1>3. step \in [Seq(S) \X Int -> Seq(S)]
  <2>. SUFFICES ASSUME NEW x \in Seq(S) \X Int
                PROVE  (IF x[2] \in 1 .. len THEN x[1] \o s[x[2]] ELSE x[1]) \in Seq(S)
    OBVIOUS
  <2>1. x[1] \in Seq(S)
    OBVIOUS
  <2>2. CASE x[2] \in 1 .. len
    <3>1. x[1] \o s[x[2]] \in Seq(S)
      BY <1>2, <2>1, <2>2, ConcatProperties
    <3>. QED  BY <2>1, <3>1
  <2>. QED  BY <2>1, <2>2
<1>4. PICK f : Steps(f, Seq(S), 0, len, <<>>, step)
  <2>1. <<>> \in Seq(S) /\ 0 \in Int /\ len \in Int /\ 0 <= len
    BY <1>2, EmptySeq
  <2>. HIDE DEF step, len
  <2>. QED  BY <1>3, <2>1, StepsExist
<1>5. f \in [0 .. len -> Seq(S)] /\ f[0] = <<>>
  BY <1>4 DEF Steps
<1>6. \A n \in 1 .. len : f[n] = step[<<f[n - 1], n>>]
  <2>1. 0 + 1 = 1
    OBVIOUS
  <2>. QED  BY <1>4, <2>1 DEF Steps
<1>7. ASSUME NEW n \in 1 .. len
      PROVE  f[n] = f[n - 1] \o s[n]
  <2>1. <<f[n - 1], n>> \in Seq(S) \X Int
    <3>1. n - 1 \in 0 .. len /\ n \in Int
      BY <1>2
    <3>. HIDE DEF len
    <3>2. f[n - 1] \in Seq(S)
      BY <1>5, <3>1
    <3>. QED  BY <3>1, <3>2
  <2>. QED  BY <1>6, <2>1
<1>8. f = Body(f)
  <2>1. \A n \in 0 .. len : n = 0 \/ n \in 1 .. len
    BY <1>2
  <2>. QED  BY <1>5, <1>7, <2>1
<1>9. flat = Body(flat)
  <2>. HIDE DEF Body
  <2>. QED  BY <1>8
<1>. HIDE DEF flat, step
<1>10. flat[0] = <<>>
  BY <1>2, <1>9
<1>11. ASSUME NEW n \in 1 .. len
       PROVE  flat[n] = flat[n - 1] \o s[n]
  <2>1. n \in 0 .. Len(s) /\ n # 0
    BY <1>2
  <2>2. Body(flat)[n] = flat[n - 1] \o s[n]
    BY <2>1
  <2>. HIDE DEF Body
  <2>. QED  BY <1>9, <2>2
<1>. DEFINE N == {n \in Nat : n <= len => flat[n] \in Seq(S)}
<1>12. 0 \in N
  BY <1>10, EmptySeq
<1>13. ASSUME NEW n \in Nat, n \in N PROVE n + 1 \in N
  <2>. SUFFICES ASSUME n + 1 <= len PROVE flat[n + 1] \in Seq(S)
    OBVIOUS
  <2>1. n + 1 \in 1 .. len /\ (n + 1) - 1 = n /\ n <= len
    BY <1>2
  <2>2. flat[n] \in Seq(S) /\ s[n + 1] \in Seq(S)
    BY <1>2, <1>13, <2>1
  <2>3. flat[n] \o s[n + 1] \in Seq(S)
    BY <2>2, ConcatProperties
  <2>. HIDE DEF len
  <2>. QED  BY <1>11, <2>1, <2>2, <2>3
<1>14. \A n \in 0 .. len : flat[n] \in Seq(S)
  <2>1. \A n \in Nat : n \in N
    <3>. HIDE DEF N
    <3>. QED  BY <1>12, <1>13, NumberInduction
  <2>. QED  BY <1>2, <2>1
<1>15. flat \in [0 .. len -> Seq(S)]
  <2>1. flat = [n \in 0 .. len |-> flat[n]]
    BY <1>9
  <2>. QED  BY <1>14, <2>1
<1>. HIDE DEF Body
<1>. QED  BY <1>1, <1>10, <1>11, <1>15 DEF Joining

(* Flat returns the elements of the lists, list by list and in their order. *)
LEMMA FlatPlaces ==
  ASSUME NEW S, NEW s \in Seq(Seq(S))
  PROVE  /\ Flat(s) \in Seq(S)
         /\ \A i \in DOMAIN Flat(s) :
              \E c \in DOMAIN s : \E m \in DOMAIN s[c] : Flat(s)[i] = s[c][m]
         /\ \A i, j \in DOMAIN Flat(s) : i < j =>
              \E c, d \in DOMAIN s : \E m \in DOMAIN s[c], l \in DOMAIN s[d] :
                /\ Flat(s)[i] = s[c][m] /\ Flat(s)[j] = s[d][l]
                /\ c < d \/ (c = d /\ m < l)
         /\ \A c \in DOMAIN s : \A m \in DOMAIN s[c] :
              \E i \in DOMAIN Flat(s) : Flat(s)[i] = s[c][m]
<1>1. PICK flat : Joining(flat, s, S) /\ Flat(s) = flat[Len(s)]
  BY FlatUnfolds
<1>2. Len(s) \in Nat /\ DOMAIN s = 1 .. Len(s)
  BY LenProperties
<1>. DEFINE In(t, n) == \A i \in DOMAIN t :
                          \E c \in 1 .. n : \E m \in DOMAIN s[c] : t[i] = s[c][m]
            Ahead(t, n) ==
              \A i, j \in DOMAIN t : i < j =>
                \E c, d \in 1 .. n : \E m \in DOMAIN s[c], l \in DOMAIN s[d] :
                  /\ t[i] = s[c][m] /\ t[j] = s[d][l]
                  /\ c < d \/ (c = d /\ m < l)
            All(t, n) == \A c \in 1 .. n : \A m \in DOMAIN s[c] :
                           \E i \in DOMAIN t : t[i] = s[c][m]
            N == {n \in Nat : n <= Len(s) =>
                    /\ flat[n] \in Seq(S)
                    /\ In(flat[n], n) /\ Ahead(flat[n], n) /\ All(flat[n], n)}
<1>. HIDE DEF In, Ahead, All
<1>3. 0 \in N
  <2>1. <<>> \in Seq(S) /\ flat[0] = <<>>
    BY <1>1, EmptySeq DEF Joining
  <2>2. \A i \in DOMAIN <<>> : FALSE
    OBVIOUS
  <2>3. \A k \in 1 .. 0 : FALSE
    OBVIOUS
  <2>4. In(<<>>, 0) /\ Ahead(<<>>, 0) /\ All(<<>>, 0)
    BY <2>2, <2>3 DEF In, Ahead, All
  <2>. QED  BY <2>1, <2>4
<1>4. ASSUME NEW n \in Nat, n \in N PROVE n + 1 \in N
  <2>. SUFFICES ASSUME n + 1 <= Len(s)
                PROVE  /\ flat[n + 1] \in Seq(S)
                       /\ In(flat[n + 1], n + 1) /\ Ahead(flat[n + 1], n + 1)
                       /\ All(flat[n + 1], n + 1)
    OBVIOUS
  <2>1. n + 1 \in 1 .. Len(s) /\ (n + 1) - 1 = n /\ n <= Len(s)
    BY <1>2
  <2>. DEFINE t == flat[n]
              last == s[n + 1]
              u == t \o last
              a == Len(t)
              b == Len(last)
  <2>2. t \in Seq(S) /\ In(t, n) /\ Ahead(t, n) /\ All(t, n)
    BY <1>4, <2>1
  <2>3. last \in Seq(S)
    BY <1>2, <2>1, ElementOfSeq
  <2>4. flat[n + 1] = u
    BY <1>1, <2>1 DEF Joining
  <2>5. /\ DOMAIN t = 1 .. a /\ a \in Nat
        /\ DOMAIN last = 1 .. b /\ b \in Nat
        /\ u \in Seq(S) /\ DOMAIN u = 1 .. a + b
        /\ \A i \in 1 .. a : u[i] = t[i]
        /\ \A i \in 1 .. b : u[a + i] = last[i]
    <3>1. /\ DOMAIN t = 1 .. a /\ a \in Nat
          /\ DOMAIN last = 1 .. b /\ b \in Nat
      BY <2>2, <2>3, LenProperties
    <3>2. u \in Seq(S) /\ Len(u) = a + b
      BY <2>2, <2>3, ConcatProperties
    <3>3. DOMAIN u = 1 .. a + b
      BY <3>2, LenProperties
    <3>4. \A i \in 1 .. a + b : u[i] = IF i <= a THEN t[i] ELSE last[i - a]
      BY <2>2, <2>3, <3>1, ConcatProperties
    <3>. HIDE DEF t, last, u, a, b
    <3>5. \A i \in 1 .. a : i \in 1 .. a + b /\ i <= a
      BY <3>1
    <3>6. \A i \in 1 .. b : a + i \in 1 .. a + b /\ ~(a + i <= a) /\ (a + i) - a = i
      BY <3>1
    <3>. QED  BY <3>1, <3>2, <3>3, <3>4, <3>5, <3>6
  <2>. HIDE DEF t, u, a, b
  <2>6. /\ n + 1 \in 1 .. n + 1
        /\ \A k \in 1 .. n : k \in 1 .. n + 1 /\ k < n + 1
        /\ \A k \in 1 .. n + 1 : k \in 1 .. n \/ k = n + 1
    OBVIOUS
  <2>7. ASSUME NEW i \in DOMAIN u
        PROVE  \/ i \in DOMAIN t /\ u[i] = t[i]
               \/ /\ i - a \in DOMAIN last /\ i = a + (i - a)
                  /\ u[i] = s[n + 1][i - a]
    <3>1. i \in 1 .. a \/ (i - a \in 1 .. b /\ i = a + (i - a))
      BY <2>5
    <3>. QED  BY <2>5, <3>1
  <2>8. In(u, n + 1)
    <3>. SUFFICES ASSUME NEW i \in DOMAIN u
                  PROVE  \E c \in 1 .. n + 1 : \E m \in DOMAIN s[c] :
                           u[i] = s[c][m]
      BY DEF In
    <3>1. CASE i \in DOMAIN t /\ u[i] = t[i]
      BY <2>2, <2>6, <3>1 DEF In
    <3>2. CASE i - a \in DOMAIN last /\ u[i] = s[n + 1][i - a]
      BY <2>6, <3>2
    <3>. QED  BY <2>7, <3>1, <3>2
  <2>9. Ahead(u, n + 1)
    <3>. SUFFICES ASSUME NEW i \in DOMAIN u, NEW j \in DOMAIN u, i < j
                  PROVE  \E c, d \in 1 .. n + 1 :
                           \E m \in DOMAIN s[c], l \in DOMAIN s[d] :
                             /\ u[i] = s[c][m] /\ u[j] = s[d][l]
                             /\ c < d \/ (c = d /\ m < l)
      BY DEF Ahead
    <3>1. CASE j \in DOMAIN t /\ u[j] = t[j]
      <4>1. i \in DOMAIN t /\ u[i] = t[i]
        BY <2>5, <3>1
      <4>2. PICK c \in 1 .. n, d \in 1 .. n :
              \E m \in DOMAIN s[c], l \in DOMAIN s[d] :
                /\ t[i] = s[c][m] /\ t[j] = s[d][l]
                /\ c < d \/ (c = d /\ m < l)
        BY <2>2, <3>1, <4>1 DEF Ahead
      <4>. QED  BY <2>6, <3>1, <4>1, <4>2
    <3>2. CASE j - a \in DOMAIN last /\ j = a + (j - a) /\ u[j] = s[n + 1][j - a]
      <4>1. CASE i \in DOMAIN t /\ u[i] = t[i]
        <5>1. PICK c \in 1 .. n : \E m \in DOMAIN s[c] : t[i] = s[c][m]
          BY <2>2, <4>1 DEF In
        <5>2. c \in 1 .. n + 1 /\ c < n + 1
          BY <2>6
        <5>. QED  BY <2>6, <3>2, <4>1, <5>1, <5>2
      <4>2. CASE i - a \in DOMAIN last /\ u[i] = s[n + 1][i - a]
        <5>1. i - a < j - a
          BY <2>5
        <5>. QED  BY <2>6, <3>2, <4>2, <5>1
      <4>. QED  BY <2>7, <4>1, <4>2
    <3>. QED  BY <2>7, <3>1, <3>2
  <2>10. All(u, n + 1)
    <3>. SUFFICES ASSUME NEW c \in 1 .. n + 1, NEW m \in DOMAIN s[c]
                  PROVE  \E i \in DOMAIN u : u[i] = s[c][m]
      BY DEF All
    <3>1. CASE c \in 1 .. n
      <4>1. PICK i \in DOMAIN t : t[i] = s[c][m]
        BY <2>2, <3>1 DEF All
      <4>2. i \in DOMAIN u /\ u[i] = t[i]
        BY <2>5
      <4>. QED  BY <4>1, <4>2
    <3>2. CASE c = n + 1
      <4>1. m \in 1 .. b
        BY <2>5, <3>2
      <4>2. a + m \in DOMAIN u /\ u[a + m] = last[m]
        BY <2>5, <4>1
      <4>. QED  BY <3>2, <4>2
    <3>. QED  BY <2>6, <3>1, <3>2
  <2>. QED  BY <2>4, <2>5, <2>8, <2>9, <2>10
<1>5. /\ flat[Len(s)] \in Seq(S) /\ In(flat[Len(s)], Len(s))
      /\ Ahead(flat[Len(s)], Len(s)) /\ All(flat[Len(s)], Len(s))
  <2>1. \A n \in Nat : n \in N
    <3>. HIDE DEF N
    <3>. QED  BY <1>3, <1>4, NumberInduction
  <2>. QED  BY <1>2, <2>1
<1>. DEFINE t == Flat(s)
<1>6. t \in Seq(S) /\ In(t, Len(s)) /\ Ahead(t, Len(s)) /\ All(t, Len(s))
  BY <1>1, <1>5
<1>. HIDE DEF t
<1>7. \A i \in DOMAIN t : \E c \in DOMAIN s : \E m \in DOMAIN s[c] : t[i] = s[c][m]
  BY <1>2, <1>6 DEF In
<1>8. \A i, j \in DOMAIN t : i < j =>
        \E c, d \in DOMAIN s : \E m \in DOMAIN s[c], l \in DOMAIN s[d] :
          /\ t[i] = s[c][m] /\ t[j] = s[d][l]
          /\ c < d \/ (c = d /\ m < l)
  <2>. SUFFICES ASSUME NEW i \in DOMAIN t, NEW j \in DOMAIN t, i < j
                PROVE  \E c, d \in DOMAIN s :
                         \E m \in DOMAIN s[c], l \in DOMAIN s[d] :
                           /\ t[i] = s[c][m] /\ t[j] = s[d][l]
                           /\ c < d \/ (c = d /\ m < l)
    OBVIOUS
  <2>1. PICK c \in 1 .. Len(s), d \in 1 .. Len(s) :
          \E m \in DOMAIN s[c], l \in DOMAIN s[d] :
            /\ t[i] = s[c][m] /\ t[j] = s[d][l]
            /\ c < d \/ (c = d /\ m < l)
    BY <1>6 DEF Ahead
  <2>. QED  BY <1>2, <2>1
<1>9. \A c \in DOMAIN s : \A m \in DOMAIN s[c] :
        \E i \in DOMAIN t : t[i] = s[c][m]
  BY <1>2, <1>6 DEF All
<1>. QED  BY <1>6, <1>7, <1>8, <1>9, Zenon DEF t

LEMMA FlatNone == Flat(<<>>) = <<>>
<1>1. <<>> \in Seq(Seq({})) /\ Len(<<>>) = 0
  BY EmptySeq
<1>2. PICK flat : Joining(flat, <<>>, {}) /\ Flat(<<>>) = flat[0]
  BY <1>1, FlatUnfolds
<1>. QED  BY <1>2 DEF Joining

LEMMA FlatAppend ==
  ASSUME NEW S, NEW s \in Seq(Seq(S)), NEW e \in Seq(S)
  PROVE  Flat(Append(s, e)) = Flat(s) \o e
<1>. DEFINE t == Append(s, e)
            l == Len(s)
<1>1. /\ t \in Seq(Seq(S)) /\ l \in Nat /\ Len(t) = l + 1 /\ t[l + 1] = e
      /\ \A i \in 1 .. l : t[i] = s[i]
  BY OneMore
<1>2. PICK f : Joining(f, s, S) /\ Flat(s) = f[l]
  BY FlatUnfolds
<1>. HIDE DEF t
<1>3. PICK g : Joining(g, t, S) /\ Flat(t) = g[Len(t)]
  BY <1>1, FlatUnfolds
<1>4. f[0] = <<>> /\ \A k \in 1 .. l : f[k] = f[k - 1] \o s[k]
  BY <1>2 DEF Joining
<1>5. g[0] = <<>> /\ \A k \in 1 .. l + 1 : g[k] = g[k - 1] \o t[k]
  BY <1>1, <1>3 DEF Joining
<1>. HIDE DEF l
<1>. DEFINE N == {n \in Nat : n <= l => g[n] = f[n]}
<1>6. 0 \in N
  BY <1>4, <1>5
<1>7. ASSUME NEW n \in Nat, n \in N PROVE n + 1 \in N
  <2>. SUFFICES ASSUME n + 1 <= l PROVE g[n + 1] = f[n + 1]
    OBVIOUS
  <2>1. /\ n + 1 \in 1 .. l /\ n + 1 \in 1 .. l + 1 /\ (n + 1) - 1 = n
        /\ n <= l
    BY <1>1
  <2>2. g[n] = f[n] /\ t[n + 1] = s[n + 1]
    BY <1>1, <1>7, <2>1
  <2>. QED  BY <1>4, <1>5, <2>1, <2>2
<1>8. g[l] = f[l]
  <2>1. \A n \in Nat : n \in N
    <3>. HIDE DEF N
    <3>. QED  BY <1>6, <1>7, NumberInduction
  <2>. QED  BY <1>1, <2>1
<1>9. l + 1 \in 1 .. l + 1 /\ (l + 1) - 1 = l
  BY <1>1
<1>10. g[l + 1] = g[l] \o e
  BY <1>1, <1>5, <1>9
<1>. QED  BY <1>1, <1>2, <1>3, <1>8, <1>10 DEF t

LEMMA AppendLast ==
  ASSUME NEW S, NEW s \in Seq(S), NEW t \in Seq(S), NEW e \in S
  PROVE  /\ s \o Append(t, e) = Append(s \o t, e)
         /\ s \o <<e>> = Append(s, e)
<1>1. /\ <<e>> \in Seq(S)
      /\ \A u \in Seq(S) : Append(u, e) = u \o <<e>>
  BY AppendIsConcat
<1>2. s \o t \in Seq(S)
  BY ConcatProperties
<1>3. (s \o t) \o <<e>> = s \o (t \o <<e>>)
  BY <1>1, ConcatAssociative
<1>. QED  BY <1>1, <1>2, <1>3

=============================================================================
