-------------------------- MODULE ExtractionProofs --------------------------
(***************************************************************************)
(* Theorems about Extraction, for any file, extractors, readings and bounds *)
(* of the OCR.                                                              *)
(***************************************************************************)
EXTENDS Extraction, DataLemmas

-----------------------------------------------------------------------------
(* Scores.                                                                  *)

LEMMA RoundedType ==
  ASSUME NEW a \in Nat, NEW b \in Nat \ {0}
  PROVE  Rounded(a, b) \in Nat
BY DEF Rounded

LEMMA RoundedAtLeast ==
  ASSUME NEW a \in Nat, NEW b \in Nat \ {0}, NEW k \in Nat, a >= k * b
  PROVE  Rounded(a, b) >= k
BY DEF Rounded

(* A share of k parts or more, free of the division.                        *)
LEMMA ShareAtLeast ==
  ASSUME NEW n \in Nat, NEW of \in Nat \ {0}, NEW k \in Nat
  PROVE  Share(n, of) >= k <=> 20000 * n + of >= 2 * k * of
BY DEF Share, Rounded, Whole

LEMMA RoundedAtMost ==
  ASSUME NEW a \in Nat, NEW b \in Nat \ {0}, NEW k \in Nat, a <= k * b
  PROVE  Rounded(a, b) <= k
BY DEF Rounded

LEMMA ShareType ==
  ASSUME NEW n \in Nat, NEW of \in Nat \ {0}, n <= of
  PROVE  Share(n, of) \in 0 .. Whole
<1>1. Whole \in Nat /\ Whole * n \in Nat /\ Whole * n <= Whole * of
  BY DEF Whole
<1>2. Share(n, of) \in Nat
  BY <1>1, RoundedType DEF Share
<1>3. Share(n, of) <= Whole
  BY <1>1, RoundedAtMost DEF Share
<1>. QED  BY <1>1, <1>2, <1>3

LEMMA LeastType ==
  ASSUME NEW a \in Nat, NEW b \in Nat
  PROVE  Least(a, b) \in Nat /\ Least(a, b) <= a /\ Least(a, b) <= b
BY DEF Least

LEMMA PartsType ==
  ASSUME NEW t \in Text
  PROVE  /\ Meaningful(t) \in 0 .. Whole
         /\ Garbage(t.garbage, t) \in 0 .. Whole
         /\ Garbage(t.damaged, t) \in 0 .. Whole
         /\ Repetition(t) \in 0 .. Whole
         /\ \A n \in Nat \ {0} : Share(Least(t.chars, n), n) \in 0 .. Whole
<1>1. /\ t.chars \in Nat /\ t.alnum \in Nat /\ t.garbage \in Nat
      /\ t.damaged \in Nat /\ t.words \in Nat /\ t.distinct \in Nat
      /\ t.alnum <= t.chars /\ t.garbage <= t.chars /\ t.damaged <= t.chars
      /\ t.distinct <= t.words
  BY DEF Text
<1>2. /\ 0 \in 0 .. Whole /\ Whole \in 0 .. Whole
      /\ \A x \in 0 .. Whole : Whole - x \in 0 .. Whole
  <2>1. Whole \in Nat
    BY DEF Whole
  <2>. QED  BY <2>1
<1>. QED  BY <1>1, <1>2, ShareType, LeastType
          DEF Meaningful, Garbage, Repetition, Empty

LEMMA ScoreTextType ==
  ASSUME NEW t \in Text
  PROVE  ScoreText(t) \in Nat
<1>. DEFINE m == Meaningful(t)
            g == Garbage(t.garbage, t)
            r == Repetition(t)
            l == Share(Least(t.chars, 200), 200)
            sum == 45 * m + 25 * (Whole - g) + 15 * (Whole - r) + 15 * l
<1>1. m \in 0 .. Whole /\ g \in 0 .. Whole /\ r \in 0 .. Whole /\ l \in 0 .. Whole
  BY PartsType
<1>2. ScoreText(t) = IF Empty(t) THEN 0 ELSE Rounded(sum, 100)
  BY DEF ScoreText
<1>. HIDE DEF m, g, r, l
<1>3. sum \in Nat
  BY <1>1 DEF Whole
<1>. HIDE DEF sum
<1>. QED  BY <1>2, <1>3, RoundedType

LEMMA QualityScoreType ==
  ASSUME NEW t \in Text, NEW confidence \in 0 .. Whole \cup {Nil},
         NEW coverage \in 0 .. Whole
  PROVE  QualityScore(t, confidence, coverage) \in Nat
<1>. DEFINE m == Meaningful(t)
            g == Garbage(t.damaged, t)
            r == Repetition(t)
            l == Share(Least(t.chars, 120), 120)
            c == Share(Least(coverage, 200), 200)
            text == 40 * m + 20 * (Whole - g) + 15 * (Whole - r) + 15 * l + 10 * c
<1>1. c \in 0 .. Whole
  <2>1. coverage \in Nat
    BY DEF Whole
  <2>2. Least(coverage, 200) \in Nat /\ Least(coverage, 200) <= 200
    BY <2>1, LeastType
  <2>. QED  BY <2>2, ShareType
<1>2. m \in 0 .. Whole /\ g \in 0 .. Whole /\ r \in 0 .. Whole /\ l \in 0 .. Whole
  BY PartsType
<1>3. QualityScore(t, confidence, coverage) =
        IF confidence = Nil THEN Rounded(text, 100)
        ELSE Rounded(70 * text + 3000 * confidence, 10000)
  BY DEF QualityScore
<1>. HIDE DEF m, g, r, l, c
<1>4. text \in Nat
  BY <1>1, <1>2 DEF Whole
<1>. HIDE DEF text
<1>5. confidence # Nil => 70 * text + 3000 * confidence \in Nat
  BY <1>4 DEF Whole
<1>6. \A a \in Nat : Rounded(a, 100) \in Nat /\ Rounded(a, 10000) \in Nat
  BY RoundedType
<1>. QED  BY <1>3, <1>4, <1>5, <1>6

(* The statuses of the scorer.                                              *)
LEMMA StatusOfScore ==
  ASSUME NEW score \in Nat
  PROVE  /\ StatusOf(LevelForScore(score)) \in Statuses
         /\ StatusOf(LevelForScore(score)) = "accepted" <=> score >= 7000
         /\ StatusOf(LevelForScore(score)) = "failed" <=> score < 4000
<1>1. CASE score >= 9000
  BY <1>1 DEF LevelForScore, StatusOf, Statuses
<1>2. CASE score >= 7000 /\ score < 9000
  BY <1>2 DEF LevelForScore, StatusOf, Statuses
<1>3. CASE score >= 4000 /\ score < 7000
  BY <1>3 DEF LevelForScore, StatusOf, Statuses
<1>4. CASE score < 4000
  BY <1>4 DEF LevelForScore, StatusOf, Statuses
<1>. QED  BY <1>1, <1>2, <1>3, <1>4

-----------------------------------------------------------------------------
(* The choice of a candidate.                                               *)

Triple(k) == k[1] \in Int /\ k[2] \in Int /\ k[3] \in Int

LEMMA NotAfterOrders ==
  ASSUME NEW one, NEW two, NEW three, Triple(one), Triple(two), Triple(three)
  PROVE  /\ NotAfter(one, one)
         /\ NotAfter(one, two) \/ NotAfter(two, one)
         /\ NotAfter(one, two) /\ NotAfter(two, three) => NotAfter(one, three)
BY DEF NotAfter, Triple

IsFirst(c, S, key) == c \in S /\ \A d \in S : NotAfter(key[c], key[d])

(* Any finite set of candidates has a first one.                            *)
LEMMA FirstExists ==
  ASSUME NEW S, IsFiniteSet(S), S # {}, NEW key, \A c \in S : Triple(key[c])
  PROVE  \E c \in S : IsFirst(c, S, key)
<1>. DEFINE good == {T \in SUBSET S : T = {} \/ \E c \in T : IsFirst(c, T, key)}
<1>1. ASSUME NEW T \in SUBSET S, \A x \in T : T \ {x} \in good
      PROVE  T = {} \/ \E c \in T : IsFirst(c, T, key)
  <2>. SUFFICES ASSUME NEW x \in T PROVE \E c \in T : IsFirst(c, T, key)
    OBVIOUS
  <2>1. CASE T \ {x} = {}
    BY <2>1, NotAfterOrders DEF IsFirst
  <2>2. CASE T \ {x} # {}
    <3>1. PICK c \in T \ {x} : IsFirst(c, T \ {x}, key)
      BY <1>1, <2>2
    <3>2. CASE NotAfter(key[c], key[x])
      BY <3>1, <3>2 DEF IsFirst
    <3>3. CASE ~NotAfter(key[c], key[x])
      <4>1. NotAfter(key[x], key[c]) /\ NotAfter(key[x], key[x])
        BY <3>3, NotAfterOrders
      <4>2. ASSUME NEW d \in T \ {x}
            PROVE  NotAfter(key[x], key[d])
        <5>1. NotAfter(key[c], key[d])
          BY <3>1 DEF IsFirst
        <5>. QED  BY <4>1, <5>1, NotAfterOrders
      <4>. QED  BY <4>1, <4>2 DEF IsFirst
    <3>. QED  BY <3>2, <3>3
  <2>. QED  BY <2>1, <2>2
<1>2. good \in SUBSET (SUBSET S)
  OBVIOUS
<1>3. \A T \in SUBSET S : (\A x \in T : T \ {x} \in good) => T \in good
  BY <1>1
<1>4. S \in good => \E c \in S : IsFirst(c, S, key)
  OBVIOUS
<1>. HIDE DEF good
<1>. QED  BY <1>2, <1>3, <1>4, SubsetInduction

LEMMA FirstByIsIn ==
  ASSUME NEW S, IsFiniteSet(S), S # {}, NEW key, \A c \in S : Triple(key[c])
  PROVE  FirstBy(S, key) \in S
<1>1. \E c \in S : \A d \in S : NotAfter(key[c], key[d])
  BY FirstExists DEF IsFirst
<1>. QED  BY <1>1 DEF FirstBy

(* The most alike, any number of them.                                      *)
AreTop(T, R, like) == \A d \in R, e \in T : d \in T \/ like[e] >= like[d]

LEMMA TopExists ==
  ASSUME NEW R, IsFiniteSet(R), NEW like \in [R -> Nat],
         NEW n \in Nat, n <= Cardinality(R)
  PROVE  \E T \in SUBSET R : Cardinality(T) = n /\ AreTop(T, R, like)
<1>. DEFINE Tops(k) == {T \in SUBSET R : Cardinality(T) = k /\ AreTop(T, R, like)}
            N == {k \in Nat : k <= Cardinality(R) => Tops(k) # {}}
<1>1. 0 \in N
  <2>1. {} \in Tops(0)
    BY FS_EmptySet DEF AreTop
  <2>. QED  BY <2>1
<1>2. ASSUME NEW k \in Nat, k \in N
      PROVE  k + 1 \in N
  <2>. SUFFICES ASSUME k + 1 <= Cardinality(R) PROVE Tops(k + 1) # {}
    OBVIOUS
  <2>0. Cardinality(R) \in Nat
    BY FS_CardinalityType
  <2>1. PICK T \in Tops(k) : TRUE
    BY <1>2, <2>0
  <2>. DEFINE rest == R \ T
              key == [d \in R |-> <<like[d], 0, 0>>]
  <2>2. IsFiniteSet(T) /\ IsFiniteSet(rest)
    BY <2>1, FS_Subset
  <2>3. rest # {}
    BY <2>0, <2>1
  <2>4. \A d \in rest : Triple(key[d])
    BY DEF Triple
  <2>5. PICK c \in rest : IsFirst(c, rest, key)
    <3>. HIDE DEF rest, key
    <3>. QED  BY <2>2, <2>3, <2>4, FirstExists
  <2>6. \A d \in rest : like[c] >= like[d]
    BY <2>5 DEF IsFirst, NotAfter
  <2>7. Cardinality(T \cup {c}) = k + 1
    BY <2>1, <2>2, <2>5, FS_AddElement
  <2>8. AreTop(T \cup {c}, R, like)
    BY <2>1, <2>6 DEF AreTop
  <2>9. T \cup {c} \in Tops(k + 1)
    BY <2>1, <2>5, <2>7, <2>8
  <2>. QED  BY <2>9
<1>3. n \in N
  <2>. HIDE DEF N
  <2>. QED  BY <1>1, <1>2, NumberInduction
<1>. QED  BY <1>3

LEMMA AgreementType ==
  ASSUME NEW batch \in SUBSET Candidate, IsFiniteSet(batch), NEW c \in batch
  PROVE  Agreement(c, batch) \in Nat \cup {Nil}
<1>. DEFINE R == batch \ {c}
            Like(d) == Similarity[c.reading.says][d.reading.says]
            like == [d \in R |-> Like(d)]
            n == Least(3, Cardinality(batch) - 1)
            IsThree(S) ==
              /\ Cardinality(S) = n
              /\ \A d \in R, e \in S : d \in S \/ Like(e) >= Like(d)
            three == CHOOSE S \in SUBSET R : IsThree(S)
<1>. SUFFICES ASSUME batch # {c}
              PROVE  Rounded(SumFunction([d \in three |-> Like(d)]),
                             Cardinality(three)) \in Nat
  BY DEF Agreement
<1>1. \A d \in batch : d.reading.says \in DOMAIN Similarity
  BY DEF Candidate, Reading
<1>2. \A d \in R : Like(d) \in Nat
  BY <1>1, ExtractionAssumption
<1>3. /\ IsFiniteSet(R) /\ Cardinality(R) = Cardinality(batch) - 1
      /\ Cardinality(R) \in Nat /\ Cardinality(R) # 0
  <2>1. IsFiniteSet(R) /\ Cardinality(R) = Cardinality(batch) - 1
    BY FS_RemoveElement
  <2>2. R # {}
    OBVIOUS
  <2>. HIDE DEF R
  <2>. QED  BY <2>1, <2>2, FS_CardinalityType, FS_EmptySet
<1>4. n \in Nat /\ n # 0 /\ n <= Cardinality(R)
  BY <1>3 DEF Least
<1>5. \E S \in SUBSET R : IsThree(S)
  <2>1. like \in [R -> Nat]
    BY <1>2
  <2>2. PICK S \in SUBSET R : Cardinality(S) = n /\ AreTop(S, R, like)
    <3>. HIDE DEF R, like, n
    <3>. QED  BY <1>3, <1>4, <2>1, TopExists
  <2>3. \A d \in R, e \in S : d \in S \/ Like(e) >= Like(d)
    BY <2>2 DEF AreTop
  <2>. QED  BY <2>2, <2>3
<1>6. three \in SUBSET R /\ Cardinality(three) = n
  <2>. HIDE DEF R, n, Like
  <2>. QED  BY <1>5
<1>. HIDE DEF three, n
<1>7. IsFiniteSet(three)
  BY <1>3, <1>6, FS_Subset
<1>8. [d \in three |-> Like(d)] \in [three -> Nat]
  BY <1>2, <1>6
<1>9. SumFunction([d \in three |-> Like(d)]) \in Nat
  <2>. HIDE DEF Like
  <2>. QED  BY <1>7, <1>8, SumIsNat
<1>. QED  BY <1>4, <1>6, <1>9, RoundedType

LEMMA ScoreOfType ==
  ASSUME NEW c \in Candidate
  PROVE  ScoreOf(c) \in Nat /\ Confidence(c) \in Nat
<1>1. /\ c.reading.text \in Text /\ c.reading.coverage \in 0 .. Whole
      /\ c.reading.confidence \in 0 .. Whole \cup {Nil}
  BY DEF Candidate, Reading
<1>2. ScoreOf(c) \in Nat
  BY <1>1, QualityScoreType DEF ScoreOf
<1>3. 0 .. Whole \subseteq Nat /\ 0 \in Nat
  BY DEF Whole
<1>. QED  BY <1>1, <1>2, <1>3 DEF Confidence

LEMMA SortKeyType ==
  ASSUME NEW batch \in SUBSET Candidate, IsFiniteSet(batch), NEW c \in batch
  PROVE  Triple(SortKey(c, batch))
<1>1. /\ ScoreOf(c) \in Nat /\ Confidence(c) \in Nat
      /\ Agreement(c, batch) \in Nat \cup {Nil}
  BY AgreementType, ScoreOfType
<1>2. SelectionScore(c, batch) \in Nat
  <2>. DEFINE s == ScoreOf(c)
              f == Confidence(c)
              a == Agreement(c, batch)
  <2>1. SelectionScore(c, batch) =
          IF a = Nil THEN Rounded(5625 * s + 4375 * f, 10000)
          ELSE Rounded(45 * s + 35 * f + 20 * a, 100)
    BY DEF SelectionScore
  <2>2. s \in Nat /\ f \in Nat /\ a \in Nat \cup {Nil}
    BY <1>1
  <2>. HIDE DEF s, f, a
  <2>3. 5625 * s + 4375 * f \in Nat
    BY <2>2
  <2>4. a # Nil => 45 * s + 35 * f + 20 * a \in Nat
    BY <2>2
  <2>5. \A n \in Nat : Rounded(n, 100) \in Nat /\ Rounded(n, 10000) \in Nat
    BY RoundedType
  <2>. QED  BY <2>1, <2>3, <2>4, <2>5
<1>. QED  BY <1>1, <1>2 DEF SortKey, Triple

LEMMA FirstIsIn ==
  ASSUME NEW batch \in SUBSET Candidate, IsFiniteSet(batch),
         NEW some \in SUBSET batch, some # {}
  PROVE  FirstBy(some, [c \in batch |-> SortKey(c, batch)]) \in some
<1>. DEFINE key == [c \in batch |-> SortKey(c, batch)]
<1>1. \A c \in some : Triple(key[c])
  BY SortKeyType
<1>2. IsFiniteSet(some)
  BY FS_Subset
<1>. HIDE DEF key
<1>3. FirstBy(some, key) \in some
  BY <1>1, <1>2, FirstByIsIn
<1>. QED  BY <1>3 DEF key

(* What is selected passed the gate.                                        *)
LEMMA SelectedPasses ==
  ASSUME NEW batch \in SUBSET Candidate, IsFiniteSet(batch),
         Selected(batch) # Nil
  PROVE  Selected(batch) \in batch /\ Passes(Selected(batch), batch)
<1>. DEFINE key == [c \in batch |-> SortKey(c, batch)]
            valid == {c \in batch : Passes(c, batch)}
            full == {c \in valid : c.route = "full_page_ocr"}
            region == {c \in valid : c.route = "region_ocr"}
<1>1. full \in SUBSET batch /\ region \in SUBSET batch
  OBVIOUS
<1>2. Selected(batch) = Preferred(full, region, key)
  BY DEF Selected
<1>3. full # {} => FirstBy(full, key) \in full
  <2>. HIDE DEF full
  <2>. QED  BY <1>1, FirstIsIn
<1>4. region # {} => FirstBy(region, key) \in region
  <2>. HIDE DEF region
  <2>. QED  BY <1>1, FirstIsIn
<1>5. Selected(batch) \in full \cup region
  <2>. HIDE DEF full, region, key
  <2>. QED  BY <1>2, <1>3, <1>4 DEF Preferred
<1>. QED  BY <1>5

-----------------------------------------------------------------------------
(* Scores from below.                                                       *)

(* Characters that count are no garbage: what is left of the garbage is as  *)
(* much as what is meaningful, but for the rounding.                        *)
LEMMA LittleGarbage ==
  ASSUME NEW t \in Text, ~Empty(t), NEW k \in Nat, Meaningful(t) >= k
  PROVE  /\ Whole - Garbage(t.garbage, t) >= k - 1
         /\ Whole - Garbage(t.damaged, t) >= k - 1
<1>1. /\ t.chars \in Nat \ {0} /\ t.alnum \in Nat /\ t.garbage \in Nat
      /\ t.damaged \in Nat /\ t.alnum + t.garbage <= t.chars
      /\ t.damaged <= t.garbage
  BY DEF Text, Empty
<1>2. 20000 * t.alnum + t.chars >= 2 * k * t.chars
  BY <1>1, ShareAtLeast DEF Meaningful
<1>3. ASSUME NEW n \in Nat, t.alnum + n <= t.chars
      PROVE  Whole - Garbage(n, t) >= k - 1
  <2>1. Garbage(n, t) = Share(n, t.chars)
    BY DEF Garbage
  <2>2. n <= t.chars /\ Share(n, t.chars) \in 0 .. Whole
    BY <1>1, <1>3, ShareType
  <2>3. SUFFICES ASSUME ~ (Whole - Share(n, t.chars) >= k - 1) PROVE FALSE
    BY <2>1
  <2>. DEFINE j == 10002 - k
  <2>4. CASE k > 10002
    <3>1. k * t.chars >= 10003 * t.chars
      BY <1>1, <2>4
    <3>. QED  BY <1>1, <1>2, <3>1
  <2>5. CASE k <= 10002
    <3>0. \A share \in 0 .. Whole :
            ~ (Whole - share >= k - 1) => share >= 10002 - k
      BY DEF Whole
    <3>1. j \in Nat /\ Share(n, t.chars) >= j
      BY <2>2, <2>3, <2>5, <3>0
    <3>2. 20000 * n + t.chars >= 2 * j * t.chars
      <4>. HIDE DEF j
      <4>. QED  BY <1>1, <3>1, ShareAtLeast
    <3>3. 2 * j * t.chars = 20004 * t.chars - 2 * k * t.chars
      BY <1>1
    <3>. QED  BY <1>1, <1>2, <1>3, <3>2, <3>3
  <2>. QED  BY <2>4, <2>5
<1>. QED  BY <1>1, <1>3

LEMMA ScoreTextAtLeast ==
  ASSUME NEW t \in Text, ~Empty(t), NEW k \in Nat, Meaningful(t) >= k,
         NEW long \in Nat, Share(Least(t.chars, 200), 200) >= long,
         NEW score \in Nat, 45 * k + 25 * (k - 1) + 15 * long >= 100 * score
  PROVE  ScoreText(t) >= score
<1>. DEFINE m == Meaningful(t)
            g == Garbage(t.garbage, t)
            r == Repetition(t)
            l == Share(Least(t.chars, 200), 200)
            sum == 45 * m + 25 * (Whole - g) + 15 * (Whole - r) + 15 * l
<1>1. m \in 0 .. Whole /\ g \in 0 .. Whole /\ r \in 0 .. Whole /\ l \in 0 .. Whole
  BY PartsType
<1>2. ScoreText(t) = Rounded(sum, 100)
  BY DEF ScoreText
<1>3. m >= k /\ Whole - g >= k - 1 /\ l >= long
  BY LittleGarbage
<1>. HIDE DEF m, g, r, l
<1>4. sum \in Nat /\ sum >= score * 100
  BY <1>1, <1>3 DEF Whole
<1>. HIDE DEF sum
<1>. QED  BY <1>2, <1>4, RoundedAtLeast

(* The quality of native text, which has no confidence.                     *)
LEMMA QualityAtLeast ==
  ASSUME NEW t \in Text, ~Empty(t), NEW k \in Nat, Meaningful(t) >= k,
         NEW long \in Nat, Share(Least(t.chars, 120), 120) >= long,
         NEW coverage \in 0 .. Whole,
         NEW score \in Nat, 40 * k + 20 * (k - 1) + 15 * long >= 100 * score
  PROVE  QualityScore(t, Nil, coverage) >= score
<1>. DEFINE m == Meaningful(t)
            g == Garbage(t.damaged, t)
            r == Repetition(t)
            l == Share(Least(t.chars, 120), 120)
            c == Share(Least(coverage, 200), 200)
            sum == 40 * m + 20 * (Whole - g) + 15 * (Whole - r) + 15 * l + 10 * c
<1>1. c \in 0 .. Whole
  <2>1. coverage \in Nat
    BY DEF Whole
  <2>2. Least(coverage, 200) \in Nat /\ Least(coverage, 200) <= 200
    BY <2>1, LeastType
  <2>. QED  BY <2>2, ShareType
<1>2. m \in 0 .. Whole /\ g \in 0 .. Whole /\ r \in 0 .. Whole /\ l \in 0 .. Whole
  BY PartsType
<1>3. QualityScore(t, Nil, coverage) = Rounded(sum, 100)
  BY DEF QualityScore
<1>4. m >= k /\ Whole - g >= k - 1 /\ l >= long
  BY LittleGarbage
<1>. HIDE DEF m, g, r, l, c
<1>5. sum \in Nat /\ sum >= score * 100
  BY <1>1, <1>2, <1>4 DEF Whole
<1>. HIDE DEF sum
<1>. QED  BY <1>3, <1>5, RoundedAtLeast

(* Native text that makes a page digital.                                   *)
LEMMA UsableScores ==
  ASSUME NEW e \in Evidence, UsableNative(e)
  PROVE  /\ ~Empty(e.native) /\ ScoreText(e.native) >= 4149
         /\ QualityScore(e.native, Nil, e.ink) >= 3799
<1>. DEFINE t == e.native
<1>1. /\ t \in Text /\ e.ink \in 0 .. Whole /\ t.chars \in Nat
      /\ t.chars >= 40 /\ Meaningful(t) >= 5500
  BY DEF Evidence, Text, UsableNative
<1>2. ~Empty(t)
  BY <1>1 DEF Empty
<1>3. /\ Least(t.chars, 200) \in Nat /\ Least(t.chars, 200) >= 40
      /\ Least(t.chars, 120) \in Nat /\ Least(t.chars, 120) >= 40
  BY <1>1 DEF Least
<1>4. /\ Share(Least(t.chars, 200), 200) >= 2000
      /\ Share(Least(t.chars, 120), 120) >= 3333
  BY <1>3, ShareAtLeast
<1>. HIDE DEF t
<1>5. ScoreText(t) >= 4149
  BY <1>1, <1>2, <1>4, ScoreTextAtLeast
<1>6. QualityScore(t, Nil, e.ink) >= 3799
  BY <1>1, <1>2, <1>4, QualityAtLeast
<1>. QED  BY <1>2, <1>5, <1>6 DEF t

LEMMA IndexTextsType ==
  ASSUME NEW native \in Text, NEW other \in Text
  PROVE  IndexTexts(native, other) \in SUBSET Text
<1>1. CASE Empty(native) \/ Empty(other)
  BY <1>1 DEF IndexTexts
<1>2. CASE ~Empty(native) /\ ~Empty(other)
  <2>1. /\ native.distinct \in Nat /\ other.distinct \in Nat
    BY DEF Text
  <2>2. Max({native.distinct, other.distinct}) \in
          {native.distinct, other.distinct}
    <3>1. \E x \in {native.distinct, other.distinct} :
            \A y \in {native.distinct, other.distinct} : x >= y
      BY <2>1
    <3>. QED  BY <3>1 DEF Max
  <2>3. ASSUME NEW d \in Nat,
               \/ d = native.distinct + other.distinct
               \/ /\ d >= native.distinct /\ d >= other.distinct
                  /\ d \in {native.distinct, other.distinct}
        PROVE  [chars |-> native.chars + other.chars,
                alnum |-> native.alnum + other.alnum,
                garbage |-> native.garbage + other.garbage,
                damaged |-> native.damaged + other.damaged,
                words |-> native.words + other.words,
                distinct |-> d] \in Text
    BY <1>2, <2>3 DEF Text, Empty
  <2>4. LET d == Max({native.distinct, other.distinct})
        IN  d >= native.distinct /\ d >= other.distinct
    <3>1. \E x \in {native.distinct, other.distinct} :
            \A y \in {native.distinct, other.distinct} : x >= y
      BY <2>1
    <3>. QED  BY <3>1 DEF Max
  <2>5. PICK d : d = Max({native.distinct, other.distinct})
    OBVIOUS
  <2>6. IndexTexts(native, other) =
          {t \in {native} : other = native}
            \cup {[chars |-> native.chars + other.chars,
                   alnum |-> native.alnum + other.alnum,
                   garbage |-> native.garbage + other.garbage,
                   damaged |-> native.damaged + other.damaged,
                   words |-> native.words + other.words,
                   distinct |-> x] : x \in {native.distinct + other.distinct, d}}
    BY <1>2, <2>5 DEF IndexTexts
  <2>7. \A x \in {native.distinct + other.distinct, d} :
          /\ x \in Nat
          /\ \/ x = native.distinct + other.distinct
             \/ /\ x >= native.distinct /\ x >= other.distinct
                /\ x \in {native.distinct, other.distinct}
    BY <2>1, <2>2, <2>4, <2>5
  <2>. QED  BY <2>3, <2>6, <2>7
<1>. QED  BY <1>1, <1>2

(* What is indexed of a page whose native text is short and whose OCR text  *)
(* passed the gate.                                                         *)
LEMMA IndexedScores ==
  ASSUME NEW native \in Text, native.chars < 5,
         NEW t \in Text, t.chars >= 10, Meaningful(t) >= 5500,
         NEW index \in IndexTexts(native, t)
  PROVE  ~Empty(index) /\ ScoreText(index) >= 3000
<1>1. /\ native.chars \in Nat /\ native.alnum \in Nat
      /\ t.chars \in Nat /\ t.alnum \in Nat
  BY DEF Text
<1>2. 20000 * t.alnum >= 10999 * t.chars
  <2>1. 20000 * t.alnum + t.chars >= 2 * 5500 * t.chars
    BY <1>1, ShareAtLeast DEF Meaningful, Empty
  <2>. QED  BY <1>1, <2>1
<1>3. index \in Text
  BY IndexTextsType
<1>4. /\ index.chars \in t.chars .. t.chars + 4
      /\ index.alnum >= t.alnum /\ index.alnum \in Nat
  BY <1>1, <1>3 DEF IndexTexts, Empty, Text
<1>5. 20000 * index.alnum + index.chars >= 2 * 4200 * index.chars
  <2>1. CASE t.chars >= 13
    BY <1>1, <1>2, <1>4, <2>1
  <2>2. CASE t.chars = 12
    <3>1. t.alnum >= 7
      BY <1>1, <1>2, <2>2
    <3>. QED  BY <1>1, <1>4, <2>2, <3>1
  <2>3. CASE t.chars = 11
    <3>1. t.alnum >= 7
      BY <1>1, <1>2, <2>3
    <3>. QED  BY <1>1, <1>4, <2>3, <3>1
  <2>4. CASE t.chars = 10
    <3>1. t.alnum >= 6
      BY <1>1, <1>2, <2>4
    <3>. QED  BY <1>1, <1>4, <2>4, <3>1
  <2>. QED  BY <1>1, <2>1, <2>2, <2>3, <2>4
<1>6. ~Empty(index) /\ index.chars \in Nat \ {0} /\ index.chars >= 10
  BY <1>1, <1>4 DEF Empty
<1>7. Meaningful(index) >= 4200
  BY <1>4, <1>5, <1>6, ShareAtLeast DEF Meaningful
<1>8. Share(Least(index.chars, 200), 200) >= 500
  <2>1. Least(index.chars, 200) \in Nat /\ Least(index.chars, 200) >= 10
    BY <1>6 DEF Least
  <2>. QED  BY <2>1, ShareAtLeast
<1>9. ScoreText(index) >= 3000
  BY <1>3, <1>6, <1>7, <1>8, ScoreTextAtLeast
<1>. QED  BY <1>6, <1>9

-----------------------------------------------------------------------------
(* The pages.                                                               *)

(* What holds of every page that an extractor makes.  That an accepted one  *)
(* does not fail the scorer is where the thresholds of both are compared.   *)
PageInv(p, name) ==
  /\ p \in PageResult
  /\ ValidPage(p)
  /\ p.status = "accepted" => PageScore(p) >= 4000
  /\ name = "adaptive_pdf_ocr" /\ p.status = "accepted" =>
       Empty(p.ocr) \/ p.passed

LEMMA PageScoreType ==
  ASSUME NEW p \in PageResult
  PROVE  PageScore(p) \in Nat
<1>. DEFINE text == ScoreText(p.index)
            decided == IF p.quality = Nil THEN 100 * text
                       ELSE 60 * text + 40 * p.quality
            agreed == IF ~Empty(p.native) /\ ~Empty(p.ocr) /\ p.agreement # Nil
                      THEN 85 * decided + 1500 * p.agreement
                      ELSE 100 * decided
<1>1. /\ p.index \in Text /\ p.quality \in Nat \cup {Nil}
      /\ p.agreement \in Nat \cup {Nil}
  BY DEF PageResult
<1>2. text \in Nat
  BY <1>1, ScoreTextType
<1>3. PageScore(p) = IF Empty(p.index) \/ p.type = "empty" THEN 0
                     ELSE IF p.route = "rejected"
                     THEN Least(Rounded(agreed, 10000), 3999)
                     ELSE Rounded(agreed, 10000)
  BY DEF PageScore
<1>. HIDE DEF text
<1>4. decided \in Nat
  BY <1>1, <1>2
<1>. HIDE DEF decided
<1>5. agreed \in Nat
  BY <1>1, <1>4
<1>. HIDE DEF agreed
<1>6. Rounded(agreed, 10000) \in Nat
  BY <1>5, RoundedType
<1>. QED  BY <1>3, <1>6, LeastType

(* The score of a page that is indexed and not rejected, from below.        *)
LEMMA PageScoreAtLeast ==
  ASSUME NEW p \in PageResult, ~Empty(p.index), p.type # "empty",
         p.route # "rejected",
         60 * ScoreText(p.index)
           + 40 * (IF p.quality = Nil THEN ScoreText(p.index) ELSE p.quality)
             >= 400000,
         p.agreement # Nil => p.agreement >= 4500
  PROVE  PageScore(p) >= 4000
<1>. DEFINE text == ScoreText(p.index)
            decided == IF p.quality = Nil THEN 100 * text
                       ELSE 60 * text + 40 * p.quality
            agreed == IF ~Empty(p.native) /\ ~Empty(p.ocr) /\ p.agreement # Nil
                      THEN 85 * decided + 1500 * p.agreement
                      ELSE 100 * decided
<1>1. /\ p.index \in Text /\ p.quality \in Nat \cup {Nil}
      /\ p.agreement \in Nat \cup {Nil}
  BY DEF PageResult
<1>2. text \in Nat
  BY <1>1, ScoreTextType
<1>3. PageScore(p) = Rounded(agreed, 10000)
  BY DEF PageScore
<1>4. 60 * text + 40 * (IF p.quality = Nil THEN text ELSE p.quality) >= 400000
  OBVIOUS
<1>. HIDE DEF text
<1>5. decided \in Nat /\ decided >= 400000
  BY <1>1, <1>2, <1>4
<1>. HIDE DEF decided
<1>6. agreed \in Nat /\ agreed >= 4000 * 10000
  BY <1>1, <1>5
<1>. HIDE DEF agreed
<1>. QED  BY <1>3, <1>6, RoundedAtLeast

(* The pages of the extractors of text and of blank images: their status is *)
(* the scorer's own.                                                        *)
LEMMA PlainPages ==
  ASSUME NEW t \in Text, NEW name, name # "adaptive_pdf_ocr"
  PROVE  /\ PageInv(TextPage(t), name)
         /\ t = NoText =>
              PageInv(LayerPage(t, "scanned", "full_page_ocr", t, t), name)
<1>. DEFINE status == StatusOf(LevelForScore(ScoreText(t)))
<1>1. ScoreText(t) \in Nat /\ (Empty(t) => ScoreText(t) = 0)
  BY ScoreTextType DEF ScoreText
<1>2. /\ status \in Statuses
      /\ status = "accepted" => ~Empty(t) /\ ScoreText(t) >= 7000
  BY <1>1, StatusOfScore
<1>3. NoText \in Text /\ Empty(NoText)
  BY DEF Text, NoText, Empty
<1>. HIDE DEF status
<1>4. ASSUME NEW type, NEW r, NEW native \in Text, NEW read \in Text,
             IF Empty(t) THEN type = "empty" /\ r = "rejected"
             ELSE \/ type = "digital" /\ r = "native" /\ native = t
                  \/ type = "scanned" /\ r = "full_page_ocr" /\ read = t
      PROVE  PageInv([type |-> type, status |-> status, route |-> r,
                      gate |-> ~Empty(t) /\ status = "accepted",
                      native |-> native, ocr |-> read, index |-> t,
                      passed |-> FALSE, quality |-> ScoreText(t),
                      agreement |-> Nil], name)
  <2>1. PICK p : p = [type |-> type, status |-> status, route |-> r,
                      gate |-> ~Empty(t) /\ status = "accepted",
                      native |-> native, ocr |-> read, index |-> t,
                      passed |-> FALSE, quality |-> ScoreText(t),
                      agreement |-> Nil]
    OBVIOUS
  <2>2. type \in PageTypes /\ r \in PageRoutes
    BY <1>4 DEF PageTypes, PageRoutes
  <2>3. p \in PageResult
    BY <1>1, <1>2, <2>1, <2>2 DEF PageResult
  <2>4. ValidPage(p)
    <3>1. CASE Empty(t)
      BY <1>2, <1>4, <2>1, <3>1 DEF ValidPage
    <3>2. CASE ~Empty(t)
      BY <1>4, <2>1, <3>2 DEF ValidPage
    <3>. QED  BY <3>1, <3>2
  <2>5. ASSUME p.status = "accepted"
        PROVE  PageScore(p) >= 4000
    <3>1. ~Empty(t) /\ ScoreText(t) >= 7000
      BY <1>2, <2>1, <2>5
    <3>2. /\ p.index = t /\ p.quality = ScoreText(t) /\ p.agreement = Nil
          /\ p.type # "empty" /\ p.route # "rejected"
      BY <1>4, <2>1, <3>1
    <3>3. 60 * ScoreText(t) + 40 * ScoreText(t) >= 400000
      BY <1>1, <3>1
    <3>4. ScoreText(t) # Nil
      BY <1>1, NilAssumption
    <3>. QED  BY <2>3, <3>1, <3>2, <3>3, <3>4, PageScoreAtLeast
  <2>6. PageInv(p, name)
    BY <2>3, <2>4, <2>5 DEF PageInv
  <2>. QED  BY <2>1, <2>6
<1>5. ASSUME NEW type, NEW chosen, NEW native \in Text, NEW read \in Text,
             \/ type = "digital" /\ chosen = "native" /\ native = t
             \/ type = "scanned" /\ chosen = "full_page_ocr" /\ read = t
      PROVE  PageInv(LayerPage(t, type, chosen, native, read), name)
  <2>. DEFINE ty == IF Empty(t) THEN "empty" ELSE type
              r == IF Empty(t) THEN "rejected" ELSE chosen
  <2>1. IF Empty(t) THEN ty = "empty" /\ r = "rejected"
        ELSE \/ ty = "digital" /\ r = "native" /\ native = t
             \/ ty = "scanned" /\ r = "full_page_ocr" /\ read = t
    BY <1>5
  <2>2. LayerPage(t, type, chosen, native, read) =
          [type |-> ty, status |-> status, route |-> r,
           gate |-> ~Empty(t) /\ status = "accepted",
           native |-> native, ocr |-> read, index |-> t, passed |-> FALSE,
           quality |-> ScoreText(t), agreement |-> Nil]
    BY DEF LayerPage, status
  <2>. HIDE DEF ty, r
  <2>. QED  BY <1>4, <2>1, <2>2
<1>6. PageInv(TextPage(t), name)
  BY <1>3, <1>5 DEF TextPage
<1>7. t = NoText => PageInv(LayerPage(t, "scanned", "full_page_ocr", t, t), name)
  BY <1>3, <1>5
<1>. QED  BY <1>6, <1>7

LEMMA BlankImageIsPlain ==
  ASSUME NEW name, name # "adaptive_pdf_ocr"
  PROVE  PageInv(BlankImage, name)
<1>1. NoText \in Text
  BY DEF Text, NoText
<1>2. BlankImage = LayerPage(NoText, "scanned", "full_page_ocr", NoText, NoText)
  BY DEF BlankImage
<1>. QED  BY <1>1, <1>2, PlainPages

(* How a page that needs OCR is classified once a candidate was selected.   *)
LEMMA TypeAfterOcr ==
  ASSUME NEW e \in Evidence, NeedsOcr(e)
  PROVE  /\ PageType(e, TRUE) \in {"mixed", "scanned"}
         /\ PageType(e, TRUE) = "mixed" => ~Empty(e.native)
         /\ PageType(e, TRUE) = "scanned" => e.native.chars < 5
<1>1. e.native.chars \in Nat
  BY DEF Evidence, Text
<1>2. CASE UsableNative(e)
  <2>1. PageType(e, TRUE) = "mixed"
    BY <1>2 DEF NeedsOcr, PageType
  <2>2. ~Empty(e.native)
    BY <1>1, <1>2 DEF UsableNative, Empty
  <2>. QED  BY <2>1, <2>2
<1>3. CASE ~UsableNative(e)
  BY <1>1, <1>3 DEF PageType, Empty
<1>. QED  BY <1>2, <1>3

LEMMA TypeIsOne ==
  ASSUME NEW e, NEW accepted \in BOOLEAN
  PROVE  /\ PageType(e, accepted) \in PageTypes
         /\ PageType(e, accepted) = "digital" => UsableNative(e)
<1>1. CASE UsableNative(e)
  BY <1>1 DEF PageType, PageTypes
<1>2. CASE ~UsableNative(e)
  BY <1>2 DEF PageType, PageTypes
<1>. QED  BY <1>1, <1>2

(* What build_page_result is given: no candidates but of a page that needs  *)
(* OCR.                                                                     *)
Given(e, batch) ==
  /\ e \in Evidence /\ batch \in SUBSET Candidate /\ IsFiniteSet(batch)
  /\ batch # {} => NeedsOcr(e)

(* A page for which no candidate passed.                                    *)
LEMMA UnselectedPages ==
  ASSUME NEW e, NEW batch, Given(e, batch), Selected(batch) = Nil,
         NEW p \in AdaptivePages(e, batch, Nil), NEW name
  PROVE  PageInv(p, name)
<1>. DEFINE shown == Shown(batch, Nil)
            text == IF shown = Nil THEN NoText ELSE shown.reading.text
            chosen == IF Empty(e.native) THEN "rejected" ELSE "native"
            type == PageType(e, FALSE)
            status == NewStatus(e, chosen, text)
            quality == IF chosen = "native"
                       THEN QualityScore(e.native, Nil, e.ink)
                       ELSE IF shown = Nil THEN Nil ELSE ScoreOf(shown)
            agreement == IF chosen = "native" \/ shown = Nil THEN Nil
                         ELSE Agreement(shown, batch)
<1>1. /\ e \in Evidence /\ batch \in SUBSET Candidate /\ IsFiniteSet(batch)
      /\ e.native \in Text /\ e.ink \in 0 .. Whole
      /\ batch # {} => NeedsOcr(e)
  BY DEF Given, Evidence
<1>2. IF batch = {} THEN shown = Nil ELSE shown \in batch
  BY <1>1, FirstIsIn DEF Shown, First
<1>3. shown # Nil => shown \in batch /\ shown \in Candidate
  BY <1>1, <1>2
<1>4. PICK index \in IndexTexts(e.native, text) :
        p = [type |-> type, status |-> status, route |-> chosen,
             gate |-> IF chosen = "native" THEN status = "accepted" ELSE FALSE,
             native |-> e.native, ocr |-> text, index |-> index,
             passed |-> FALSE, quality |-> quality, agreement |-> agreement]
  BY DEF AdaptivePages
<1>5. text \in Text
  BY <1>3 DEF NoText, Text, Candidate, Reading
<1>6. quality \in Nat \cup {Nil}
  <2>1. QualityScore(e.native, Nil, e.ink) \in Nat
    BY <1>1, QualityScoreType
  <2>2. shown # Nil => ScoreOf(shown) \in Nat
    BY <1>3, ScoreOfType
  <2>. QED  BY <2>1, <2>2
<1>7. agreement \in Nat \cup {Nil}
  BY <1>1, <1>3, AgreementType
<1>8. type \in PageTypes /\ (type = "digital" => UsableNative(e))
  BY TypeIsOne
<1>9. /\ status \in Statuses
      /\ status = "accepted" => chosen = "native" /\ type = "digital"
  BY DEF NewStatus, Statuses
<1>10. index \in Text
  BY <1>1, <1>5, IndexTextsType
<1>11. status = "accepted" =>
         /\ UsableNative(e) /\ batch = {} /\ text = NoText
         /\ index = e.native
  <2>1. type = "digital" => batch = {}
    BY <1>1 DEF NeedsOcr
  <2>2. Empty(NoText) /\ (chosen = "native" => ~Empty(e.native))
    BY DEF Empty, NoText
  <2>. QED  BY <1>2, <1>4, <1>8, <1>9, <2>1, <2>2 DEF IndexTexts
<1>. HIDE DEF shown, text, type, status, quality, agreement
<1>12. p \in PageResult
  BY <1>1, <1>4, <1>5, <1>6, <1>7, <1>8, <1>9, <1>10
     DEF PageResult, PageRoutes
<1>13. ValidPage(p)
  BY <1>4, <1>8, <1>9, <1>11 DEF ValidPage
<1>14. ASSUME p.status = "accepted"
       PROVE  PageScore(p) >= 4000 /\ Empty(p.ocr)
  <2>1. /\ ~Empty(e.native) /\ ScoreText(e.native) >= 4149
        /\ QualityScore(e.native, Nil, e.ink) >= 3799
    BY <1>1, <1>4, <1>11, <1>14, UsableScores
  <2>2. /\ p.index = e.native /\ p.type = "digital" /\ p.route = "native"
        /\ p.quality = QualityScore(e.native, Nil, e.ink)
        /\ p.agreement = Nil /\ Empty(p.ocr)
    BY <1>4, <1>9, <1>11, <1>14 DEF quality, agreement, Empty, NoText
  <2>3. ScoreText(e.native) \in Nat /\ QualityScore(e.native, Nil, e.ink) \in Nat
    BY <1>1, ScoreTextType, QualityScoreType
  <2>4. 60 * ScoreText(e.native) + 40 * QualityScore(e.native, Nil, e.ink)
          >= 400000
    BY <2>1, <2>3
  <2>5. PageScore(p) >= 4000
    BY <1>12, <2>1, <2>2, <2>3, <2>4, NilAssumption, PageScoreAtLeast
  <2>. QED  BY <2>2, <2>5
<1>. QED  BY <1>12, <1>13, <1>14 DEF PageInv

(* A page for which a candidate passed.                                     *)
LEMMA SelectedPages ==
  ASSUME NEW e, NEW batch, Given(e, batch),
         NEW c, c = Selected(batch), c # Nil,
         NEW p \in AdaptivePages(e, batch, c), NEW name
  PROVE  PageInv(p, name)
<1>. DEFINE text == c.reading.text
            type == PageType(e, TRUE)
            chosen == IF type = "mixed" /\ ~Empty(e.native) THEN "combined"
                      ELSE c.route
            status == NewStatus(e, chosen, text)
<1>1. /\ e \in Evidence /\ batch \in SUBSET Candidate /\ IsFiniteSet(batch)
      /\ e.native \in Text
  BY DEF Given, Evidence
<1>2. c \in batch /\ c \in Candidate /\ Passes(c, batch)
  BY <1>1, SelectedPasses
<1>3. NeedsOcr(e)
  BY <1>2 DEF Given
<1>4. PICK index \in IndexTexts(e.native, text) :
        p = [type |-> type, status |-> status, route |-> chosen,
             gate |-> IF chosen = "native" THEN status = "accepted" ELSE TRUE,
             native |-> e.native, ocr |-> text, index |-> index,
             passed |-> TRUE,
             quality |-> IF chosen = "native"
                         THEN QualityScore(e.native, Nil, e.ink)
                         ELSE ScoreOf(c),
             agreement |-> IF chosen = "native" THEN Nil
                           ELSE Agreement(c, batch)]
  BY DEF AdaptivePages, Shown
<1>5. /\ c.route \in {"full_page_ocr", "region_ocr"} /\ text \in Text
      /\ text.chars >= 10 /\ text.chars \in Nat /\ Meaningful(text) >= 5500
      /\ ScoreOf(c) >= 5500
      /\ Agreement(c, batch) # Nil => Agreement(c, batch) >= 4500
  BY <1>2 DEF Candidate, Reading, Passes, ReadsWell, Text
<1>6. ScoreOf(c) \in Nat /\ Agreement(c, batch) \in Nat \cup {Nil}
  BY <1>1, <1>2, ScoreOfType, AgreementType
<1>7. /\ type \in {"mixed", "scanned"}
      /\ type = "mixed" => ~Empty(e.native)
      /\ type = "scanned" => e.native.chars < 5
  BY <1>1, <1>3, TypeAfterOcr
<1>8. /\ chosen \in {"combined", "full_page_ocr", "region_ocr"}
      /\ chosen # "combined" => type = "scanned"
      /\ chosen = "combined" => ~Empty(e.native)
  <2>. HIDE DEF type
  <2>1. CASE type = "mixed" /\ ~Empty(e.native)
    <3>1. chosen = "combined"
      BY <2>1
    <3>. QED  BY <2>1, <3>1
  <2>2. CASE type # "mixed"
    <3>1. chosen = c.route /\ type = "scanned"
      BY <1>7, <2>2
    <3>. HIDE DEF chosen
    <3>. QED  BY <1>5, <3>1
  <2>. QED  BY <1>7, <2>1, <2>2
<1>9. /\ status \in {"needs_review", "accepted"}
      /\ status = "accepted" => chosen # "combined"
  BY <1>8 DEF NewStatus
<1>10. index \in Text /\ ~Empty(text)
  BY <1>1, <1>4, <1>5, IndexTextsType DEF Empty
<1>. HIDE DEF text, type, chosen, status
<1>11. p \in PageResult
  <2>1. /\ type \in PageTypes /\ status \in Statuses /\ chosen \in PageRoutes
    BY <1>7, <1>8, <1>9 DEF PageRoutes, Statuses, PageTypes
  <2>2. chosen # "native"
    BY <1>8
  <2>. QED  BY <1>1, <1>4, <1>5, <1>6, <1>10, <2>1, <2>2 DEF PageResult
<1>12. ASSUME p.status = "accepted"
       PROVE  ~Empty(p.index) /\ PageScore(p) >= 4000
  <2>1. e.native.chars < 5 /\ chosen # "combined"
    BY <1>4, <1>7, <1>8, <1>9, <1>12
  <2>2. ~Empty(index) /\ ScoreText(index) >= 3000 /\ ScoreText(index) \in Nat
    BY <1>1, <1>4, <1>5, <1>10, <2>1, IndexedScores, ScoreTextType
  <2>3. /\ p.index = index /\ p.type = "scanned" /\ p.route = chosen
        /\ p.quality = ScoreOf(c) /\ p.agreement = Agreement(c, batch)
    BY <1>4, <1>8, <2>1
  <2>4. 60 * ScoreText(index) + 40 * ScoreOf(c) >= 400000
    BY <1>5, <1>6, <2>2
  <2>5. p.quality # Nil
    BY <1>6, <2>3, NilAssumption
  <2>6. PageScore(p) >= 4000
    BY <1>5, <1>8, <1>11, <2>2, <2>3, <2>4, <2>5, PageScoreAtLeast
  <2>. QED  BY <2>2, <2>3, <2>6
<1>13. ValidPage(p)
  <2>1. p.route = chosen /\ p.type = type /\ p.status = status
    BY <1>4
  <2>2. p.native = e.native /\ p.ocr = text /\ p.gate = TRUE
    BY <1>4, <1>8
  <2>. QED  BY <1>8, <1>9, <1>10, <1>12, <2>1, <2>2 DEF ValidPage
<1>14. p.passed
  BY <1>4
<1>. QED  BY <1>11, <1>12, <1>13, <1>14 DEF PageInv

-----------------------------------------------------------------------------
(* Documents.                                                               *)

PagesInv(some, r, kind) ==
  /\ some \in Seq(PageResult)
  /\ \A p \in DOMAIN some : PageInv(some[p], CandidatesOf(kind)[r])

LEMMA NoPages ==
  ASSUME NEW r, NEW kind
  PROVE  PagesInv(<<>>, r, kind)
BY DEF PagesInv

LEMMA OnePageMore ==
  ASSUME NEW some, NEW r, NEW kind, PagesInv(some, r, kind),
         NEW p, PageInv(p, CandidatesOf(kind)[r])
  PROVE  PagesInv(Append(some, p), r, kind)
<1>1. p \in PageResult /\ some \in Seq(PageResult)
  BY DEF PagesInv, PageInv
<1>2. /\ Append(some, p) \in Seq(PageResult)
      /\ DOMAIN Append(some, p) = 1 .. Len(some) + 1
      /\ DOMAIN some = 1 .. Len(some)
      /\ \A i \in 1 .. Len(some) : Append(some, p)[i] = some[i]
      /\ Append(some, p)[Len(some) + 1] = p
  BY <1>1
<1>3. \A i \in DOMAIN Append(some, p) :
        i \in DOMAIN some \/ i = Len(some) + 1
  BY <1>1, <1>2
<1>. QED  BY <1>2, <1>3 DEF PagesInv

(* The pages of a verdict are counted, and all of them scored.              *)
LEMMA CountType ==
  ASSUME NEW d, d.pages \in Seq(PageResult), NEW verdict
  PROVE  /\ Count(d, verdict) \in Nat
         /\ Count(d, verdict) = 0 =>
              \A p \in DOMAIN d.pages : PageVerdict(d.pages[p]) # verdict
<1>. DEFINE S == {p \in DOMAIN d.pages : PageVerdict(d.pages[p]) = verdict}
<1>1. DOMAIN d.pages = 1 .. Len(d.pages) /\ Len(d.pages) \in Nat
  OBVIOUS
<1>2. IsFiniteSet(DOMAIN d.pages)
  BY <1>1, FS_Interval
<1>3. IsFiniteSet(S)
  BY <1>2, FS_Subset
<1>4. Cardinality(S) \in Nat /\ (Cardinality(S) = 0 => S = {})
  <2>. HIDE DEF S
  <2>. QED  BY <1>3, FS_CardinalityType, FS_EmptySet
<1>. QED  BY <1>4 DEF Count

LEMMA DocumentScoreType ==
  ASSUME NEW d, d.pages \in Seq(PageResult)
  PROVE  DocumentScore(d) \in Nat
<1>. DEFINE S == DOMAIN d.pages
            f == [p \in S |-> PageScore(d.pages[p])]
<1>. SUFFICES ASSUME d.pages # <<>>
              PROVE  Rounded(SumFunction(f), Len(d.pages)) \in Nat
  BY DEF DocumentScore
<1>1. S = 1 .. Len(d.pages) /\ Len(d.pages) \in Nat \ {0}
  OBVIOUS
<1>2. IsFiniteSet(S)
  BY <1>1, FS_Interval
<1>3. \A p \in S : d.pages[p] \in PageResult
  OBVIOUS
<1>4. f \in [S -> Nat]
  BY <1>3, PageScoreType
<1>5. SumFunction(f) \in Nat
  <2>. HIDE DEF f, S
  <2>. QED  BY <1>2, <1>4, SumIsNat
<1>. QED  BY <1>1, <1>5, RoundedType

(* An accepted page is counted as accepted or for review: a document with   *)
(* one is sufficient.                                                       *)
LEMMA AcceptedSuffices ==
  ASSUME NEW d, NEW r, NEW kind, PagesInv(d.pages, r, kind),
         NEW p \in DOMAIN d.pages, d.pages[p].status = "accepted"
  PROVE  Sufficient(d)
<1>1. /\ d.pages \in Seq(PageResult) /\ d.pages[p] \in PageResult
      /\ PageScore(d.pages[p]) >= 4000
  BY DEF PagesInv, PageInv
<1>2. PageScore(d.pages[p]) \in Nat
  BY <1>1, PageScoreType
<1>3. StatusOf(LevelForScore(PageScore(d.pages[p]))) \in
        {"accepted", "needs_review"}
  BY <1>1, <1>2, StatusOfScore DEF Statuses
<1>4. PageVerdict(d.pages[p]) \in {"accepted", "needs_review"}
  BY <1>3 DEF PageVerdict, Worst, Rank
<1>5. Count(d, "accepted") \in Nat /\ Count(d, "needs_review") \in Nat
  BY <1>1, CountType
<1>6. Count(d, "accepted") # 0 \/ Count(d, "needs_review") # 0
  BY <1>1, <1>4, CountType
<1>. QED  BY <1>5, <1>6 DEF Sufficient

(* There is a best attempt.                                                 *)
LEMMA BestIsOne ==
  ASSUME attempts # <<>>, attempts \in Seq(Document)
  PROVE  Best \in DOMAIN attempts
<1>. DEFINE S == DOMAIN attempts
            C(a) == Count(attempts[a], "accepted")
            D(a) == DocumentScore(attempts[a])
            key == [a \in S |-> <<C(a), D(a), -a>>]
<1>1. S = 1 .. Len(attempts) /\ Len(attempts) \in Nat \ {0}
  OBVIOUS
<1>2. \A a \in S : a \in Nat /\ attempts[a].pages \in Seq(PageResult)
  <2>1. \A a \in S : attempts[a] \in Document
    OBVIOUS
  <2>. QED  BY <1>1, <2>1 DEF Document
<1>3. IsFiniteSet(S) /\ S # {}
  <2>1. 1 \in S
    BY <1>1
  <2>2. IsFiniteSet(1 .. Len(attempts))
    BY <1>1, FS_Interval
  <2>. QED  BY <1>1, <2>1, <2>2
<1>4. \A a \in S : C(a) \in Nat /\ D(a) \in Nat
  BY <1>2, CountType, DocumentScoreType
<1>5. \A a, b \in S :
        NoWorse(attempts[a], attempts[b]) <=>
          \/ C(a) > C(b)
          \/ C(a) = C(b) /\ D(a) >= D(b)
  BY DEF NoWorse
<1>. HIDE DEF S, C, D
<1>6. \A a \in S : Triple(key[a])
  BY <1>2, <1>4 DEF Triple
<1>7. PICK a \in S : IsFirst(a, S, key)
  <2>. HIDE DEF key
  <2>. QED  BY <1>3, <1>6, FirstExists
<1>8. \A b \in S : \/ C(a) > C(b)
                   \/ C(a) = C(b) /\ D(a) > D(b)
                   \/ C(a) = C(b) /\ D(a) = D(b) /\ -a >= -b
  BY <1>7 DEF IsFirst, NotAfter
<1>9. \A b \in S : NoWorse(attempts[a], attempts[b])
  <2>. SUFFICES ASSUME NEW b \in S PROVE NoWorse(attempts[a], attempts[b])
    OBVIOUS
  <2>1. \/ C(a) > C(b)
        \/ C(a) = C(b) /\ D(a) > D(b)
        \/ C(a) = C(b) /\ D(a) = D(b)
    BY <1>8
  <2>2. C(a) > C(b) \/ (C(a) = C(b) /\ D(a) >= D(b))
    BY <1>4, <1>7, <2>1
  <2>. QED  BY <1>5, <1>7, <2>2
<1>10. \A b \in 1 .. a - 1 : ~NoWorse(attempts[b], attempts[a])
  <2>. SUFFICES ASSUME NEW b \in 1 .. a - 1
                PROVE  ~NoWorse(attempts[b], attempts[a])
    OBVIOUS
  <2>1. b \in S /\ a \in Nat /\ b \in Nat /\ b < a
    BY <1>1, <1>7
  <2>2. ~ (-a >= -b)
    BY <2>1
  <2>3. C(a) > C(b) \/ (C(a) = C(b) /\ D(a) > D(b))
    BY <1>8, <2>1, <2>2
  <2>4. /\ C(a) \in Nat /\ C(b) \in Nat /\ D(a) \in Nat /\ D(b) \in Nat
    BY <1>4, <1>7, <2>1
  <2>5. ~ (C(b) > C(a)) /\ ~ (C(b) = C(a) /\ D(b) >= D(a))
    BY <2>3, <2>4
  <2>. QED  BY <1>5, <1>7, <2>1, <2>5
<1>. QED  BY <1>7, <1>9, <1>10 DEF Best, S

-----------------------------------------------------------------------------
(* The inductive invariant.                                                 *)

LEMMA CandidatesType ==
  ASSUME NEW kind
  PROVE  \E n \in Nat : DOMAIN CandidatesOf(kind) = 1 .. n
<1>. DEFINE able == {r \in DOMAIN RouteOrder : kind \in Supports[RouteOrder[r]]}
<1>1. RouteOrder \in Seq(DOMAIN Supports)
  BY ExtractionAssumption
<1>2. DOMAIN RouteOrder = 1 .. Len(RouteOrder) /\ Len(RouteOrder) \in Nat
  BY <1>1
<1>3. IsFiniteSet(DOMAIN RouteOrder)
  BY <1>2, FS_Interval
<1>4. IsFiniteSet(able)
  BY <1>3, FS_Subset
<1>5. Cardinality(able) \in Nat
  BY <1>4, FS_CardinalityType
<1>6. DOMAIN CandidatesOf(kind) = 1 .. Cardinality(able)
  BY DEF CandidatesOf
<1>. QED  BY <1>5, <1>6

LEMMA FullPlansType ==
  /\ FullPlans \in Nat
  /\ MAX_CANDIDATES > 1 => FullPlans <= MAX_CANDIDATES - 1
<1>1. PLANS \in Nat /\ MAX_CANDIDATES \in Nat \ {0}
  BY ExtractionAssumption
<1>. QED  BY <1>1 DEF FullPlans, Least

LEMMA OnPagesFinite ==
  ASSUME NEW candidates, IsFiniteSet(candidates)
  PROVE  /\ IsFiniteSet(OnPages(candidates))
         /\ Cardinality(OnPages(candidates)) \in Nat
<1>1. OnPages(candidates) \in SUBSET candidates
  BY DEF OnPages
<1>2. IsFiniteSet(OnPages(candidates))
  BY <1>1, FS_Subset
<1>. QED  BY <1>2, FS_CardinalityType

(* What a call of Tesseract adds to the candidates.                         *)
LEMMA OneCandidateMore ==
  ASSUME ocr.candidates \in SUBSET Candidate, IsFiniteSet(ocr.candidates),
         NEW kind \in {"full_page_ocr", "region_ocr"}, NEW plan \in Nat,
         NEW candidates \in CandidatesAfter(kind, plan)
  PROVE  /\ candidates \in SUBSET Candidate /\ IsFiniteSet(candidates)
         /\ Cardinality(OnPages(candidates))
              <= Cardinality(OnPages(ocr.candidates)) + 1
         /\ kind = "region_ocr" =>
              OnPages(candidates) = OnPages(ocr.candidates)
<1>. DEFINE old == ocr.candidates
<1>1. /\ IsFiniteSet(OnPages(old)) /\ Cardinality(OnPages(old)) \in Nat
  BY OnPagesFinite
<1>2. CASE candidates = old
  BY <1>1, <1>2
<1>3. ASSUME NEW r \in Readings,
             candidates = old \cup {[route |-> kind, plan |-> plan,
                                     reading |-> r]}
      PROVE  /\ candidates \in SUBSET Candidate /\ IsFiniteSet(candidates)
             /\ Cardinality(OnPages(candidates)) <= Cardinality(OnPages(old)) + 1
             /\ kind = "region_ocr" => OnPages(candidates) = OnPages(old)
  <2>1. PICK c : c = [route |-> kind, plan |-> plan, reading |-> r]
    OBVIOUS
  <2>2. r \in Reading
    BY ExtractionAssumption
  <2>3. c \in Candidate /\ c.route = kind
    BY <2>1, <2>2 DEF Candidate
  <2>4. candidates = old \cup {c}
    BY <1>3, <2>1
  <2>5. IsFiniteSet(candidates)
    BY <2>4, FS_AddElement
  <2>6. OnPages(candidates) \in SUBSET (OnPages(old) \cup {c})
    BY <2>4 DEF OnPages
  <2>7. /\ IsFiniteSet(OnPages(old) \cup {c})
        /\ Cardinality(OnPages(old) \cup {c}) <= Cardinality(OnPages(old)) + 1
    <3>1. PICK T : T = OnPages(old)
      OBVIOUS
    <3>2. /\ IsFiniteSet(T \cup {c})
          /\ Cardinality(T \cup {c}) = IF c \in T THEN Cardinality(T)
                                       ELSE Cardinality(T) + 1
      BY <1>1, <3>1, FS_AddElement
    <3>. QED  BY <1>1, <3>1, <3>2
  <2>8. /\ Cardinality(OnPages(candidates))
             <= Cardinality(OnPages(old) \cup {c})
        /\ Cardinality(OnPages(candidates)) \in Nat
        /\ Cardinality(OnPages(old) \cup {c}) \in Nat
    BY <2>6, <2>7, FS_Subset, FS_CardinalityType
  <2>9. kind = "region_ocr" => OnPages(candidates) = OnPages(old)
    BY <2>3, <2>4 DEF OnPages
  <2>. QED  BY <1>1, <2>3, <2>4, <2>5, <2>7, <2>8, <2>9
<1>. QED  BY <1>2, <1>3 DEF CandidatesAfter

LEMMA OcrFields ==
  ASSUME NEW o \in Ocr
  PROVE  \E full \in Nat, boxes \in Nat \cup {Nil}, regions \in Nat,
            candidates \in SUBSET Candidate :
           o = [full |-> full, boxes |-> boxes, regions |-> regions,
                candidates |-> candidates]
BY DEF Ocr

(* Calls of Tesseract are only spent on pages that need it, and each gives  *)
(* one candidate at most.                                                   *)
OcrInv ==
  ocr # Nil =>
    /\ Route = "adaptive_pdf_ocr" /\ at \in DOMAIN file.pages
    /\ NeedsOcr(Seen)
    /\ IsFiniteSet(ocr.candidates)
    /\ Cardinality(OnPages(ocr.candidates)) <= ocr.full
    /\ ocr.full <= FullPlans

(* Every route before the current one is in the warnings, and those that    *)
(* made a document, an insufficient one.                                    *)
RouteInv ==
  /\ \A r \in 1 .. route - 1 : r \in DOMAIN CandidatesOf(file.kind)
  /\ skipped = 1 .. route - 1
  /\ PagesInv(pages, route, file.kind)
  /\ \A a \in DOMAIN attempts :
       /\ PagesInv(attempts[a].pages, attempts[a].route, file.kind)
       /\ ~Sufficient(attempts[a])

ResultInv ==
  result # Nil =>
    /\ PagesInv(result.pages, result.route, file.kind)
    /\ FallbacksAreReported

ExtractionInv == TypeOK /\ OcrInv /\ RouteInv /\ ResultInv

LEMMA InitInv ==
  ASSUME Init
  PROVE  ExtractionInv
<1>1. file \in File
  BY ExtractionAssumption DEF Init
<1>2. TypeOK
  BY <1>1 DEF Init, TypeOK
<1>3. OcrInv /\ ResultInv
  BY DEF Init, OcrInv, ResultInv
<1>4. RouteInv
  BY NoPages DEF Init, RouteInv
<1>. QED  BY <1>2, <1>3, <1>4 DEF ExtractionInv

(* While nothing is returned.                                               *)
Ongoing == ExtractionInv /\ result = Nil /\ UNCHANGED <<file, result>>

LEMMA NoResult ==
  ASSUME Ongoing
  PROVE  ResultInv'
BY DEF Ongoing, ResultInv

LEMMA SeenType ==
  ASSUME TypeOK, at \in DOMAIN file.pages
  PROVE  /\ file.pages[at] \in SourcePage /\ Seen \in Evidence
         /\ Seen.native \in Text
         /\ TextOf(file.pages[at]) \in Text
<1>1. file.pages \in Seq(SourcePage)
  BY DEF TypeOK, File
<1>2. file.pages[at] \in SourcePage
  BY <1>1
<1>3. /\ file.pages[at].seen \in Evidence
      /\ file.pages[at].layout \in Text \cup {Nil}
  BY <1>2 DEF SourcePage
<1>4. file.pages[at].seen.native \in Text
  BY <1>3 DEF Evidence
<1>5. NoText \in Text
  BY DEF Text, NoText
<1>. QED  BY <1>2, <1>3, <1>4, <1>5 DEF Seen, TextOf

(* Onto the next route, with a warning.                                     *)
LEMMA RouteIsSkipped ==
  ASSUME Ongoing, Running, NextRoute, skipped' = skipped \cup {route},
         UNCHANGED error, attempts' \in Seq(Document),
         \A a \in DOMAIN attempts' :
           /\ PagesInv(attempts'[a].pages, attempts'[a].route, file.kind)
           /\ ~Sufficient(attempts'[a])
  PROVE  ExtractionInv'
<1>1. TypeOK /\ RouteInv /\ UNCHANGED <<file, result>>
  BY DEF Ongoing, ExtractionInv
<1>2. /\ route \in Nat \ {0} /\ route' = route + 1 /\ at' = 1
      /\ pages' = <<>> /\ ocr' = Nil
  BY <1>1 DEF TypeOK, NextRoute
<1>3. skipped' = 1 .. route' - 1
  BY <1>1, <1>2 DEF RouteInv
<1>4. TypeOK'
  BY <1>1, <1>2, <1>3 DEF TypeOK
<1>5. OcrInv'
  BY <1>2 DEF OcrInv
<1>6. \A r \in 1 .. route' - 1 : r \in DOMAIN CandidatesOf(file.kind)
  BY <1>1, <1>2 DEF RouteInv, Running
<1>7. PagesInv(pages', route', file'.kind)
  BY <1>2, NoPages
<1>8. RouteInv'
  BY <1>1, <1>3, <1>6, <1>7 DEF RouteInv
<1>. QED  BY <1>4, <1>5, <1>8, NoResult DEF ExtractionInv

(* A page more.                                                             *)
LEMMA PageIsAdded ==
  ASSUME Ongoing, ocr' = Nil, at' \in Nat \ {0},
         pages' \in Seq(PageResult), PagesInv(pages', route, file.kind),
         UNCHANGED <<route, skipped, attempts, error>>
  PROVE  ExtractionInv'
<1>1. TypeOK /\ RouteInv /\ UNCHANGED <<file, result>>
  BY DEF Ongoing, ExtractionInv
<1>2. TypeOK'
  BY <1>1 DEF TypeOK
<1>3. OcrInv'
  BY DEF OcrInv
<1>4. RouteInv'
  BY <1>1 DEF RouteInv
<1>. QED  BY <1>2, <1>3, <1>4, NoResult DEF ExtractionInv

(* A step of the OCR of a page.                                             *)
LEMMA OcrGoesOn ==
  ASSUME Ongoing, ocr' \in Ocr, Route = "adaptive_pdf_ocr",
         at \in DOMAIN file.pages, NeedsOcr(Seen),
         IsFiniteSet(ocr'.candidates),
         Cardinality(OnPages(ocr'.candidates)) <= ocr'.full,
         ocr'.full <= FullPlans,
         UNCHANGED <<route, at, pages, skipped, attempts, error>>
  PROVE  ExtractionInv'
<1>1. TypeOK /\ RouteInv /\ UNCHANGED <<file, result>>
  BY DEF Ongoing, ExtractionInv
<1>2. TypeOK'
  BY <1>1 DEF TypeOK
<1>3. Route' = Route /\ Seen' = Seen /\ FullPlans' = FullPlans
  BY <1>1 DEF Route, Seen
<1>4. OcrInv'
  BY <1>1, <1>3 DEF OcrInv
<1>5. RouteInv'
  BY <1>1 DEF RouteInv
<1>. QED  BY <1>2, <1>4, <1>5, NoResult DEF ExtractionInv

-----------------------------------------------------------------------------
(* The steps.                                                               *)

LEMMA NextInv ==
  ASSUME ExtractionInv, [Next]_vars
  PROVE  ExtractionInv'
<1>. USE DEF ExtractionInv
<1>1. CASE Unavailable
  <2>1. Ongoing /\ Running
    BY <1>1 DEF Unavailable, Running, Ongoing
  <2>2. attempts' = attempts /\ attempts \in Seq(Document) /\ RouteInv
    BY <1>1 DEF Unavailable, TypeOK
  <2>. QED  BY <1>1, <2>1, <2>2, RouteIsSkipped DEF Unavailable, RouteInv
<1>2. CASE Fails
  <2>1. Ongoing /\ Running
    BY <1>2 DEF Fails, Running, Ongoing
  <2>2. attempts' = attempts /\ attempts \in Seq(Document) /\ RouteInv
    BY <1>2 DEF Fails, TypeOK
  <2>. QED  BY <1>2, <2>1, <2>2, RouteIsSkipped DEF Fails, RouteInv
<1>3. CASE Raises
  <2>1. Ongoing
    BY <1>3 DEF Raises, Running, Ongoing
  <2>2. TypeOK'
    BY <1>3 DEF Raises, TypeOK
  <2>3. OcrInv'
    BY <1>3 DEF Raises, OcrInv, Route, Seen
  <2>4. RouteInv'
    BY <1>3 DEF Raises, RouteInv
  <2>. QED  BY <2>1, <2>2, <2>3, <2>4, NoResult
<1>4. CASE ReadText
  <2>1. Ongoing
    BY <1>4 DEF ReadText, Running, Ongoing
  <2>2. Route \in {"native_pdf", "docling", "docx", "xlsx"}
    BY <1>4 DEF ReadText
  <2>3. ocr' = Nil
    BY <1>4, <2>2 DEF ReadText, OcrInv
  <2>. DEFINE p == TextPage(TextOf(file.pages[at]))
  <2>4. TextOf(file.pages[at]) \in Text
    BY <1>4, SeenType DEF ReadText
  <2>5. PageInv(p, Route)
    BY <2>2, <2>4, PlainPages
  <2>6. PagesInv(pages, route, file.kind)
    BY DEF RouteInv
  <2>7. PagesInv(Append(pages, p), route, file.kind)
    <3>. HIDE DEF p
    <3>. QED  BY <2>5, <2>6, OnePageMore DEF Route
  <2>8. pages' \in {pages, Append(pages, p)}
    BY <1>4 DEF ReadText
  <2>. HIDE DEF p
  <2>9. PagesInv(pages', route, file.kind) /\ pages' \in Seq(PageResult)
    BY <2>6, <2>7, <2>8 DEF PagesInv
  <2>10. /\ at' \in Nat \ {0}
         /\ UNCHANGED <<route, skipped, attempts, error>>
    BY <1>4 DEF ReadText, TypeOK
  <2>. QED  BY <2>1, <2>3, <2>9, <2>10, PageIsAdded
<1>5. CASE ReadImage
  <2>1. Ongoing
    BY <1>5 DEF ReadImage, Running, Ongoing
  <2>2. Route = "image_ocr"
    BY <1>5 DEF ReadImage
  <2>3. ocr' = Nil
    BY <1>5, <2>2 DEF ReadImage, OcrInv
  <2>4. /\ UNCHANGED <<route, skipped, attempts>>
        /\ \/ pages' = <<BlankImage>> /\ at' = 2 /\ UNCHANGED error
           \/ error' = "type_error" /\ UNCHANGED <<pages, at>>
    BY <1>5 DEF ReadImage
  <2>5. CASE pages' = <<BlankImage>> /\ at' = 2 /\ UNCHANGED error
    <3>1. PageInv(BlankImage, Route)
      BY <2>2, BlankImageIsPlain
    <3>2. pages' = Append(<<>>, BlankImage)
      BY <2>5
    <3>3. PagesInv(pages', route, file.kind)
      BY <3>1, <3>2, NoPages, OnePageMore DEF Route
    <3>4. pages' \in Seq(PageResult)
      BY <3>3 DEF PagesInv
    <3>. QED  BY <2>1, <2>3, <2>4, <2>5, <3>3, <3>4, PageIsAdded
  <2>6. CASE error' = "type_error" /\ UNCHANGED <<pages, at>>
    <3>1. TypeOK'
      BY <2>1, <2>3, <2>4, <2>6 DEF Ongoing, TypeOK
    <3>2. OcrInv'
      BY <2>3 DEF OcrInv
    <3>3. RouteInv'
      BY <2>1, <2>4, <2>6 DEF Ongoing, RouteInv
    <3>. QED  BY <2>1, <3>1, <3>2, <3>3, NoResult
  <2>. QED  BY <2>4, <2>5, <2>6
<1>6. CASE StartOcr
  <2>1. Ongoing
    BY <1>6 DEF StartOcr, Adaptive, Running, Ongoing
  <2>2. ocr' \in Ocr /\ ocr'.candidates = {} /\ ocr'.full = 0
    BY <1>6 DEF StartOcr, Ocr
  <2>3. OnPages({}) = {} /\ IsFiniteSet({}) /\ Cardinality({}) = 0
    BY FS_EmptySet DEF OnPages
  <2>4. FullPlans \in Nat
    BY FullPlansType
  <2>5. /\ Route = "adaptive_pdf_ocr" /\ at \in DOMAIN file.pages
        /\ NeedsOcr(Seen)
        /\ UNCHANGED <<route, at, pages, skipped, attempts, error>>
    BY <1>6 DEF StartOcr, Adaptive
  <2>6. 0 <= FullPlans
    BY <2>4
  <2>. QED  BY <2>1, <2>2, <2>3, <2>5, <2>6, OcrGoesOn
<1>7. CASE ReadWholePage
  <2>1. Ongoing
    BY <1>7 DEF ReadWholePage, Adaptive, Running, Ongoing
  <2>2. ocr \in Ocr /\ OcrInv /\ ocr # Nil /\ ocr.full < FullPlans
    BY <1>7 DEF ReadWholePage, TypeOK
  <2>3. PICK candidates \in CandidatesAfter("full_page_ocr", ocr.full) :
          ocr' = [ocr EXCEPT !.full = @ + 1, !.candidates = candidates]
    BY <1>7 DEF ReadWholePage
  <2>4. ocr.full \in Nat /\ ocr.candidates \in SUBSET Candidate
    BY <2>2 DEF Ocr
  <2>5. /\ candidates \in SUBSET Candidate /\ IsFiniteSet(candidates)
        /\ Cardinality(OnPages(candidates))
             <= Cardinality(OnPages(ocr.candidates)) + 1
    <3>1. IsFiniteSet(ocr.candidates)
      BY <2>2 DEF OcrInv
    <3>2. \A kind \in {"full_page_ocr", "region_ocr"}, plan \in Nat :
            \A some \in CandidatesAfter(kind, plan) :
              /\ some \in SUBSET Candidate /\ IsFiniteSet(some)
              /\ Cardinality(OnPages(some))
                   <= Cardinality(OnPages(ocr.candidates)) + 1
      BY <2>4, <3>1, OneCandidateMore
    <3>. QED  BY <2>3, <2>4, <3>2
  <2>6. ocr' \in Ocr /\ ocr'.candidates = candidates /\ ocr'.full = ocr.full + 1
    <3>1. PICK full \in Nat, boxes \in Nat \cup {Nil}, regions \in Nat,
               old \in SUBSET Candidate :
            ocr = [full |-> full, boxes |-> boxes, regions |-> regions,
                   candidates |-> old]
      BY <2>2, OcrFields
    <3>2. ocr' = [full |-> full + 1, boxes |-> boxes, regions |-> regions,
                  candidates |-> candidates]
      BY <2>3, <3>1
    <3>. QED  BY <2>5, <3>1, <3>2 DEF Ocr
  <2>7. Cardinality(OnPages(candidates)) <= ocr.full + 1
    <3>1. Cardinality(OnPages(ocr.candidates)) <= ocr.full
      BY <2>2 DEF OcrInv
    <3>2. /\ Cardinality(OnPages(ocr.candidates)) \in Nat
          /\ Cardinality(OnPages(candidates)) \in Nat
      BY <2>2, <2>5, OnPagesFinite DEF OcrInv
    <3>. QED  BY <2>4, <2>5, <3>1, <3>2
  <2>8. ocr.full + 1 <= FullPlans
    BY <2>2, <2>4, FullPlansType
  <2>9. /\ Route = "adaptive_pdf_ocr" /\ at \in DOMAIN file.pages
        /\ NeedsOcr(Seen)
        /\ UNCHANGED <<route, at, pages, skipped, attempts, error>>
    BY <1>7, <2>2 DEF ReadWholePage, OcrInv
  <2>. QED  BY <2>1, <2>5, <2>6, <2>7, <2>8, <2>9, OcrGoesOn
<1>8. CASE DetectRegions
  <2>1. Ongoing
    BY <1>8 DEF DetectRegions, Adaptive, Running, Ongoing
  <2>2. ocr \in Ocr /\ OcrInv /\ ocr # Nil
    BY <1>8 DEF DetectRegions, TypeOK
  <2>3. PICK n \in RegionCounts : ocr' = [ocr EXCEPT !.boxes = n]
    BY <1>8 DEF DetectRegions
  <2>4. n \in Nat
    BY ExtractionAssumption
  <2>5. /\ ocr' \in Ocr /\ ocr'.candidates = ocr.candidates
        /\ ocr'.full = ocr.full
    BY <2>2, <2>3, <2>4 DEF Ocr
  <2>6. /\ Route = "adaptive_pdf_ocr" /\ at \in DOMAIN file.pages
        /\ NeedsOcr(Seen)
        /\ UNCHANGED <<route, at, pages, skipped, attempts, error>>
    BY <1>8, <2>2 DEF DetectRegions, OcrInv
  <2>. QED  BY <2>1, <2>2, <2>5, <2>6, OcrGoesOn DEF OcrInv
<1>9. CASE ReadRegions
  <2>1. Ongoing
    BY <1>9 DEF ReadRegions, Adaptive, Running, Ongoing
  <2>2. ocr \in Ocr /\ OcrInv /\ ocr # Nil
    BY <1>9 DEF ReadRegions, TypeOK
  <2>3. PICK candidates \in CandidatesAfter("region_ocr", ocr.regions) :
          ocr' = [ocr EXCEPT !.regions = @ + 1, !.candidates = candidates]
    BY <1>9 DEF ReadRegions
  <2>4. ocr.regions \in Nat /\ ocr.candidates \in SUBSET Candidate
    BY <2>2 DEF Ocr
  <2>5. /\ candidates \in SUBSET Candidate /\ IsFiniteSet(candidates)
        /\ OnPages(candidates) = OnPages(ocr.candidates)
    <3>1. IsFiniteSet(ocr.candidates)
      BY <2>2 DEF OcrInv
    <3>2. \A kind \in {"full_page_ocr", "region_ocr"}, plan \in Nat :
            \A some \in CandidatesAfter(kind, plan) :
              /\ some \in SUBSET Candidate /\ IsFiniteSet(some)
              /\ kind = "region_ocr" =>
                   OnPages(some) = OnPages(ocr.candidates)
      BY <2>4, <3>1, OneCandidateMore
    <3>. QED  BY <2>3, <2>4, <3>2
  <2>6. ocr' \in Ocr /\ ocr'.candidates = candidates /\ ocr'.full = ocr.full
    <3>1. PICK full \in Nat, boxes \in Nat \cup {Nil}, regions \in Nat,
               old \in SUBSET Candidate :
            ocr = [full |-> full, boxes |-> boxes, regions |-> regions,
                   candidates |-> old]
      BY <2>2, OcrFields
    <3>2. ocr' = [full |-> full, boxes |-> boxes, regions |-> regions + 1,
                  candidates |-> candidates]
      BY <2>3, <3>1
    <3>. QED  BY <2>5, <3>1, <3>2 DEF Ocr
  <2>7. /\ Route = "adaptive_pdf_ocr" /\ at \in DOMAIN file.pages
        /\ NeedsOcr(Seen)
        /\ UNCHANGED <<route, at, pages, skipped, attempts, error>>
    BY <1>9, <2>2 DEF ReadRegions, OcrInv
  <2>. QED  BY <2>1, <2>2, <2>5, <2>6, <2>7, OcrGoesOn DEF OcrInv
<1>10. CASE BuildPage
  <2>1. Ongoing
    BY <1>10 DEF BuildPage, Adaptive, Running, Ongoing
  <2>2. PICK p \in AdaptivePages(Seen, Batch, Selected(Batch)) :
          pages' = Append(pages, p)
    BY <1>10 DEF BuildPage
  <2>3. Given(Seen, Batch)
    <3>1. Seen \in Evidence
      BY <1>10, SeenType DEF BuildPage, Adaptive
    <3>2. ocr # Nil => ocr \in Ocr /\ IsFiniteSet(ocr.candidates) /\ NeedsOcr(Seen)
      BY DEF TypeOK, OcrInv
    <3>. QED  BY <3>1, <3>2, FS_EmptySet DEF Given, Batch, Ocr
  <2>4. PageInv(p, Route)
    <3>. DEFINE e == Seen
                batch == Batch
                c == Selected(Batch)
    <3>1. p \in AdaptivePages(e, batch, c) /\ Given(e, batch) /\ c = Selected(batch)
      BY <2>2, <2>3
    <3>. HIDE DEF e, batch, c
    <3>2. CASE c = Nil
      BY <3>1, <3>2, UnselectedPages
    <3>3. CASE c # Nil
      BY <3>1, <3>3, SelectedPages
    <3>. QED  BY <3>2, <3>3
  <2>5. PagesInv(pages', route, file.kind)
    BY <2>2, <2>4, OnePageMore DEF RouteInv, Route
  <2>6. pages' \in Seq(PageResult)
    BY <2>5 DEF PagesInv
  <2>7. /\ ocr' = Nil /\ at' \in Nat \ {0}
        /\ UNCHANGED <<route, skipped, attempts, error>>
    BY <1>10 DEF BuildPage, TypeOK
  <2>. QED  BY <2>1, <2>5, <2>6, <2>7, PageIsAdded
<1>11. CASE Return
  <2>1. result' = Extracted /\ Sufficient(Extracted) /\ Running
    BY <1>11 DEF Return, Read
  <2>2. Extracted \in Document
    BY DEF TypeOK, Extracted, Document
  <2>3. TypeOK'
    BY <1>11, <2>1, <2>2 DEF Return, TypeOK
  <2>4. OcrInv' /\ RouteInv'
    BY <1>11 DEF Return, OcrInv, RouteInv, Route, Seen
  <2>5. /\ result'.pages = pages /\ result'.route = route
        /\ result'.warned = skipped /\ result'.exhausted = FALSE
    BY <2>1 DEF Extracted
  <2>6. Sufficient(result')
    BY <2>1
  <2>7. PagesInv(result'.pages, result'.route, file'.kind)
    BY <1>11, <2>5 DEF Return, RouteInv
  <2>8. FallbacksAreReported'
    BY <2>5, <2>6 DEF RouteInv, FallbacksAreReported
  <2>. QED  BY <2>3, <2>4, <2>7, <2>8 DEF ResultInv
<1>12. CASE PassOver
  <2>1. Ongoing /\ Running
    BY <1>12 DEF PassOver, Read, Running, Ongoing
  <2>2. attempts' = Append(attempts, Extracted) /\ ~Sufficient(Extracted)
    BY <1>12 DEF PassOver
  <2>3. Extracted \in Document /\ attempts \in Seq(Document)
    BY DEF TypeOK, Extracted, Document
  <2>4. /\ DOMAIN attempts' = 1 .. Len(attempts) + 1
        /\ attempts' \in Seq(Document)
        /\ \A a \in 1 .. Len(attempts) : attempts'[a] = attempts[a]
        /\ attempts'[Len(attempts) + 1] = Extracted
        /\ DOMAIN attempts = 1 .. Len(attempts) /\ Len(attempts) \in Nat
    BY <2>2, <2>3
  <2>5. PagesInv(Extracted.pages, Extracted.route, file.kind)
    BY DEF RouteInv, Extracted
  <2>6. ASSUME NEW a \in DOMAIN attempts'
        PROVE  /\ PagesInv(attempts'[a].pages, attempts'[a].route, file.kind)
               /\ ~Sufficient(attempts'[a])
    <3>1. CASE a \in DOMAIN attempts
      BY <2>4, <3>1 DEF RouteInv
    <3>2. CASE a = Len(attempts) + 1
      BY <2>2, <2>4, <2>5, <3>2
    <3>. QED  BY <2>4, <3>1, <3>2
  <2>7. NextRoute /\ skipped' = skipped \cup {route} /\ UNCHANGED error
    BY <1>12 DEF PassOver
  <2>. QED  BY <2>1, <2>4, <2>6, <2>7, RouteIsSkipped
<1>13. CASE ReturnBest
  <2>1. /\ attempts # <<>> /\ attempts \in Seq(Document)
        /\ result' = [attempts[Best] EXCEPT !.warned = skipped,
                                            !.exhausted = TRUE]
    BY <1>13 DEF ReturnBest, TypeOK
  <2>2. Best \in DOMAIN attempts
    BY <2>1, BestIsOne
  <2>3. PICK d \in Document : d = attempts[Best]
    BY <2>1, <2>2
  <2>4. /\ result' \in Document
        /\ result'.pages = d.pages /\ result'.route = d.route
        /\ result'.warned = skipped /\ result'.exhausted = TRUE
    BY <2>1, <2>3 DEF Document, TypeOK
  <2>5. TypeOK'
    BY <1>13, <2>4 DEF ReturnBest, TypeOK
  <2>6. OcrInv' /\ RouteInv'
    BY <1>13 DEF ReturnBest, OcrInv, RouteInv, Route, Seen
  <2>7. PagesInv(d.pages, d.route, file.kind) /\ ~Sufficient(d)
    BY <2>2, <2>3 DEF RouteInv
  <2>8. ~Sufficient(result')
    BY <2>4, <2>7 DEF Sufficient, Count
  <2>9. skipped = DOMAIN CandidatesOf(file.kind)
    <3>1. PICK n \in Nat : DOMAIN CandidatesOf(file.kind) = 1 .. n
      BY CandidatesType
    <3>2. /\ route \in Nat \ {0} /\ route \notin 1 .. n
          /\ \A r \in 1 .. route - 1 : r \in 1 .. n
      BY <1>13, <3>1 DEF ReturnBest, Exhausted, TypeOK, RouteInv
    <3>3. route = n + 1
      <4>1. route - 1 \in 1 .. n \/ route = 1
        BY <3>2
      <4>. QED  BY <3>2, <4>1
    <3>. QED  BY <3>1, <3>3 DEF RouteInv
  <2>10. FallbacksAreReported'
    BY <1>13, <2>4, <2>8, <2>9 DEF ReturnBest, FallbacksAreReported
  <2>11. PagesInv(result'.pages, result'.route, file'.kind)
    BY <1>13, <2>4, <2>7 DEF ReturnBest
  <2>. QED  BY <2>5, <2>6, <2>10, <2>11 DEF ResultInv
<1>14. CASE NothingExtracted
  <2>1. Ongoing
    BY <1>14 DEF NothingExtracted, Exhausted, Ongoing
  <2>2. TypeOK'
    BY <1>14 DEF NothingExtracted, TypeOK
  <2>3. OcrInv'
    BY <1>14 DEF NothingExtracted, OcrInv, Route, Seen
  <2>4. RouteInv'
    BY <1>14 DEF NothingExtracted, RouteInv
  <2>. QED  BY <2>1, <2>2, <2>3, <2>4, NoResult
<1>15. CASE UNCHANGED vars
  <2>1. TypeOK' /\ RouteInv'
    BY <1>15 DEF vars, TypeOK, RouteInv
  <2>2. OcrInv'
    BY <1>15 DEF vars, OcrInv, Route, Seen
  <2>3. ResultInv'
    BY <1>15 DEF vars, ResultInv, FallbacksAreReported
  <2>. QED  BY <2>1, <2>2, <2>3
<1>. QED
  BY <1>1, <1>2, <1>3, <1>4, <1>5, <1>6, <1>7, <1>8, <1>9, <1>10, <1>11,
     <1>12, <1>13, <1>14, <1>15 DEF Next

LEMMA InvHolds == Spec => []ExtractionInv
BY InitInv, NextInv, PTL DEF Spec

-----------------------------------------------------------------------------
(* The theorems.                                                            *)

(* Type correctness: of what extract makes of any file, every page result   *)
(* is one the schema can express.                                           *)
THEOREM ExtractionTypes == Spec => []TypeOK
<1>1. ExtractionInv => TypeOK
  BY DEF ExtractionInv
<1>. QED  BY <1>1, InvHolds, PTL

(* validate_page_policy refuses no page that native_page_result,            *)
(* ocr_page_result or build_page_result makes.                              *)
THEOREM NoPageIsRefused == Spec => []PagesAreValid
<1>1. ExtractionInv => PagesAreValid
  BY DEF ExtractionInv, RouteInv, PagesInv, PageInv, PagesAreValid
<1>. QED  BY <1>1, InvHolds, PTL

(* OCR text that did not pass the gate is not indexed with an accepted page *)
(* of the adaptive route.                                                   *)
THEOREM OnlyPassedOcrIsAccepted == Spec => []RejectedOcrIsNotAccepted
<1>1. ExtractionInv => RejectedOcrIsNotAccepted
  <2>. SUFFICES ASSUME ExtractionInv, result # Nil,
                       CandidatesOf(file.kind)[result.route]
                         = "adaptive_pdf_ocr",
                       NEW p \in DOMAIN result.pages,
                       result.pages[p].status = "accepted"
                PROVE  Empty(result.pages[p].ocr) \/ result.pages[p].passed
    BY DEF RejectedOcrIsNotAccepted
  <2>1. PageInv(result.pages[p], "adaptive_pdf_ocr")
    BY DEF ExtractionInv, ResultInv, PagesInv
  <2>. QED  BY <2>1 DEF PageInv
<1>. QED  BY <1>1, InvHolds, PTL

(* An accepted page scores 4000 at least, by the gate's thresholds and      *)
(* classify_page's, so that the router passes over no document with one.    *)
THEOREM NoAcceptedPageIsLost == Spec => []NothingAcceptedIsPassedOver
<1>1. ExtractionInv => NothingAcceptedIsPassedOver
  <2>. SUFFICES ASSUME ExtractionInv, NEW a \in DOMAIN attempts,
                       NEW p \in DOMAIN attempts[a].pages,
                       attempts[a].pages[p].status = "accepted"
                PROVE  FALSE
    BY DEF NothingAcceptedIsPassedOver
  <2>1. /\ PagesInv(attempts[a].pages, attempts[a].route, file.kind)
        /\ ~Sufficient(attempts[a])
    BY DEF ExtractionInv, RouteInv
  <2>. QED  BY <2>1, AcceptedSuffices
<1>. QED  BY <1>1, InvHolds, PTL

(* The warnings of what extract returns name every candidate before it, or  *)
(* all of them if none was sufficient.                                      *)
THEOREM EveryFallbackIsReported == Spec => []FallbacksAreReported
<1>1. ExtractionInv => FallbacksAreReported
  BY DEF ExtractionInv, ResultInv, FallbacksAreReported
<1>. QED  BY <1>1, InvHolds, PTL

(* Calls are left for the regions of a complex page, since the page itself  *)
(* has one candidate a call and FullPlans calls at most.                    *)
THEOREM RegionsOfComplexPages == Spec => ComplexPagesReadRegions
<1>1. ASSUME ExtractionInv, [Next]_vars
      PROVE  [(BuildPage /\ ocr # Nil /\ MAX_CANDIDATES > 1) =>
                (ocr.boxes >= COMPLEX /\ ocr.boxes > 0
                   => ocr.regions > 0)]_vars
  <2>. SUFFICES ASSUME BuildPage, ocr # Nil, MAX_CANDIDATES > 1,
                       ocr.boxes >= COMPLEX, ocr.boxes > 0
                PROVE  ocr.regions > 0
    OBVIOUS
  <2>1. ocr \in Ocr /\ IsFiniteSet(ocr.candidates)
    BY <1>1 DEF ExtractionInv, TypeOK, OcrInv
  <2>. DEFINE n == Cardinality(OnPages(ocr.candidates))
  <2>2. n \in Nat
    BY <2>1, OnPagesFinite
  <2>3. n <= ocr.full /\ ocr.full <= FullPlans /\ ocr.full \in Nat
    BY <1>1, <2>1 DEF ExtractionInv, OcrInv, Ocr
  <2>4. FullPlans \in Nat /\ FullPlans <= MAX_CANDIDATES - 1
    BY FullPlansType
  <2>5. MAX_CANDIDATES \in Nat /\ PLANS \in Nat \ {0}
    BY ExtractionAssumption
  <2>. HIDE DEF n
  <2>6. MAX_CANDIDATES - n \in Nat \ {0}
    BY <2>2, <2>3, <2>4, <2>5
  <2>7. Least(PLANS, MAX_CANDIDATES - n) \in Nat \ {0}
    BY <2>5, <2>6 DEF Least
  <2>8. ocr.regions \in Nat
    BY <2>1 DEF Ocr
  <2>9. RegionPlans = Least(PLANS, MAX_CANDIDATES - n)
    BY DEF RegionPlans, n
  <2>10. ocr.regions >= RegionPlans
    BY DEF BuildPage, OcrDone
  <2>. QED  BY <2>7, <2>8, <2>9, <2>10
<1>. QED  BY <1>1, InvHolds, PTL DEF Spec, ComplexPagesReadRegions

=============================================================================
