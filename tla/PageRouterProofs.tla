-------------------------- MODULE PageRouterProofs --------------------------
(***************************************************************************)
(* What PageRouter does with any page, contours in any number and order,    *)
(* and whatever Tesseract reads or fails to read.                           *)
(***************************************************************************)
EXTENDS PageRouter, DataLemmas

-----------------------------------------------------------------------------
(* Scores.                                                                  *)

Part == 0 .. Whole

LEMMA PartIsNat ==
  /\ \A x \in Part : x \in Nat /\ x <= 10000
  /\ \A x \in Nat : x <= 10000 => x \in Part
BY DEF Part, Whole

LEMMA RoundedAtMost ==
  ASSUME NEW a \in Nat, NEW b \in Nat \ {0}, NEW k \in Nat, a <= k * b
  PROVE  Rounded(a, b) \in 0 .. k
BY DEF Rounded

LEMMA ShareType ==
  ASSUME NEW n \in Nat, NEW of \in Nat \ {0}
  PROVE  Share(n, of) \in Nat
BY DEF Share, Rounded, Whole

LEMMA MeanOfParts ==
  ASSUME NEW a \in Nat, a <= 1000000
  PROVE  Rounded(a, 100) \in Part
<1>1. Rounded(a, 100) \in Nat
  BY DEF Rounded
<1>2. Rounded(a, 100) <= 10000
  BY DEF Rounded
<1>. QED  BY <1>1, <1>2, PartIsNat

LEMMA TextQualityType ==
  ASSUME NEW t \in Text
  PROVE  TextQuality(t) \in Part
<1>1. /\ t.chars \in Nat /\ t.alnum \in Nat /\ t.valid \in Nat
      /\ t.damaged \in Nat /\ t.words \in Nat /\ t.distinct \in Nat
  BY DEF Text
<1>. SUFFICES ASSUME ~Empty(t) PROVE TextQuality(t) \in Part
  BY PartIsNat DEF TextQuality
<1>2. t.chars \in Nat \ {0}
  BY <1>1 DEF Empty
<1>. DEFINE a == Share(t.alnum, t.chars)
            v == Share(t.valid, t.chars)
            l == Share(Lesser(t.chars, 250), 250)
            w == Share(Lesser(t.words, 35), 35)
            d == Share(t.damaged, t.chars)
            again == IF 4 * t.distinct < t.words THEN 15 * Whole ELSE 0
            base == 35 * a + 25 * v + 20 * l + 20 * w - 100 * d - again
            all == Greater(0, Lesser(100 * Whole, base))
<1>3. a \in Nat /\ v \in Nat /\ d \in Nat
  BY <1>1, <1>2, ShareType
<1>4. l \in Nat /\ w \in Nat
  <2>1. Lesser(t.chars, 250) \in Nat /\ Lesser(t.words, 35) \in Nat
    BY <1>1 DEF Lesser
  <2>. QED  BY <2>1, ShareType
<1>5. again \in Nat
  BY DEF Whole
<1>6. TextQuality(t) = Rounded(all, 100)
  BY DEF TextQuality
<1>. HIDE DEF a, v, l, w, d, again
<1>7. base \in Int
  BY <1>3, <1>4, <1>5
<1>. HIDE DEF base
<1>8. all \in Nat
  BY <1>7 DEF Greater, Lesser, Whole
<1>9. all <= 1000000
  BY <1>7 DEF Greater, Lesser, Whole
<1>. HIDE DEF all
<1>. QED  BY <1>6, <1>8, <1>9, MeanOfParts

LEMMA ReadingQualityType ==
  ASSUME NEW t \in Text, NEW confidence \in Part
  PROVE  ReadingQuality(t, confidence) \in Part
<1>. DEFINE q == TextQuality(t)
            all == 55 * q + 45 * confidence
<1>1. q \in Part
  BY TextQualityType
<1>2. ReadingQuality(t, confidence) = IF Empty(t) THEN 0 ELSE Rounded(all, 100)
  BY DEF ReadingQuality
<1>. HIDE DEF q
<1>3. /\ q \in Nat /\ q <= 10000
      /\ confidence \in Nat /\ confidence <= 10000
  BY <1>1, PartIsNat
<1>4. all \in Nat
  BY <1>3
<1>5. all <= 1000000
  BY <1>3
<1>. HIDE DEF all
<1>6. Rounded(all, 100) \in Part /\ 0 \in Part
  BY <1>4, <1>5, MeanOfParts, PartIsNat
<1>. QED  BY <1>2, <1>6

LEMMA SimilarityType ==
  ASSUME NEW t \in Text, NEW u \in Text
  PROVE  Similarity(t, u) \in Part
<1>. DEFINE a == Alike[t.says][u.says]
            o == Overlap[t.says][u.says]
            all == 45 * a + 55 * o
<1>1. t.says \in Sayings /\ u.says \in Sayings
  BY DEF Text
<1>2. a \in Part /\ o \in Part
  BY <1>1, SimilarityAssumption DEF Part
<1>3. Similarity(t, u) =
        IF Empty(t) \/ Empty(u) THEN 0 ELSE Rounded(all, 100)
  BY DEF Similarity
<1>. HIDE DEF a, o
<1>4. a \in Nat /\ a <= 10000 /\ o \in Nat /\ o <= 10000
  BY <1>2, PartIsNat
<1>5. all \in Nat
  BY <1>4
<1>6. all <= 1000000
  BY <1>4
<1>. HIDE DEF all
<1>7. Rounded(all, 100) \in Part /\ 0 \in Part
  BY <1>5, <1>6, MeanOfParts, PartIsNat
<1>. QED  BY <1>3, <1>7

LEMMA RouteScoreType ==
  ASSUME NEW q \in Part, NEW c \in Part, NEW a \in Part
  PROVE  RouteScore(q, c, a) \in Part
<1>. DEFINE all == 40 * q + 35 * c + 25 * a
<1>1. /\ q \in Nat /\ q <= 10000 /\ c \in Nat /\ c <= 10000
      /\ a \in Nat /\ a <= 10000
  BY PartIsNat
<1>2. all \in Nat
  BY <1>1
<1>3. all <= 1000000
  BY <1>1
<1>4. RouteScore(q, c, a) = Rounded(all, 100)
  BY DEF RouteScore
<1>. HIDE DEF all
<1>. QED  BY <1>2, <1>3, <1>4, MeanOfParts

LEMMA AgreementType ==
  ASSUME NEW rs \in Seq(Reading), NEW k \in DOMAIN rs
  PROVE  Agreement(rs, k) \in Part
<1>. DEFINE others == RemoveAt(rs, k)
            Like(n) == Similarity(rs[k].text, others[n].text)
            likes == [n \in DOMAIN others |-> Like(n)]
            key == [n \in DOMAIN others |-> <<-Like(n)>>]
            like == Sorted(likes, key)
            n3 == Lesser(3, Len(like))
            three == SubSeq(like, 1, n3)
<1>1. DOMAIN rs = 1 .. Len(rs) /\ Len(rs) \in Nat
  BY LenProperties
<1>2. others \in Seq(Reading)
  <2>1. \A i \in 1 .. k - 1 : rs[i] \in Reading
    BY <1>1, ElementOfSeq
  <2>2. \A i \in k + 1 .. Len(rs) : rs[i] \in Reading
    BY <1>1, ElementOfSeq
  <2>3. SubSeq(rs, 1, k - 1) \in Seq(Reading)
    BY <1>1, <2>1, SubSeqProperties
  <2>4. SubSeq(rs, k + 1, Len(rs)) \in Seq(Reading)
    BY <1>1, <2>2, SubSeqProperties
  <2>. QED  BY <2>3, <2>4, ConcatProperties DEF RemoveAt
<1>3. rs[k] \in Reading
  BY <1>1, ElementOfSeq
<1>4. Agreement(rs, k) = IF others = <<>> THEN Whole
                         ELSE Rounded(SumFunction(three), Len(three))
  BY DEF Agreement
<1>. HIDE DEF others
<1>. SUFFICES ASSUME others # <<>>
              PROVE  Rounded(SumFunction(three), Len(three)) \in Part
  <2>1. Whole \in Part
    BY PartIsNat DEF Whole
  <2>. HIDE DEF three
  <2>. QED  BY <1>4, <2>1
<1>5. DOMAIN others = 1 .. Len(others) /\ Len(others) \in Nat \ {0}
  BY <1>2, LenProperties, EmptySeq
<1>6. \A n \in DOMAIN others : Like(n) \in Part
  <2>. SUFFICES ASSUME NEW n \in DOMAIN others PROVE Like(n) \in Part
    OBVIOUS
  <2>1. others[n] \in Reading
    BY <1>2, <1>5, ElementOfSeq
  <2>2. others[n].text \in Text /\ rs[k].text \in Text
    BY <1>3, <2>1 DEF Reading
  <2>. QED  BY <2>2, SimilarityType
<1>. HIDE DEF Like
<1>7. likes \in Seq(Part) /\ DOMAIN likes = DOMAIN others
      /\ Len(likes) = Len(others)
  <2>1. likes \in [1 .. Len(others) -> Part]
    BY <1>5, <1>6
  <2>2. likes \in Seq(Part)
    BY <1>5, <2>1, SeqDef
  <2>. QED  BY <1>5, <2>1, <2>2, LenProperties
<1>8. key \in [DOMAIN likes -> Keys(1)]
  <2>1. \A n \in DOMAIN others : <<-Like(n)>> \in Keys(1)
    <3>. SUFFICES ASSUME NEW n \in DOMAIN others PROVE <<-Like(n)>> \in Keys(1)
      OBVIOUS
    <3>1. -Like(n) \in Int
      BY <1>6, PartIsNat
    <3>. QED  BY <3>1 DEF Keys
  <2>. QED  BY <1>7, <2>1
<1>. HIDE DEF likes, key
<1>9. like \in Seq(Part) /\ Len(like) = Len(others)
  <2>1. 1 \in Nat
    OBVIOUS
  <2>. QED  BY <1>7, <1>8, <2>1, SortedIsSeq
<1>. HIDE DEF like
<1>10. n3 \in 1 .. Len(like) /\ n3 \in Nat \ {0}
  BY <1>5, <1>9 DEF Lesser
<1>. HIDE DEF n3
<1>11. three \in Seq(Part) /\ Len(three) = n3
  <2>1. \A i \in 1 .. n3 : like[i] \in Part
    BY <1>9, <1>10, ElementOfSeq
  <2>. QED  BY <1>10, <2>1, SubSeqProperties
<1>. HIDE DEF three
<1>12. three \in [1 .. n3 -> Nat] /\ \A i \in 1 .. n3 : three[i] <= Whole
  <2>1. three \in [1 .. n3 -> Part]
    BY <1>11, LenProperties
  <2>. QED  BY <2>1, PartIsNat DEF Whole
<1>13. SumFunction(three) \in Nat /\ SumFunction(three) <= Whole * n3
  <2>1. IsFiniteSet(1 .. n3) /\ Cardinality(1 .. n3) = n3
    BY <1>10, FS_Interval
  <2>2. Whole \in Nat
    BY DEF Whole
  <2>3. SumFunction(three) \in Nat
    BY <1>12, <2>1, SumIsNat
  <2>4. SumFunction(three) <= Whole * Cardinality(1 .. n3)
    BY <1>12, <2>1, <2>2, SumAtMostEach
  <2>. QED  BY <2>1, <2>3, <2>4
<1>. HIDE DEF three
<1>14. Rounded(SumFunction(three), n3) \in 0 .. Whole
  <2>1. Whole \in Nat
    BY DEF Whole
  <2>. QED  BY <1>10, <1>13, <2>1, RoundedAtMost
<1>. QED  BY <1>11, <1>14 DEF Part

-----------------------------------------------------------------------------
(* Candidates.                                                              *)

LEMMA CandidatesType ==
  ASSUME NEW rs \in Seq(Reading)
  PROVE  Candidates(rs) \in Seq(Candidate)
<1>1. DOMAIN rs = 1 .. Len(rs) /\ Len(rs) \in Nat
  BY LenProperties
<1>. DEFINE Cand(k) ==
              [text |-> rs[k].text, confidence |-> rs[k].confidence,
               quality |-> ReadingQuality(rs[k].text, rs[k].confidence),
               agreement |-> Agreement(rs, k)]
<1>2. \A k \in 1 .. Len(rs) : Cand(k) \in Candidate
  <2>. SUFFICES ASSUME NEW k \in 1 .. Len(rs) PROVE Cand(k) \in Candidate
    OBVIOUS
  <2>1. rs[k] \in Reading
    BY <1>1, ElementOfSeq
  <2>2. rs[k].text \in Text /\ rs[k].confidence \in Part
    BY <2>1 DEF Reading, Part
  <2>3. ReadingQuality(rs[k].text, rs[k].confidence) \in Part
    BY <2>2, ReadingQualityType
  <2>4. Agreement(rs, k) \in Part
    BY <1>1, AgreementType
  <2>. QED  BY <2>2, <2>3, <2>4 DEF Candidate, Part
<1>3. Candidates(rs) = [k \in 1 .. Len(rs) |-> Cand(k)]
  BY <1>1 DEF Candidates
<1>. HIDE DEF Cand
<1>4. Candidates(rs) \in [1 .. Len(rs) -> Candidate]
  BY <1>2, <1>3
<1>. QED  BY <1>1, <1>4, SeqDef

LEMMA CandidateFields ==
  ASSUME NEW c \in Candidate
  PROVE  /\ c.text \in Text /\ c.text.length \in Nat /\ c.text.words \in Nat
         /\ c.confidence \in Part /\ c.quality \in Part /\ c.agreement \in Part
BY DEF Candidate, Text, Part

LEMMA ScoreOfType ==
  ASSUME NEW c \in Candidate \cup {Nil}
  PROVE  ScoreOf(c) \in Nat
<1>1. CASE c = Nil
  BY <1>1 DEF ScoreOf
<1>2. CASE c # Nil
  <2>1. RouteScore(c.quality, c.confidence, c.agreement) \in Part
    BY <1>2, CandidateFields, RouteScoreType
  <2>. QED  BY <1>2, <2>1, PartIsNat DEF ScoreOf
<1>. QED  BY <1>1, <1>2

LEMMA BestOfType ==
  ASSUME NEW cs \in Seq(Candidate)
  PROVE  BestOf(cs) \in Candidate \cup {Nil}
<1>. SUFFICES ASSUME cs # <<>> PROVE BestOf(cs) \in Candidate
  BY DEF BestOf
<1>. DEFINE Key(k) == <<-ScoreOf(cs[k]), -cs[k].quality, -cs[k].confidence,
                        -cs[k].text.length>>
            key == [k \in DOMAIN cs |-> Key(k)]
<1>1. \A k \in DOMAIN cs : Key(k) \in Keys(4)
  <2>. SUFFICES ASSUME NEW k \in DOMAIN cs PROVE Key(k) \in Keys(4)
    OBVIOUS
  <2>1. cs[k] \in Candidate
    BY LenProperties, ElementOfSeq
  <2>2. /\ ScoreOf(cs[k]) \in Nat /\ cs[k].quality \in Part
        /\ cs[k].confidence \in Part /\ cs[k].text.length \in Nat
    BY <2>1, ScoreOfType, CandidateFields
  <2>3. /\ -ScoreOf(cs[k]) \in Int /\ -cs[k].quality \in Int
        /\ -cs[k].confidence \in Int /\ -cs[k].text.length \in Int
    BY <2>2, PartIsNat
  <2>. QED  BY <2>3 DEF Keys
<1>2. BestOf(cs) = Sorted(cs, key)[1]
  BY DEF BestOf
<1>. HIDE DEF Key
<1>3. key \in [DOMAIN cs -> Keys(4)]
  BY <1>1
<1>. HIDE DEF key
<1>4. 4 \in Nat
  OBVIOUS
<1>. QED  BY <1>2, <1>3, <1>4, FirstOfSorted

-----------------------------------------------------------------------------
(* The candidate that regions make.                                         *)

LEMMA MaxIsIn ==
  ASSUME NEW S \in SUBSET Nat, IsFiniteSet(S), S # {}
  PROVE  Max(S) \in S
<1>1. S \in SUBSET Int
  OBVIOUS
<1>2. \E m \in S : \A y \in S : y <= m
  BY <1>1, GreatestExists
<1>3. \E m \in S : \A y \in S : m >= y
  BY <1>1, <1>2
<1>. QED  BY <1>3 DEF Max

LEMMA TextCounts ==
  ASSUME NEW t \in Text, ~Empty(t)
  PROVE  /\ t.alnum <= t.valid /\ t.valid + t.damaged <= t.chars
         /\ t.chars <= t.length /\ t.distinct <= t.words
         /\ t.chars > 0 /\ t.words > 0
<1>1. t.chars \in Nat /\ t.chars # 0
  BY DEF Text, Empty
<1>2. t.chars > 0
  BY <1>1
<1>. QED  BY <1>2 DEF Text

LEMMA SameLength ==
  ASSUME NEW m \in Nat \ {0}, NEW n \in Nat, 1 .. m = 1 .. n
  PROVE  m = n
<1>1. m \in 1 .. n
  OBVIOUS
<1>2. n \in 1 .. m
  BY <1>1
<1>. QED  BY <1>1, <1>2

LEMMA JoinedType ==
  ASSUME NEW n \in Nat \ {0}, NEW texts \in [1 .. n -> Text],
         Len(texts) = n, NEW shared \in BOOLEAN,
         \A k \in 1 .. n : ~Empty(texts[k])
  PROVE  Joined(texts, shared) \in Text /\ ~Empty(Joined(texts, shared))
<1>. DEFINE D == DOMAIN texts
            Of(field) == [k \in D |-> texts[k][field]]
            All(field) == SumFunction(Of(field))
            j == Joined(texts, shared)
<1>0. D = 1 .. n
  OBVIOUS
<1>1. \A k \in D :
        /\ texts[k].says \in Sayings
        /\ texts[k].length \in Nat /\ texts[k].chars \in Nat
        /\ texts[k].alnum \in Nat /\ texts[k].valid \in Nat
        /\ texts[k].damaged \in Nat /\ texts[k].words \in Nat
        /\ texts[k].distinct \in Nat
  BY <1>0 DEF Text
<1>2. \A k \in D :
        /\ texts[k].alnum <= texts[k].valid
        /\ texts[k].valid + texts[k].damaged <= texts[k].chars
        /\ texts[k].chars <= texts[k].length
        /\ texts[k].distinct <= texts[k].words
        /\ texts[k].chars > 0 /\ texts[k].words > 0
  <2>. SUFFICES ASSUME NEW k \in D
                PROVE  /\ texts[k].alnum <= texts[k].valid
                       /\ texts[k].valid + texts[k].damaged <= texts[k].chars
                       /\ texts[k].chars <= texts[k].length
                       /\ texts[k].distinct <= texts[k].words
                       /\ texts[k].chars > 0 /\ texts[k].words > 0
    OBVIOUS
  <2>. DEFINE t == texts[k]
  <2>1. t \in Text /\ ~Empty(t)
    BY <1>0
  <2>. HIDE DEF t
  <2>2. /\ t.alnum <= t.valid /\ t.valid + t.damaged <= t.chars
        /\ t.chars <= t.length /\ t.distinct <= t.words
        /\ t.chars > 0 /\ t.words > 0
    BY <2>1, TextCounts
  <2>. QED  BY <2>2 DEF t
<1>3. IsFiniteSet(D) /\ 1 \in D
  BY <1>0, FS_Interval
<1>4. /\ Of("length") \in [D -> Nat] /\ Of("chars") \in [D -> Nat]
      /\ Of("alnum") \in [D -> Nat] /\ Of("valid") \in [D -> Nat]
      /\ Of("damaged") \in [D -> Nat] /\ Of("words") \in [D -> Nat]
      /\ Of("distinct") \in [D -> Nat]
  BY <1>1
<1>5. j = [says |-> texts[1].says,
           length |-> All("length") + 2 * (Len(texts) - 1),
           chars |-> All("chars"), alnum |-> All("alnum"),
           valid |-> All("valid"), damaged |-> All("damaged"),
           words |-> All("words"),
           distinct |-> IF shared THEN Max(ToSet(Of("distinct")))
                        ELSE All("distinct")]
  BY DEF Joined
<1>6. /\ \A k \in D : Of("alnum")[k] <= Of("valid")[k]
      /\ \A k \in D : Of("valid")[k] + Of("damaged")[k] <= Of("chars")[k]
      /\ \A k \in D : Of("chars")[k] <= Of("length")[k]
      /\ \A k \in D : Of("distinct")[k] <= Of("words")[k]
      /\ Of("chars")[1] > 0 /\ Of("words")[1] > 0
  BY <1>2, <1>3
<1>7. ToSet(Of("distinct")) = {Of("distinct")[k] : k \in D}
  BY DEF ToSet
<1>. HIDE DEF j, D, Of
<1>8. /\ All("length") \in Nat /\ All("chars") \in Nat /\ All("alnum") \in Nat
      /\ All("valid") \in Nat /\ All("damaged") \in Nat /\ All("words") \in Nat
      /\ All("distinct") \in Nat
  BY <1>3, <1>4, SumIsNat
<1>9. All("alnum") <= All("valid")
  BY <1>3, <1>4, <1>6, SumAtMost
<1>10. All("valid") + All("damaged") <= All("chars")
  BY <1>3, <1>4, <1>6, SumsAtMost
<1>11. All("chars") <= All("length")
  BY <1>3, <1>4, <1>6, SumAtMost
<1>12. All("distinct") <= All("words")
  BY <1>3, <1>4, <1>6, SumAtMost
<1>13. All("chars") > 0 /\ All("words") > 0
  <2>1. Of("chars")[1] <= All("chars") /\ Of("words")[1] <= All("words")
    BY <1>3, <1>4, PartAtMostSum
  <2>2. Of("chars")[1] \in Nat /\ Of("words")[1] \in Nat
    BY <1>3, <1>4
  <2>. HIDE DEF All
  <2>. QED  BY <1>6, <1>8, <2>1, <2>2
<1>14. /\ Max(ToSet(Of("distinct"))) \in Nat
       /\ Max(ToSet(Of("distinct"))) <= All("words")
  <2>. DEFINE f == Of("distinct")
              S == {f[k] : k \in D}
  <2>1. f \in [D -> Nat]
    BY <1>4
  <2>. HIDE DEF f
  <2>2. S \in SUBSET Nat /\ S # {}
    BY <1>3, <2>1
  <2>3. IsFiniteSet(S)
    <3>1. f \in Surjection(D, S)
      BY <2>1 DEF Surjection
    <3>. HIDE DEF S
    <3>. QED  BY <1>3, <3>1, FS_Surjection
  <2>4. Max(S) \in S
    <3>. HIDE DEF S
    <3>. QED  BY <2>2, <2>3, MaxIsIn
  <2>5. PICK k \in D : Max(S) = f[k]
    BY <2>4
  <2>6. f[k] \in Nat /\ f[k] <= Of("words")[k]
    BY <1>6, <2>1 DEF f
  <2>7. Of("words")[k] <= All("words") /\ Of("words")[k] \in Nat
    BY <1>3, <1>4, PartAtMostSum
  <2>8. ToSet(Of("distinct")) = S
    BY <1>7 DEF f
  <2>. HIDE DEF All, S
  <2>. QED  BY <1>8, <2>5, <2>6, <2>7, <2>8
<1>. HIDE DEF All
<1>15. /\ j.says \in Sayings /\ j.length \in Nat /\ j.chars \in Nat
       /\ j.alnum \in Nat /\ j.valid \in Nat /\ j.damaged \in Nat
       /\ j.words \in Nat /\ j.distinct \in Nat
  BY <1>1, <1>3, <1>5, <1>8, <1>14
<1>16. /\ j.alnum <= j.valid /\ j.valid + j.damaged <= j.chars
       /\ j.chars <= j.length /\ j.distinct <= j.words
       /\ j.chars > 0 /\ j.words > 0
  BY <1>5, <1>8, <1>9, <1>10, <1>11, <1>12, <1>13, <1>14
<1>17. j \in [says: Sayings, length: Nat, chars: Nat, alnum: Nat, valid: Nat,
              damaged: Nat, words: Nat, distinct: Nat]
  BY <1>5, <1>15
<1>18. j \in Text /\ ~Empty(j)
  BY <1>15, <1>16, <1>17 DEF Text, Empty
<1>. QED  BY <1>18 DEF j

(* A mean of parts, each with a weight.                                     *)
LEMMA MeanType ==
  ASSUME NEW D, IsFiniteSet(D), NEW a \in D, NEW of \in [D -> Part],
         NEW weight \in [D -> Nat \ {0}]
  PROVE  Rounded(SumFunction([k \in D |-> of[k] * weight[k]]),
                 SumFunction([k \in D |-> weight[k]])) \in Part
<1>. DEFINE f == [k \in D |-> of[k] * weight[k]]
            w == [k \in D |-> weight[k]]
<1>1. w = weight /\ weight \in [D -> Nat]
  OBVIOUS
<1>2. f \in [D -> Nat] /\ \A k \in D : f[k] <= Whole * weight[k]
  <2>. SUFFICES ASSUME NEW k \in D
                PROVE  f[k] \in Nat /\ f[k] <= Whole * weight[k]
    OBVIOUS
  <2>. DEFINE x == of[k]
              y == weight[k]
  <2>1. x \in Nat /\ x <= 10000 /\ y \in Nat
    BY PartIsNat
  <2>2. f[k] = x * y
    OBVIOUS
  <2>. HIDE DEF x, f
  <2>3. x * y \in Nat /\ x * y <= 10000 * y
    <3>1. PICK z \in Nat : 10000 = x + z
      <4>1. 10000 - x \in Nat /\ 10000 = x + (10000 - x)
        BY <2>1
      <4>. QED  BY <4>1
    <3>. HIDE DEF y
    <3>2. (x + z) * y = x * y + z * y /\ x * y \in Nat /\ z * y \in Nat
      BY <2>1
    <3>. QED  BY <3>1, <3>2
  <2>. QED  BY <2>2, <2>3 DEF Whole
<1>. HIDE DEF f, w
<1>. DEFINE top == SumFunction(f)
            all == SumFunction(weight)
<1>3. top \in Nat /\ all \in Nat
  BY <1>1, <1>2, SumIsNat
<1>4. all # 0
  <2>1. weight[a] <= all
    BY <1>1, PartAtMostSum
  <2>2. weight[a] \in Nat \ {0}
    OBVIOUS
  <2>. HIDE DEF all
  <2>. QED  BY <1>3, <2>1, <2>2
<1>5. top <= Whole * all
  <2>1. Whole \in Nat
    BY DEF Whole
  <2>. QED  BY <1>1, <1>2, <2>1, SumAtMostTimes
<1>. HIDE DEF top, all
<1>6. Rounded(top, all) \in 0 .. Whole
  <2>1. Whole \in Nat
    BY DEF Whole
  <2>. QED  BY <1>3, <1>4, <1>5, <2>1, RoundedAtMost
<1>. QED  BY <1>1, <1>6 DEF Part, top, all, f, w

LEMMA CombinedType ==
  ASSUME NEW some \in Seq(Candidate), some # <<>>, NEW shared \in BOOLEAN,
         \A k \in DOMAIN some : ~Empty(some[k].text)
  PROVE  Combined(some, shared) \in Candidate
<1>. DEFINE D == DOMAIN some
            texts == [k \in D |-> some[k].text]
            text == Joined(texts, shared)
            weight == [k \in D |-> Greater(some[k].text.words, 1)]
            Mean(of) == Rounded(SumFunction([k \in D |-> of[k] * Greater(some[k].text.words, 1)]),
                                SumFunction([k \in D |-> Greater(some[k].text.words, 1)]))
            confidence == Mean([k \in D |-> some[k].confidence])
            agreement == Mean([k \in D |-> some[k].agreement])
<1>1. Combined(some, shared) =
        [text |-> text, confidence |-> confidence, agreement |-> agreement,
         quality |-> ReadingQuality(text, confidence)]
  BY DEF Combined
<1>2. D = 1 .. Len(some) /\ Len(some) \in Nat \ {0}
  BY LenProperties, EmptySeq
<1>3. IsFiniteSet(D) /\ 1 \in D
  BY <1>2, FS_Interval
<1>4. \A k \in D : some[k] \in Candidate
  BY <1>2, ElementOfSeq
<1>5. text \in Text
  <2>1. texts \in [1 .. Len(some) -> Text]
    BY <1>2, <1>4, CandidateFields
  <2>2. texts \in Seq(Text)
    BY <1>2, <2>1, SeqDef
  <2>3. Len(texts) = Len(some)
    <3>1. DOMAIN texts = 1 .. Len(texts) /\ Len(texts) \in Nat
      BY <2>2, LenProperties
    <3>2. DOMAIN texts = 1 .. Len(some)
      BY <2>1
    <3>. HIDE DEF texts
    <3>. QED  BY <1>2, <3>1, <3>2, SameLength
  <2>4. \A k \in 1 .. Len(some) : ~Empty(texts[k])
    BY <1>2
  <2>. HIDE DEF texts
  <2>. QED  BY <1>2, <2>1, <2>3, <2>4, JoinedType
<1>6. weight \in [D -> Nat \ {0}]
  <2>. SUFFICES ASSUME NEW k \in D
                PROVE  Greater(some[k].text.words, 1) \in Nat \ {0}
    OBVIOUS
  <2>1. some[k].text.words \in Nat
    BY <1>4, CandidateFields
  <2>. QED  BY <2>1 DEF Greater
<1>7. ASSUME NEW of \in [D -> Part] PROVE Mean(of) \in Part
  <2>1. Rounded(SumFunction([k \in D |-> of[k] * weight[k]]),
                SumFunction([k \in D |-> weight[k]])) \in Part
    <3>. HIDE DEF weight, D
    <3>. QED  BY <1>3, <1>6, MeanType
  <2>2. [k \in D |-> of[k] * weight[k]] =
          [k \in D |-> of[k] * Greater(some[k].text.words, 1)]
    OBVIOUS
  <2>3. [k \in D |-> weight[k]] = [k \in D |-> Greater(some[k].text.words, 1)]
    OBVIOUS
  <2>. QED  BY <2>1, <2>2, <2>3
<1>8. /\ [k \in D |-> some[k].confidence] \in [D -> Part]
      /\ [k \in D |-> some[k].agreement] \in [D -> Part]
  BY <1>4, CandidateFields
<1>. HIDE DEF D, Mean
<1>9. confidence \in Part /\ agreement \in Part
  BY <1>7, <1>8
<1>. HIDE DEF text, confidence, agreement
<1>10. ReadingQuality(text, confidence) \in Part
  BY <1>5, <1>9, ReadingQualityType
<1>. QED  BY <1>1, <1>5, <1>9, <1>10 DEF Candidate, Part

-----------------------------------------------------------------------------
(* Sequences of boxes.                                                      *)

(* s has those of the first n contours that are like text, and no others.   *)
HasFound(s, contours, n) ==
  /\ s \in Seq(Box)
  /\ \A m \in DOMAIN s : \E k \in 1 .. n : s[m] = contours[k]
  /\ \A k \in 1 .. n : TextLike(contours[k]) =>
       \E m \in DOMAIN s : s[m] = contours[k]

LEMMA OneMoreFound ==
  ASSUME NEW contours \in Seq(Box), NEW n \in Nat, n + 1 \in DOMAIN contours,
         NEW s, HasFound(s, contours, n)
  PROVE  HasFound(IF TextLike(contours[n + 1]) THEN Append(s, contours[n + 1])
                  ELSE s, contours, n + 1)
<1>1. s \in Seq(Box) /\ contours[n + 1] \in Box
  BY LenProperties, ElementOfSeq DEF HasFound
<1>2. \A k \in 1 .. n + 1 : k \in 1 .. n \/ k = n + 1
  OBVIOUS
<1>3. n + 1 \in 1 .. n + 1 /\ \A k \in 1 .. n : k \in 1 .. n + 1
  OBVIOUS
<1>4. /\ \A m \in DOMAIN s : \E k \in 1 .. n : s[m] = contours[k]
      /\ \A k \in 1 .. n : TextLike(contours[k]) =>
           \E m \in DOMAIN s : s[m] = contours[k]
  BY DEF HasFound
<1>5. CASE TextLike(contours[n + 1])
  <2>. DEFINE t == Append(s, contours[n + 1])
              l == Len(s)
  <2>1. /\ t \in Seq(Box) /\ l \in Nat /\ DOMAIN s = 1 .. l
        /\ DOMAIN t = 1 .. l + 1 /\ t[l + 1] = contours[n + 1]
        /\ \A i \in 1 .. l : t[i] = s[i]
    BY <1>1, OneMore
  <2>. HIDE DEF t, l
  <2>2. \A m \in DOMAIN t : \E k \in 1 .. n + 1 : t[m] = contours[k]
    <3>. SUFFICES ASSUME NEW m \in DOMAIN t
                  PROVE  \E k \in 1 .. n + 1 : t[m] = contours[k]
      OBVIOUS
    <3>1. CASE m = l + 1
      BY <1>3, <2>1, <3>1
    <3>2. CASE m # l + 1
      <4>1. m \in 1 .. l
        BY <2>1, <3>2
      <4>. QED  BY <1>3, <1>4, <2>1, <4>1
    <3>. QED  BY <3>1, <3>2
  <2>3. \A k \in 1 .. n + 1 : TextLike(contours[k]) =>
          \E m \in DOMAIN t : t[m] = contours[k]
    <3>1. \A m \in DOMAIN s : m \in DOMAIN t /\ t[m] = s[m]
      BY <2>1
    <3>2. l + 1 \in DOMAIN t
      BY <2>1
    <3>. QED  BY <1>2, <1>4, <2>1, <3>1, <3>2
  <2>4. HasFound(t, contours, n + 1)
    BY <2>1, <2>2, <2>3 DEF HasFound
  <2>. QED  BY <1>5, <2>4 DEF t
<1>6. CASE ~TextLike(contours[n + 1])
  <2>1. HasFound(s, contours, n + 1)
    BY <1>1, <1>2, <1>3, <1>4, <1>6 DEF HasFound
  <2>. QED  BY <1>6, <2>1
<1>. QED  BY <1>5, <1>6

LEMMA DetectedBoxes ==
  ASSUME NEW contours \in Seq(Box)
  PROVE  HasFound(Detected(contours), contours, Len(contours))
<1>. DEFINE len == Len(contours)
            Body(g) ==
              [n \in 0 .. Len(contours) |->
                 IF n = 0 THEN <<>>
                 ELSE IF TextLike(contours[n]) THEN Append(g[n - 1], contours[n])
                 ELSE g[n - 1]]
            found == CHOOSE g : g = Body(g)
            step == [x \in Seq(Box) \X Int |->
                       IF x[2] \in 1 .. len /\ TextLike(contours[x[2]])
                       THEN Append(x[1], contours[x[2]]) ELSE x[1]]
<1>1. Detected(contours) = found[len]
  BY DEF Detected
<1>2. len \in Nat /\ \A n \in 1 .. len : contours[n] \in Box
  BY LenProperties, ElementOfSeq
<1>3. DOMAIN contours = 1 .. len
  BY LenProperties
<1>4. step \in [Seq(Box) \X Int -> Seq(Box)]
  <2>. SUFFICES ASSUME NEW x \in Seq(Box) \X Int
                PROVE  (IF x[2] \in 1 .. len /\ TextLike(contours[x[2]])
                        THEN Append(x[1], contours[x[2]]) ELSE x[1]) \in Seq(Box)
    OBVIOUS
  <2>1. x[1] \in Seq(Box)
    OBVIOUS
  <2>2. CASE x[2] \in 1 .. len
    <3>1. Append(x[1], contours[x[2]]) \in Seq(Box)
      BY <1>2, <2>1, <2>2, AppendProperties
    <3>. QED  BY <2>1, <3>1
  <2>. QED  BY <2>1, <2>2
<1>5. \E g : g = Body(g)
  <2>1. PICK f : Steps(f, Seq(Box), 0, len, <<>>, step)
    <3>1. <<>> \in Seq(Box) /\ 0 \in Int /\ len \in Int /\ 0 <= len
      BY <1>2, EmptySeq
    <3>. HIDE DEF step, len
    <3>. QED  BY <1>4, <3>1, StepsExist
  <2>2. f \in [0 .. len -> Seq(Box)] /\ f[0] = <<>>
    BY <2>1 DEF Steps
  <2>3. \A n \in 1 .. len : f[n] = step[<<f[n - 1], n>>]
    <3>1. 0 + 1 = 1
      OBVIOUS
    <3>. QED  BY <2>1, <3>1 DEF Steps
  <2>4. ASSUME NEW n \in 1 .. len
        PROVE  f[n] = IF TextLike(contours[n]) THEN Append(f[n - 1], contours[n])
                      ELSE f[n - 1]
    <3>1. <<f[n - 1], n>> \in Seq(Box) \X Int
      <4>1. n - 1 \in 0 .. len
        BY <1>2
      <4>. QED  BY <2>2, <4>1
    <3>. QED  BY <2>3, <3>1
  <2>5. f = Body(f)
    <3>1. \A n \in 0 .. len : n = 0 \/ n \in 1 .. len
      BY <1>2
    <3>. QED  BY <2>2, <2>4, <3>1
  <2>. QED  BY <2>5
<1>6. found = Body(found)
  <2>. HIDE DEF Body
  <2>. QED  BY <1>5
<1>. HIDE DEF found, step
<1>7. found[0] = <<>>
  BY <1>2, <1>6
<1>8. \A n \in 1 .. len :
        found[n] = IF TextLike(contours[n]) THEN Append(found[n - 1], contours[n])
                   ELSE found[n - 1]
  <2>. SUFFICES ASSUME NEW n \in 1 .. len
                PROVE  found[n] = IF TextLike(contours[n])
                                  THEN Append(found[n - 1], contours[n])
                                  ELSE found[n - 1]
    OBVIOUS
  <2>1. n \in 0 .. Len(contours) /\ n # 0
    BY <1>2
  <2>2. Body(found)[n] = IF TextLike(contours[n])
                         THEN Append(found[n - 1], contours[n])
                         ELSE found[n - 1]
    BY <2>1
  <2>. HIDE DEF Body
  <2>. QED  BY <1>6, <2>2
<1>. HIDE DEF len
<1>. DEFINE N == {n \in Nat : n <= len => HasFound(found[n], contours, n)}
<1>9. 0 \in N
  <2>1. <<>> \in Seq(Box) /\ Len(<<>>) = 0
    BY EmptySeq
  <2>2. \A m \in DOMAIN <<>> : FALSE
    OBVIOUS
  <2>3. \A k \in 1 .. 0 : FALSE
    OBVIOUS
  <2>4. HasFound(<<>>, contours, 0)
    BY <2>1, <2>2, <2>3 DEF HasFound
  <2>. QED  BY <1>7, <2>4
<1>10. ASSUME NEW n \in Nat, n \in N PROVE n + 1 \in N
  <2>. SUFFICES ASSUME n + 1 <= len PROVE HasFound(found[n + 1], contours, n + 1)
    OBVIOUS
  <2>1. n <= len /\ n + 1 \in 1 .. len /\ (n + 1) - 1 = n
    BY <1>2
  <2>2. HasFound(found[n], contours, n)
    BY <1>10, <2>1
  <2>3. found[n + 1] = IF TextLike(contours[n + 1])
                       THEN Append(found[n], contours[n + 1]) ELSE found[n]
    BY <1>8, <2>1
  <2>. QED  BY <1>3, <2>1, <2>2, <2>3, OneMoreFound
<1>11. len \in N
  <2>. HIDE DEF N
  <2>. QED  BY <1>2, <1>9, <1>10, NumberInduction
<1>12. HasFound(found[len], contours, len)
  BY <1>2, <1>11
<1>. QED  BY <1>1, <1>12 DEF len

-----------------------------------------------------------------------------
(* Merging.                                                                 *)

LEMMA LesserAndGreater ==
  ASSUME NEW a \in Int, NEW b \in Int
  PROVE  /\ Lesser(a, b) = Lesser(b, a) /\ Greater(a, b) = Greater(b, a)
         /\ Lesser(a, b) \in Int /\ Greater(a, b) \in Int
         /\ Lesser(a, b) <= a /\ Lesser(a, b) <= b
         /\ a <= Greater(a, b) /\ b <= Greater(a, b)
         /\ Lesser(a, b) \in {a, b} /\ Greater(a, b) \in {a, b}
BY DEF Lesser, Greater

LEMMA BoxFields ==
  ASSUME NEW b \in Box
  PROVE  /\ b.left \in Int /\ b.top \in Int /\ b.right \in Int /\ b.bottom \in Int
         /\ Width(b) \in Int /\ Height(b) \in Int /\ Area(b) \in Int
<1>1. b.left \in Int /\ b.top \in Int /\ b.right \in Int /\ b.bottom \in Int
  BY DEF Box
<1>2. Width(b) \in Int /\ Height(b) \in Int
  BY <1>1 DEF Width, Height
<1>3. Area(b) \in Int
  BY <1>2 DEF Area
<1>. QED  BY <1>1, <1>2, <1>3

LEMMA OverlapsBothWays ==
  ASSUME NEW a \in Box, NEW b \in Box
  PROVE  /\ HorizontalOverlap(a, b) = HorizontalOverlap(b, a)
         /\ VerticalOverlap(a, b) = VerticalOverlap(b, a)
         /\ NarrowerWidth(a, b) = NarrowerWidth(b, a)
BY BoxFields, LesserAndGreater
   DEF HorizontalOverlap, VerticalOverlap, NarrowerWidth

LEMMA MergesBothWays ==
  ASSUME NEW a \in Box, NEW b \in Box
  PROVE  ShouldMergeBoxes(a, b) <=> ShouldMergeBoxes(b, a)
<1>1. Lesser(Area(a), Area(b)) = Lesser(Area(b), Area(a))
  BY BoxFields, LesserAndGreater
<1>2. Lesser(Height(a), Height(b)) = Lesser(Height(b), Height(a))
  BY BoxFields, LesserAndGreater
<1>3. /\ Greater(a.top, b.top) = Greater(b.top, a.top)
      /\ Lesser(a.bottom, b.bottom) = Lesser(b.bottom, a.bottom)
  BY BoxFields, LesserAndGreater
<1>4. BoxesOverlap(a, b) <=> BoxesOverlap(b, a)
  BY <1>1, OverlapsBothWays DEF BoxesOverlap
<1>. QED  BY <1>2, <1>3, <1>4, OverlapsBothWays DEF ShouldMergeBoxes

LEMMA AroundBoth ==
  ASSUME NEW a \in Box, NEW b \in Box
  PROVE  /\ Around(a, b) \in Box
         /\ Inside(a, Around(a, b)) /\ Inside(b, Around(a, b))
         /\ Proper(a) /\ Proper(b) => Proper(Around(a, b))
<1>. DEFINE c == Around(a, b)
<1>1. /\ c.left = Lesser(a.left, b.left) /\ c.top = Lesser(a.top, b.top)
      /\ c.right = Greater(a.right, b.right)
      /\ c.bottom = Greater(a.bottom, b.bottom)
      /\ c = [left |-> c.left, top |-> c.top, right |-> c.right,
              bottom |-> c.bottom]
  BY DEF Around, B
<1>2. /\ a.left \in Int /\ a.top \in Int /\ a.right \in Int /\ a.bottom \in Int
      /\ b.left \in Int /\ b.top \in Int /\ b.right \in Int /\ b.bottom \in Int
  BY BoxFields
<1>. HIDE DEF c
<1>3. c \in Box
  <2>1. c.left \in Int /\ c.top \in Int /\ c.right \in Int /\ c.bottom \in Int
    BY <1>1, <1>2, LesserAndGreater
  <2>. QED  BY <1>1, <2>1 DEF Box
<1>4. Inside(a, c) /\ Inside(b, c)
  BY <1>1, <1>2, LesserAndGreater DEF Inside
<1>5. ASSUME Proper(a), Proper(b) PROVE Proper(c)
  <2>1. WIDTH \in Nat /\ HEIGHT \in Nat
    BY PageAssumption
  <2>2. 0 <= c.left /\ c.left < c.right /\ c.right <= WIDTH
    BY <1>1, <1>2, <1>5, <2>1 DEF Proper, Lesser, Greater
  <2>3. 0 <= c.top /\ c.top < c.bottom /\ c.bottom <= HEIGHT
    BY <1>1, <1>2, <1>5, <2>1 DEF Proper, Lesser, Greater
  <2>. QED  BY <2>2, <2>3 DEF Proper
<1>. QED  BY <1>3, <1>4, <1>5 DEF c

LEMMA InsideOfInside ==
  ASSUME NEW a \in Box, NEW b \in Box, NEW c \in Box, Inside(a, b), Inside(b, c)
  PROVE  Inside(a, c)
BY BoxFields DEF Inside

LEMMA InsideItself ==
  ASSUME NEW a \in Box
  PROVE  Inside(a, a)
BY BoxFields DEF Inside

(* What the first n of boxes have become: g.box and g.rest.                 *)
HasAbsorbed(g, some, n) ==
  /\ g.box \in Box /\ Proper(g.box) /\ g.rest \in Seq(Box)
  /\ Len(g.rest) <= n - 1
  /\ \A m \in DOMAIN g.rest : Proper(g.rest[m])
  /\ \A k \in 1 .. n :
       \/ Inside(some[k], g.box)
       \/ \E m \in DOMAIN g.rest : g.rest[m] = some[k]
  /\ Len(g.rest) = n - 1 =>
       /\ g.box = some[1]
       /\ \A m \in 1 .. n - 1 : /\ g.rest[m] = some[m + 1]
                                /\ ~ShouldMergeBoxes(some[1], some[m + 1])

LEMMA NoneAbsorbed ==
  ASSUME NEW some \in Seq(Box), 1 \in DOMAIN some, Proper(some[1])
  PROVE  HasAbsorbed([box |-> some[1], rest |-> <<>>], some, 1)
<1>. DEFINE g == [box |-> some[1], rest |-> <<>>]
<1>1. some[1] \in Box
  BY LenProperties, ElementOfSeq
<1>2. g.box = some[1] /\ g.rest = <<>>
  OBVIOUS
<1>3. <<>> \in Seq(Box) /\ Len(<<>>) = 0
  BY EmptySeq
<1>4. \A m \in DOMAIN <<>> : FALSE
  OBVIOUS
<1>5. \A k \in 1 .. 1 : Inside(some[k], some[1])
  BY <1>1, InsideItself
<1>6. \A m \in 1 .. 1 - 1 : FALSE
  OBVIOUS
<1>. HIDE DEF g
<1>7. HasAbsorbed(g, some, 1)
  BY <1>1, <1>2, <1>3, <1>4, <1>5, <1>6 DEF HasAbsorbed
<1>. QED  BY <1>7 DEF g

LEMMA OneMoreAbsorbed ==
  ASSUME NEW some \in Seq(Box), NEW n \in Nat \ {0}, n + 1 \in DOMAIN some,
         \A k \in DOMAIN some : Proper(some[k]),
         NEW g, HasAbsorbed(g, some, n)
  PROVE  HasAbsorbed(IF ShouldMergeBoxes(g.box, some[n + 1])
                     THEN [box |-> Around(g.box, some[n + 1]), rest |-> g.rest]
                     ELSE [box |-> g.box, rest |-> Append(g.rest, some[n + 1])],
                     some, n + 1)
<1>. DEFINE b == some[n + 1]
            l == Len(g.rest)
<1>1. /\ b \in Box /\ Proper(b)
      /\ \A k \in 1 .. n + 1 : some[k] \in Box
  BY LenProperties, ElementOfSeq
<1>2. /\ g.box \in Box /\ Proper(g.box) /\ g.rest \in Seq(Box) /\ l <= n - 1
      /\ \A m \in DOMAIN g.rest : Proper(g.rest[m])
  BY DEF HasAbsorbed
<1>3. \A k \in 1 .. n : \/ Inside(some[k], g.box)
                        \/ \E m \in DOMAIN g.rest : g.rest[m] = some[k]
  BY DEF HasAbsorbed
<1>4. l = n - 1 =>
        /\ g.box = some[1]
        /\ \A m \in 1 .. n - 1 : /\ g.rest[m] = some[m + 1]
                                 /\ ~ShouldMergeBoxes(some[1], some[m + 1])
  BY DEF HasAbsorbed
<1>5. /\ \A k \in 1 .. n + 1 : k \in 1 .. n \/ k = n + 1
      /\ l \in Nat /\ DOMAIN g.rest = 1 .. l
  BY <1>2, LenProperties
<1>6. CASE ShouldMergeBoxes(g.box, b)
  <2>. DEFINE c == Around(g.box, b)
              h == [box |-> c, rest |-> g.rest]
  <2>1. /\ c \in Box /\ Proper(c) /\ Inside(g.box, c) /\ Inside(b, c)
    BY <1>1, <1>2, AroundBoth
  <2>. HIDE DEF c
  <2>2. h.box = c /\ h.rest = g.rest
    OBVIOUS
  <2>. HIDE DEF h
  <2>3. \A k \in 1 .. n + 1 : \/ Inside(some[k], c)
                              \/ \E m \in DOMAIN g.rest : g.rest[m] = some[k]
    <3>. SUFFICES ASSUME NEW k \in 1 .. n + 1, ~Inside(some[k], c)
                  PROVE  \E m \in DOMAIN g.rest : g.rest[m] = some[k]
      OBVIOUS
    <3>1. k \in 1 .. n
      BY <1>5, <2>1
    <3>2. some[k] \in Box
      BY <1>1
    <3>3. ~Inside(some[k], g.box)
      BY <1>2, <2>1, <3>2, InsideOfInside
    <3>. QED  BY <1>3, <3>1, <3>3
  <2>4. l <= (n + 1) - 1 /\ l # (n + 1) - 1
    BY <1>2, <1>5
  <2>5. HasAbsorbed(h, some, n + 1)
    <3>. HIDE DEF b
    <3>. QED  BY <1>2, <2>1, <2>2, <2>3, <2>4 DEF HasAbsorbed
  <2>. QED  BY <1>6, <2>5 DEF h, c
<1>7. CASE ~ShouldMergeBoxes(g.box, b)
  <2>. DEFINE r == Append(g.rest, b)
              h == [box |-> g.box, rest |-> r]
  <2>1. /\ r \in Seq(Box) /\ DOMAIN r = 1 .. l + 1 /\ Len(r) = l + 1
        /\ r[l + 1] = b /\ \A i \in 1 .. l : r[i] = g.rest[i]
    BY <1>1, <1>2, OneMore
  <2>. HIDE DEF r, b, l
  <2>2. h.box = g.box /\ h.rest = r
    OBVIOUS
  <2>. HIDE DEF h
  <2>3. /\ l + 1 \in DOMAIN r /\ \A m \in DOMAIN r : m = l + 1 \/ m \in 1 .. l
        /\ \A m \in 1 .. l : m \in DOMAIN r
    BY <1>5, <2>1
  <2>4. \A m \in DOMAIN r : Proper(r[m])
    BY <1>1, <1>2, <1>5, <2>1, <2>3
  <2>5. \A k \in 1 .. n + 1 : \/ Inside(some[k], g.box)
                              \/ \E m \in DOMAIN r : r[m] = some[k]
    <3>. SUFFICES ASSUME NEW k \in 1 .. n + 1, ~Inside(some[k], g.box)
                  PROVE  \E m \in DOMAIN r : r[m] = some[k]
      OBVIOUS
    <3>1. CASE k = n + 1
      BY <2>1, <2>3, <3>1 DEF b
    <3>2. CASE k \in 1 .. n
      BY <1>3, <1>5, <2>1, <2>3, <3>2
    <3>. QED  BY <1>5, <3>1, <3>2
  <2>6. ASSUME l + 1 = (n + 1) - 1
        PROVE  /\ g.box = some[1]
               /\ \A m \in 1 .. (n + 1) - 1 :
                    /\ r[m] = some[m + 1]
                    /\ ~ShouldMergeBoxes(some[1], some[m + 1])
    <3>1. l = n - 1
      BY <1>5, <2>6
    <3>2. g.box = some[1]
      BY <1>4, <3>1
    <3>. SUFFICES ASSUME NEW m \in 1 .. n
                  PROVE  /\ r[m] = some[m + 1]
                         /\ ~ShouldMergeBoxes(some[1], some[m + 1])
      <4>1. (n + 1) - 1 = n
        OBVIOUS
      <4>. QED  BY <3>2, <4>1
    <3>3. CASE m = n
      <4>1. m = l + 1
        BY <3>1, <3>3
      <4>2. r[m] = b
        BY <2>1, <4>1
      <4>3. b = some[m + 1]
        BY <3>3 DEF b
      <4>. QED  BY <1>7, <3>2, <4>2, <4>3
    <3>4. CASE m # n
      <4>1. m \in 1 .. n - 1 /\ m \in 1 .. l
        BY <3>1, <3>4
      <4>. QED  BY <1>4, <2>1, <3>1, <4>1
    <3>. QED  BY <3>3, <3>4
  <2>7. l + 1 <= (n + 1) - 1
    BY <1>2, <1>5
  <2>8. HasAbsorbed(h, some, n + 1)
    BY <1>2, <2>1, <2>2, <2>4, <2>5, <2>6, <2>7 DEF HasAbsorbed
  <2>. QED  BY <1>7, <2>8 DEF h, r, b
<1>. QED  BY <1>6, <1>7 DEF b

LEMMA AbsorbedBoxes ==
  ASSUME NEW some \in Seq(Box), some # <<>>,
         \A k \in DOMAIN some : Proper(some[k])
  PROVE  HasAbsorbed(Absorbed(some), some, Len(some))
<1>. DEFINE len == Len(some)
            First == [box |-> some[1], rest |-> <<>>]
            Then(g, b) ==
              IF ShouldMergeBoxes(g.box, b)
              THEN [box |-> Around(g.box, b), rest |-> g.rest]
              ELSE [box |-> g.box, rest |-> Append(g.rest, b)]
            Body(g) ==
              [n \in DOMAIN some |->
                 IF n = 1 THEN [box |-> some[1], rest |-> <<>>]
                 ELSE IF ShouldMergeBoxes(g[n - 1].box, some[n])
                 THEN [box |-> Around(g[n - 1].box, some[n]),
                       rest |-> g[n - 1].rest]
                 ELSE [box |-> g[n - 1].box,
                       rest |-> Append(g[n - 1].rest, some[n])]]
            grown == CHOOSE g : g = Body(g)
            V == [box: Box, rest: Seq(Box)]
            step == [x \in V \X Int |->
                       IF x[2] \in 1 .. len THEN Then(x[1], some[x[2]]) ELSE x[1]]
<1>1. Absorbed(some) = grown[len]
  BY DEF Absorbed
<1>2. /\ len \in Nat \ {0} /\ DOMAIN some = 1 .. len /\ 1 \in DOMAIN some
      /\ \A n \in 1 .. len : some[n] \in Box
  BY EmptySeq, LenProperties, ElementOfSeq
<1>3. ASSUME NEW g \in V, NEW b \in Box PROVE Then(g, b) \in V
  <2>1. g.box \in Box /\ g.rest \in Seq(Box)
    OBVIOUS
  <2>2. Around(g.box, b) \in Box /\ Append(g.rest, b) \in Seq(Box)
    BY <2>1, AroundBoth, AppendProperties
  <2>. QED  BY <2>1, <2>2
<1>4. ASSUME NEW g, NEW n \in 1 .. len
      PROVE  Body(g)[n] = IF n = 1 THEN First ELSE Then(g[n - 1], some[n])
  BY <1>2
<1>5. First \in V
  <2>1. <<>> \in Seq(Box) /\ some[1] \in Box
    BY <1>2, EmptySeq
  <2>. QED  BY <2>1
<1>. HIDE DEF First, Then
<1>6. step \in [V \X Int -> V]
  <2>. SUFFICES ASSUME NEW x \in V \X Int
                PROVE  (IF x[2] \in 1 .. len THEN Then(x[1], some[x[2]])
                        ELSE x[1]) \in V
    OBVIOUS
  <2>. HIDE DEF V
  <2>1. x[1] \in V
    OBVIOUS
  <2>. QED  BY <1>2, <1>3, <2>1
<1>7. \E g : g = Body(g)
  <2>1. PICK f : Steps(f, V, 1, len, First, step)
    <3>1. 1 \in Int /\ len \in Int /\ 1 <= len
      BY <1>2
    <3>. HIDE DEF step, len, V
    <3>. QED  BY <1>5, <1>6, <3>1, StepsExist
  <2>2. f \in [1 .. len -> V] /\ f[1] = First
    BY <2>1 DEF Steps
  <2>3. \A n \in 1 + 1 .. len : f[n] = step[<<f[n - 1], n>>]
    BY <2>1 DEF Steps
  <2>4. ASSUME NEW n \in 1 .. len, n # 1 PROVE f[n] = Then(f[n - 1], some[n])
    <3>1. n - 1 \in 1 .. len /\ n \in 1 + 1 .. len
      BY <1>2, <2>4
    <3>2. <<f[n - 1], n>> \in V \X Int
      <4>. HIDE DEF V
      <4>. QED  BY <2>2, <3>1
    <3>. HIDE DEF V
    <3>. QED  BY <2>3, <3>1, <3>2
  <2>5. f = Body(f)
    <3>1. \A n \in 1 .. len : f[n] = Body(f)[n]
      <4>. HIDE DEF Body
      <4>. QED  BY <1>4, <2>2, <2>4
    <3>2. DOMAIN f = 1 .. len /\ f = [n \in 1 .. len |-> f[n]]
      <4>. HIDE DEF V
      <4>. QED  BY <2>2
    <3>3. Body(f) = [n \in 1 .. len |-> Body(f)[n]]
      BY <1>2
    <3>. HIDE DEF Body
    <3>. QED  BY <3>1, <3>2, <3>3
  <2>. QED  BY <2>5
<1>8. grown = Body(grown)
  <2>. HIDE DEF Body
  <2>. QED  BY <1>7
<1>. HIDE DEF grown, Body
<1>9. /\ grown[1] = First
      /\ \A n \in 1 .. len : n # 1 => grown[n] = Then(grown[n - 1], some[n])
  BY <1>2, <1>4, <1>8
<1>. HIDE DEF len
<1>. DEFINE N == {n \in Nat : n + 1 <= len => HasAbsorbed(grown[n + 1], some, n + 1)}
<1>10. 0 \in N
  <2>1. HasAbsorbed(First, some, 1)
    BY <1>2, NoneAbsorbed DEF First
  <2>. QED  BY <1>9, <2>1
<1>11. ASSUME NEW n \in Nat, n \in N PROVE n + 1 \in N
  <2>. SUFFICES ASSUME (n + 1) + 1 <= len
                PROVE  HasAbsorbed(grown[(n + 1) + 1], some, (n + 1) + 1)
    OBVIOUS
  <2>. DEFINE m == n + 1
  <2>1. m \in Nat \ {0} /\ m + 1 \in 1 .. len /\ m + 1 # 1 /\ (m + 1) - 1 = m
    BY <1>2
  <2>2. HasAbsorbed(grown[m], some, m)
    BY <1>2, <1>11
  <2>. HIDE DEF m
  <2>3. grown[m + 1] = Then(grown[m], some[m + 1])
    BY <1>9, <2>1
  <2>4. HasAbsorbed(Then(grown[m], some[m + 1]), some, m + 1)
    BY <1>2, <2>1, <2>2, OneMoreAbsorbed DEF Then
  <2>. QED  BY <2>3, <2>4 DEF m
<1>12. len - 1 \in N
  <2>1. len - 1 \in Nat
    BY <1>2
  <2>. HIDE DEF N
  <2>. QED  BY <1>10, <1>11, <2>1, NumberInduction
<1>13. HasAbsorbed(grown[len], some, len)
  <2>1. (len - 1) + 1 = len
    BY <1>2
  <2>. QED  BY <1>2, <1>12, <2>1
<1>. QED  BY <1>1, <1>13 DEF len

-----------------------------------------------------------------------------
(* Padding.                                                                 *)

ProperBoxes(s) == s \in Seq(Box) /\ \A k \in DOMAIN s : Proper(s[k])

LEMMA HalfOfGap ==
  ASSUME NEW gap \in Int
  PROVE  HalfOf(gap) \in Nat /\ (gap >= 0 => 2 * HalfOf(gap) <= gap)
BY DEF HalfOf, Lesser, Greater

LEMMA GreatestOf ==
  ASSUME NEW D, IsFiniteSet(D), NEW f \in [D -> Int], NEW z \in Int
  PROVE  /\ Greatest({z} \cup {f[x] : x \in D}) \in Int
         /\ \A x \in D : f[x] <= Greatest({z} \cup {f[x_1] : x_1 \in D})
<1>. DEFINE T == {f[x] : x \in D}
            S == {z} \cup T
<1>1. IsFiniteSet(T)
  <2>1. f \in Surjection(D, T)
    BY DEF Surjection
  <2>. HIDE DEF T
  <2>. QED  BY <2>1, FS_Surjection
<1>2. S \in SUBSET Int /\ S # {} /\ \A x \in D : f[x] \in S
  OBVIOUS
<1>3. IsFiniteSet(S)
  <2>1. IsFiniteSet({z})
    BY FS_Singleton
  <2>. HIDE DEF T
  <2>. QED  BY <1>1, <2>1, FS_Union
<1>. HIDE DEF S
<1>4. \E m \in S : \A y \in S : y <= m
  BY <1>2, <1>3, GreatestExists
<1>5. Greatest(S) \in S /\ \A y \in S : y <= Greatest(S)
  BY <1>4 DEF Greatest
<1>6. Greatest(S) \in Int /\ \A x \in D : f[x] <= Greatest(S)
  BY <1>2, <1>5
<1>. QED  BY <1>6 DEF S

LEMMA SmallestOf ==
  ASSUME NEW D, IsFiniteSet(D), NEW f \in [D -> Int], NEW z \in Int
  PROVE  /\ Smallest({z} \cup {f[x] : x \in D}) \in Int
         /\ \A x \in D : Smallest({z} \cup {f[x_1] : x_1 \in D}) <= f[x]
<1>. DEFINE T == {f[x] : x \in D}
            S == {z} \cup T
<1>1. IsFiniteSet(T)
  <2>1. f \in Surjection(D, T)
    BY DEF Surjection
  <2>. HIDE DEF T
  <2>. QED  BY <2>1, FS_Surjection
<1>2. S \in SUBSET Int /\ S # {} /\ \A x \in D : f[x] \in S
  OBVIOUS
<1>3. IsFiniteSet(S)
  <2>1. IsFiniteSet({z})
    BY FS_Singleton
  <2>. HIDE DEF T
  <2>. QED  BY <1>1, <2>1, FS_Union
<1>. HIDE DEF S
<1>4. \E m \in S : \A y \in S : m <= y
  BY <1>2, <1>3, LeastExists
<1>5. Smallest(S) \in S /\ \A y \in S : Smallest(S) <= y
  BY <1>4 DEF Smallest
<1>6. Smallest(S) \in Int /\ \A x \in D : Smallest(S) <= f[x]
  BY <1>2, <1>5
<1>. QED  BY <1>6 DEF S

Above(some, k) == {n \in Neighbours(some, k) : some[n].bottom <= some[k].top}
Below(some, k) == {n \in Neighbours(some, k) : some[n].top >= some[k].bottom}
Up(some, k) == Greatest({0} \cup {some[n].bottom : n \in Above(some, k)})
Down(some, k) == Smallest({HEIGHT} \cup {some[n].top : n \in Below(some, k)})

LEMMA EdgesOfGaps ==
  ASSUME NEW some \in Seq(Box), NEW k \in DOMAIN some
  PROVE  /\ Up(some, k) \in Int
         /\ \A n \in Above(some, k) : some[n].bottom <= Up(some, k)
         /\ Down(some, k) \in Int
         /\ \A n \in Below(some, k) : Down(some, k) <= some[n].top
<1>. DEFINE A == Above(some, k)
            L == Below(some, k)
            f == [n \in A |-> some[n].bottom]
            g == [n \in L |-> some[n].top]
<1>1. DOMAIN some = 1 .. Len(some) /\ Len(some) \in Nat
  BY LenProperties
<1>2. IsFiniteSet(DOMAIN some)
  BY <1>1, FS_Interval
<1>3. A \in SUBSET DOMAIN some /\ L \in SUBSET DOMAIN some
  BY DEF Above, Below, Neighbours
<1>4. \A n \in DOMAIN some : some[n].top \in Int /\ some[n].bottom \in Int
  <2>1. \A n \in DOMAIN some : some[n] \in Box
    BY <1>1, ElementOfSeq
  <2>. QED  BY <2>1, BoxFields
<1>. HIDE DEF A, L
<1>5. IsFiniteSet(A) /\ IsFiniteSet(L)
  BY <1>2, <1>3, FS_Subset
<1>6. f \in [A -> Int] /\ g \in [L -> Int]
  BY <1>3, <1>4
<1>7. /\ {some[n].bottom : n \in A} = {f[n] : n \in A}
      /\ {some[n].top : n \in L} = {g[n] : n \in L}
      /\ \A n \in A : f[n] = some[n].bottom
      /\ \A n \in L : g[n] = some[n].top
  OBVIOUS
<1>. HIDE DEF f, g
<1>8. HEIGHT \in Int /\ 0 \in Int
  BY PageAssumption
<1>9. /\ Greatest({0} \cup {f[n] : n \in A}) \in Int
      /\ \A n \in A : f[n] <= Greatest({0} \cup {f[x] : x \in A})
  BY <1>5, <1>6, <1>8, GreatestOf
<1>10. /\ Smallest({HEIGHT} \cup {g[n] : n \in L}) \in Int
       /\ \A n \in L : Smallest({HEIGHT} \cup {g[x] : x \in L}) <= g[n]
  BY <1>5, <1>6, <1>8, SmallestOf
<1>11. /\ Up(some, k) = Greatest({0} \cup {f[n] : n \in A})
       /\ Down(some, k) = Smallest({HEIGHT} \cup {g[n] : n \in L})
  BY <1>7 DEF Up, Down, A, L
<1>. QED  BY <1>7, <1>9, <1>10, <1>11 DEF A, L

LEMMA PaddedFields ==
  ASSUME NEW some, ProperBoxes(some), NEW k \in DOMAIN some
  PROVE  LET p == PaddedBox(some, k)
             b == some[k]
         IN  /\ p \in Box /\ Proper(p) /\ Inside(b, p)
             /\ p.top = Greater(0, b.top - HalfOf(b.top - Up(some, k)))
             /\ p.bottom = Lesser(HEIGHT, b.bottom + HalfOf(Down(some, k) - b.bottom))
<1>. DEFINE p == PaddedBox(some, k)
            b == some[k]
            s == Lesser(30, Greater(12, Width(b) \div 40))
            up == HalfOf(b.top - Up(some, k))
            down == HalfOf(Down(some, k) - b.bottom)
<1>1. some \in Seq(Box) /\ b \in Box /\ Proper(b)
  BY LenProperties, ElementOfSeq DEF ProperBoxes
<1>2. /\ b.left \in Int /\ b.top \in Int /\ b.right \in Int /\ b.bottom \in Int
      /\ Width(b) \in Int
  BY <1>1, BoxFields
<1>3. up \in Nat /\ down \in Nat
  <2>1. Up(some, k) \in Int /\ Down(some, k) \in Int
    BY <1>1, EdgesOfGaps
  <2>2. b.top - Up(some, k) \in Int /\ Down(some, k) - b.bottom \in Int
    BY <1>2, <2>1
  <2>. QED  BY <2>2, HalfOfGap
<1>4. s \in Nat
  <2>1. Width(b) \div 40 \in Int
    BY <1>2
  <2>. QED  BY <2>1 DEF Lesser, Greater
<1>5. p = Padded(b, s, up, s, down)
  BY DEF PaddedBox, Up, Down, Above, Below
<1>6. WIDTH \in Nat /\ HEIGHT \in Nat
  BY PageAssumption
<1>. HIDE DEF p, s, up, down
<1>7. p = [left |-> Greater(0, b.left - s), top |-> Greater(0, b.top - up),
           right |-> Lesser(WIDTH, b.right + s),
           bottom |-> Lesser(HEIGHT, b.bottom + down)]
  BY <1>5 DEF Padded, B
<1>8. /\ p.left = Greater(0, b.left - s) /\ p.top = Greater(0, b.top - up)
      /\ p.right = Lesser(WIDTH, b.right + s)
      /\ p.bottom = Lesser(HEIGHT, b.bottom + down)
  BY <1>7
<1>. HIDE DEF b
<1>9. /\ 0 <= b.left /\ b.left < b.right /\ b.right <= WIDTH
      /\ 0 <= b.top /\ b.top < b.bottom /\ b.bottom <= HEIGHT
  BY <1>1 DEF Proper
<1>10. p.left \in Int /\ 0 <= p.left /\ p.left <= b.left
  BY <1>2, <1>4, <1>8, <1>9 DEF Greater
<1>11. p.top \in Int /\ 0 <= p.top /\ p.top <= b.top
  BY <1>2, <1>3, <1>8, <1>9 DEF Greater
<1>12. p.right \in Int /\ b.right <= p.right /\ p.right <= WIDTH
  BY <1>2, <1>4, <1>6, <1>8, <1>9 DEF Lesser
<1>13. p.bottom \in Int /\ b.bottom <= p.bottom /\ p.bottom <= HEIGHT
  BY <1>2, <1>3, <1>6, <1>8, <1>9 DEF Lesser
<1>14. p \in Box
  BY <1>7, <1>8, <1>10, <1>11, <1>12, <1>13 DEF Box
<1>15. Inside(b, p)
  BY <1>10, <1>11, <1>12, <1>13 DEF Inside
<1>16. Proper(p)
  BY <1>2, <1>6, <1>9, <1>10, <1>11, <1>12, <1>13 DEF Proper
<1>. QED  BY <1>8, <1>14, <1>15, <1>16 DEF p, b, up, down

(* Two boxes that are neighbours share the gap between them.                *)
LEMMA GapsAreShared ==
  ASSUME NEW some, ProperBoxes(some), NEW i \in DOMAIN some, NEW j \in DOMAIN some,
         j \in Neighbours(some, i), some[i].bottom <= some[j].top
  PROVE  PaddedBox(some, i).bottom <= PaddedBox(some, j).top
<1>. DEFINE a == some[i].bottom
            b == some[j].top
            up == HalfOf(b - Up(some, j))
            down == HalfOf(Down(some, i) - a)
<1>1. some \in Seq(Box) /\ some[i] \in Box /\ some[j] \in Box
  BY LenProperties, ElementOfSeq DEF ProperBoxes
<1>2. a \in Int /\ b \in Int /\ a <= b
  BY <1>1, BoxFields
<1>3. i \in Neighbours(some, j)
  BY <1>1, OverlapsBothWays DEF Neighbours
<1>4. i \in Above(some, j) /\ j \in Below(some, i)
  BY <1>2, <1>3 DEF Above, Below
<1>5. /\ Up(some, j) \in Int /\ a <= Up(some, j)
      /\ Down(some, i) \in Int /\ Down(some, i) <= b
  BY <1>1, <1>4, EdgesOfGaps
<1>6. PaddedBox(some, i).bottom = Lesser(HEIGHT, a + down)
  BY PaddedFields
<1>7. PaddedBox(some, j).top = Greater(0, b - up)
  BY PaddedFields
<1>. HIDE DEF a, b
<1>8. /\ up \in Nat /\ (b - Up(some, j) >= 0 => 2 * up <= b - Up(some, j))
      /\ down \in Nat
      /\ (Down(some, i) - a >= 0 => 2 * down <= Down(some, i) - a)
  <2>1. b - Up(some, j) \in Int /\ Down(some, i) - a \in Int
    BY <1>2, <1>5
  <2>. QED  BY <2>1, HalfOfGap
<1>9. 2 * up <= b - a
  <2>1. CASE b - Up(some, j) >= 0
    <3>. HIDE DEF up
    <3>. QED  BY <1>2, <1>5, <1>8, <2>1
  <2>2. CASE b - Up(some, j) < 0
    <3>1. up = 0
      BY <1>2, <1>5, <2>2 DEF HalfOf, Lesser, Greater
    <3>. QED  BY <1>2, <3>1
  <2>. QED  BY <1>2, <1>5, <2>1, <2>2
<1>10. 2 * down <= b - a
  <2>1. CASE Down(some, i) - a >= 0
    <3>. HIDE DEF down
    <3>. QED  BY <1>2, <1>5, <1>8, <2>1
  <2>2. CASE Down(some, i) - a < 0
    <3>1. down = 0
      BY <1>2, <1>5, <2>2 DEF HalfOf, Lesser, Greater
    <3>. QED  BY <1>2, <3>1
  <2>. QED  BY <1>2, <1>5, <2>1, <2>2
<1>. HIDE DEF up, down
<1>11. a + down <= b - up
  BY <1>2, <1>8, <1>9, <1>10
<1>12. HEIGHT \in Nat
  BY PageAssumption
<1>. QED  BY <1>2, <1>6, <1>7, <1>8, <1>11, <1>12 DEF Lesser, Greater

-----------------------------------------------------------------------------
(* The invariant.                                                           *)

(* No two of the boxes of a pass are to be merged, or with one left to it,  *)
(* unless the pass merged some.                                             *)
PassedOver ==
  \A i \in DOMAIN merged :
    /\ \A j \in DOMAIN merged :
         i # j => ~ShouldMergeBoxes(merged[i], merged[j])
    /\ \A j \in DOMAIN boxes : ~ShouldMergeBoxes(merged[i], boxes[j])

Covered(contour, s) == \E n \in DOMAIN s : Inside(contour, s[n])

AllCovered ==
  \A k \in DOMAIN page.contours :
    TextLike(page.contours[k]) =>
      Covered(page.contours[k], boxes) \/ Covered(page.contours[k], merged)

PaddedBoxes(s) == [k \in DOMAIN s |-> PaddedBox(s, k)]

MergeInv ==
  /\ page \in Pages
  /\ ProperBoxes(boxes) /\ ProperBoxes(merged)
  /\ stage = "classify" => merged = <<>> /\ ~changed
  /\ stage = "merge" => AllCovered /\ (~changed => PassedOver)
  /\ crops = <<>> \/ (stage \in {"regions", "route", "done"}
                      /\ crops = PaddedBoxes(boxes))

RouterInv ==
  /\ TypeOK
  /\ MergeInv
  /\ NothingLeftToMerge
  /\ AcceptedRegionsAreKept

-----------------------------------------------------------------------------
(* Facts about the sequences of the state.                                  *)

LEMMA PageFields ==
  ASSUME NEW p \in Pages
  PROVE  /\ p \in Page /\ p.native \in Text /\ p.legible \in SUBSET Reading
         /\ ProperBoxes(p.contours)
BY PagesAssumption DEF Page, ProperBoxes

LEMMA PaddedBoxesType ==
  ASSUME NEW s, ProperBoxes(s)
  PROVE  ProperBoxes(PaddedBoxes(s)) /\ DOMAIN PaddedBoxes(s) = DOMAIN s
<1>1. DOMAIN s = 1 .. Len(s) /\ Len(s) \in Nat
  BY LenProperties DEF ProperBoxes
<1>2. \A k \in DOMAIN s : PaddedBox(s, k) \in Box /\ Proper(PaddedBox(s, k))
  BY PaddedFields
<1>3. PaddedBoxes(s) \in [1 .. Len(s) -> Box]
  BY <1>1, <1>2 DEF PaddedBoxes
<1>4. PaddedBoxes(s) \in Seq(Box)
  BY <1>1, <1>3, SeqDef
<1>. QED  BY <1>1, <1>2, <1>4 DEF ProperBoxes, PaddedBoxes

(* Sorting moves boxes and changes none.                                    *)
LEMMA FromAbovePermutes ==
  ASSUME NEW s \in Seq(Box)
  PROVE  FromAbove(s) \in Seq(Box) /\ Permutes(FromAbove(s), s)
<1>. DEFINE Key(k) == <<s[k].top, -s[k].left>>
            key == [k \in DOMAIN s |-> Key(k)]
<1>1. \A k \in DOMAIN s : Key(k) \in Keys(2)
  <2>. SUFFICES ASSUME NEW k \in DOMAIN s PROVE Key(k) \in Keys(2)
    OBVIOUS
  <2>1. s[k] \in Box
    BY LenProperties, ElementOfSeq
  <2>2. s[k].top \in Int /\ -s[k].left \in Int
    BY <2>1, BoxFields
  <2>. QED  BY <2>2 DEF Keys
<1>2. FromAbove(s) = Sorted(s, key)
  BY DEF FromAbove
<1>. HIDE DEF Key
<1>3. key \in [DOMAIN s -> Keys(2)] /\ 2 \in Nat
  BY <1>1
<1>. HIDE DEF key
<1>. QED  BY <1>2, <1>3, SortedPermutes

LEMMA TextsOfFields ==
  ASSUME NEW s \in Seq(Candidate)
  PROVE  /\ DOMAIN s = 1 .. Len(s) /\ Len(s) \in Nat
         /\ DOMAIN TextsOf(s) = DOMAIN s
         /\ \A k \in DOMAIN s : /\ s[k] \in Candidate
                                /\ s[k].text \in Text
                                /\ TextsOf(s)[k] = s[k].text
<1>1. DOMAIN s = 1 .. Len(s) /\ Len(s) \in Nat
  BY LenProperties
<1>2. \A k \in DOMAIN s : s[k] \in Candidate
  BY <1>1, ElementOfSeq
<1>. QED  BY <1>1, <1>2, CandidateFields DEF TextsOf

LEMMA CallType ==
  ASSUME NEW plans \in {PAGE_PLANS, REGION_PLANS}, TypeOK, Call(plans)
  PROVE  /\ plan' \in 0 .. Greater(PAGE_PLANS, REGION_PLANS)
         /\ readings' \in Seq(Reading) /\ Len(readings') <= plan'
<1>1. PAGE_PLANS \in Nat /\ REGION_PLANS \in Nat
  BY PagesAssumption
<1>2. plan \in Nat /\ readings \in Seq(Reading) /\ Len(readings) <= plan
      /\ page.legible \in SUBSET Reading
  BY <1>1 DEF TypeOK, Page, Greater
<1>3. plan < plans /\ plan' = plan + 1
  BY DEF Call
<1>4. plans <= Greater(PAGE_PLANS, REGION_PLANS)
      /\ Greater(PAGE_PLANS, REGION_PLANS) \in Nat /\ plans \in Nat
  BY <1>1 DEF Greater
<1>5. plan' \in 0 .. Greater(PAGE_PLANS, REGION_PLANS)
  BY <1>2, <1>3, <1>4
<1>6. readings' = readings \/ \E r \in page.legible : readings' = Append(readings, r)
  BY DEF Call
<1>7. CASE readings' = readings
  BY <1>2, <1>3, <1>5, <1>7, LenProperties
<1>8. CASE \E r \in page.legible : readings' = Append(readings, r)
  <2>1. PICK r \in page.legible : readings' = Append(readings, r)
    BY <1>8
  <2>2. readings' \in Seq(Reading) /\ Len(readings') = Len(readings) + 1
    BY <1>2, <2>1, AppendProperties
  <2>3. Len(readings) \in Nat
    BY <1>2, LenProperties
  <2>. QED  BY <1>2, <1>3, <1>5, <2>2, <2>3
<1>. QED  BY <1>6, <1>7, <1>8

LEMMA BestType ==
  ASSUME TypeOK
  PROVE  Best \in Candidate \cup {Nil}
<1>1. readings \in Seq(Reading)
  BY DEF TypeOK
<1>. QED  BY <1>1, CandidatesType, BestOfType DEF Best

LEMMA KeptAreNotEmpty ==
  ASSUME TypeOK, AcceptedRegionsAreKept
  PROVE  \A k \in DOMAIN kept : ~Empty(kept[k].text)
BY DEF AcceptedRegionsAreKept, Repeats

LEMMA ReportTypes ==
  /\ \A c \in Candidate, route \in Routes : ReportOf(route, c) \in Report
  /\ page \in Page => NativeReport \in Report /\ NothingRead \in Report
<1>1. ASSUME NEW c \in Candidate, NEW route \in Routes
      PROVE  ReportOf(route, c) \in Report
  <2>1. Passes(c) \in BOOLEAN
    BY DEF Passes
  <2>2. c.text \in Text
    BY CandidateFields
  <2>. QED  BY <2>1, <2>2 DEF ReportOf, Report
<1>2. ASSUME page \in Page PROVE NativeReport \in Report /\ NothingRead \in Report
  <2>1. page.native \in Text
    BY <1>2 DEF Page
  <2>. QED  BY <2>1 DEF NativeReport, NothingRead, Report, Routes
<1>. QED  BY <1>1, <1>2

-----------------------------------------------------------------------------
(* The steps of merging.                                                    *)

LEMMA AbsorbStep ==
  ASSUME TypeOK, MergeInv, Absorb
  PROVE  /\ ProperBoxes(boxes') /\ ProperBoxes(merged') /\ changed' \in BOOLEAN
         /\ AllCovered' /\ (~changed' => PassedOver')
<1>. DEFINE g == Absorbed(boxes)
            l == Len(merged)
            len == Len(boxes)
<1>1. /\ stage = "merge" /\ boxes # <<>> /\ page' = page
      /\ merged' = Append(merged, g.box) /\ boxes' = g.rest
      /\ changed' = (changed \/ Len(g.rest) < len - 1)
  BY DEF Absorb
<1>2. /\ ProperBoxes(boxes) /\ ProperBoxes(merged)
      /\ AllCovered /\ (~changed => PassedOver) /\ page \in Pages
  BY <1>1 DEF MergeInv
<1>3. /\ boxes \in Seq(Box) /\ merged \in Seq(Box) /\ changed \in BOOLEAN
      /\ DOMAIN boxes = 1 .. len /\ len \in Nat \ {0}
      /\ \A k \in DOMAIN boxes : boxes[k] \in Box
      /\ \A k \in DOMAIN merged : merged[k] \in Box
  BY <1>1, <1>2, LenProperties, ElementOfSeq, EmptySeq DEF TypeOK, ProperBoxes
<1>4. HasAbsorbed(g, boxes, len)
  BY <1>1, <1>2, AbsorbedBoxes DEF ProperBoxes
<1>. HIDE DEF g
<1>5. /\ g.box \in Box /\ Proper(g.box) /\ g.rest \in Seq(Box)
      /\ Len(g.rest) <= len - 1
      /\ \A m \in DOMAIN g.rest : Proper(g.rest[m])
  BY <1>4 DEF HasAbsorbed
<1>6. \A k \in 1 .. len :
        \/ Inside(boxes[k], g.box)
        \/ \E m \in DOMAIN g.rest : g.rest[m] = boxes[k]
  BY <1>4 DEF HasAbsorbed
<1>7. /\ l \in Nat /\ DOMAIN merged = 1 .. l /\ DOMAIN merged' = 1 .. l + 1
      /\ merged' \in Seq(Box)
      /\ \A i \in 1 .. l : merged'[i] = merged[i]
      /\ merged'[l + 1] = g.box
  BY <1>1, <1>3, <1>5, OneMore
<1>. HIDE DEF l, len
<1>8. /\ \A i \in DOMAIN merged' : i \in 1 .. l \/ i = l + 1
      /\ \A i \in 1 .. l : i \in DOMAIN merged' /\ i # l + 1
      /\ l + 1 \in DOMAIN merged'
  BY <1>7
<1>9. ProperBoxes(boxes')
  BY <1>1, <1>5 DEF ProperBoxes
<1>10. ProperBoxes(merged')
  <2>1. \A i \in DOMAIN merged' : Proper(merged'[i])
    BY <1>2, <1>5, <1>7, <1>8 DEF ProperBoxes
  <2>. QED  BY <1>7, <2>1 DEF ProperBoxes
<1>11. AllCovered'
  <2>. SUFFICES ASSUME NEW k \in DOMAIN page.contours, TextLike(page.contours[k])
                PROVE  \/ Covered(page.contours[k], boxes')
                       \/ Covered(page.contours[k], merged')
    BY <1>1 DEF AllCovered
  <2>. DEFINE c == page.contours[k]
  <2>1. c \in Box
    <3>1. page.contours \in Seq(Box)
      BY <1>2, PageFields DEF ProperBoxes
    <3>. QED  BY <3>1, LenProperties, ElementOfSeq
  <2>2. Covered(c, boxes) \/ Covered(c, merged)
    BY <1>2 DEF AllCovered
  <2>. HIDE DEF c
  <2>3. CASE Covered(c, merged)
    <3>1. Covered(c, merged')
      BY <1>7, <1>8, <2>3 DEF Covered
    <3>. QED  BY <3>1 DEF c
  <2>4. CASE Covered(c, boxes)
    <3>1. PICK n \in DOMAIN boxes : Inside(c, boxes[n])
      BY <2>4 DEF Covered
    <3>2. CASE Inside(boxes[n], g.box)
      <4>1. Inside(c, g.box)
        BY <1>3, <1>5, <2>1, <3>1, <3>2, InsideOfInside
      <4>2. Covered(c, merged')
        BY <1>7, <1>8, <4>1 DEF Covered
      <4>. QED  BY <4>2 DEF c
    <3>3. CASE \E m \in DOMAIN g.rest : g.rest[m] = boxes[n]
      <4>1. Covered(c, boxes')
        BY <1>1, <3>1, <3>3 DEF Covered
      <4>. QED  BY <4>1 DEF c
    <3>. QED  BY <1>3, <1>6, <3>1, <3>2, <3>3
  <2>. QED  BY <2>2, <2>3, <2>4
<1>12. ASSUME ~changed' PROVE PassedOver'
  <2>1. ~changed /\ Len(g.rest) = len - 1
    <3>1. Len(g.rest) \in Nat
      BY <1>5, LenProperties
    <3>2. ~changed /\ ~(Len(g.rest) < len - 1)
      BY <1>1, <1>12
    <3>. QED  BY <1>3, <1>5, <3>1, <3>2
  <2>2. PassedOver
    BY <1>2, <2>1
  <2>3. /\ g.box = boxes[1] /\ 1 \in DOMAIN boxes
        /\ \A m \in 1 .. len - 1 :
             /\ g.rest[m] = boxes[m + 1]
             /\ ~ShouldMergeBoxes(boxes[1], boxes[m + 1])
    <3>1. Len(g.rest) = len - 1 =>
            /\ g.box = boxes[1]
            /\ \A m \in 1 .. len - 1 :
                 /\ g.rest[m] = boxes[m + 1]
                 /\ ~ShouldMergeBoxes(boxes[1], boxes[m + 1])
      BY <1>4 DEF HasAbsorbed
    <3>2. 1 \in DOMAIN boxes
      BY <1>3
    <3>. QED  BY <2>1, <3>1, <3>2
  <2>4. /\ DOMAIN g.rest = 1 .. len - 1
        /\ \A m \in 1 .. len - 1 : m + 1 \in DOMAIN boxes
    BY <1>3, <1>5, <2>1, LenProperties
  <2>5. ASSUME NEW i \in 1 .. l
        PROVE  /\ ~ShouldMergeBoxes(merged[i], g.box)
               /\ ~ShouldMergeBoxes(g.box, merged[i])
    <3>1. ~ShouldMergeBoxes(merged[i], g.box)
      BY <1>7, <2>2, <2>3, <2>5 DEF PassedOver
    <3>2. merged[i] \in Box
      BY <1>3, <1>7, <2>5
    <3>. QED  BY <1>5, <3>1, <3>2, MergesBothWays
  <2>6. ASSUME NEW i \in DOMAIN merged', NEW j \in DOMAIN merged', i # j
        PROVE  ~ShouldMergeBoxes(merged'[i], merged'[j])
    <3>1. CASE i \in 1 .. l /\ j \in 1 .. l
      BY <1>7, <2>2, <2>6, <3>1 DEF PassedOver
    <3>2. CASE i = l + 1 /\ j \in 1 .. l
      BY <1>7, <2>5, <3>2
    <3>3. CASE i \in 1 .. l /\ j = l + 1
      BY <1>7, <2>5, <3>3
    <3>. QED  BY <1>8, <2>6, <3>1, <3>2, <3>3
  <2>7. ASSUME NEW i \in DOMAIN merged', NEW j \in DOMAIN boxes'
        PROVE  ~ShouldMergeBoxes(merged'[i], boxes'[j])
    <3>1. j \in 1 .. len - 1 /\ boxes'[j] = boxes[j + 1] /\ j + 1 \in DOMAIN boxes
      BY <1>1, <2>3, <2>4, <2>7
    <3>2. CASE i \in 1 .. l
      BY <1>7, <2>2, <3>1, <3>2 DEF PassedOver
    <3>3. CASE i = l + 1
      BY <1>7, <2>3, <3>1, <3>3
    <3>. QED  BY <1>8, <2>7, <3>2, <3>3
  <2>. QED  BY <2>6, <2>7 DEF PassedOver
<1>13. changed' \in BOOLEAN
  <2>1. (changed \/ Len(g.rest) < len - 1) \in BOOLEAN
    BY <1>3
  <2>. QED  BY <1>1
<1>. QED  BY <1>9, <1>10, <1>11, <1>12, <1>13

LEMMA DetectStep ==
  ASSUME TypeOK, MergeInv, Detect
  PROVE  ProperBoxes(boxes') /\ AllCovered'
<1>. DEFINE contours == page.contours
<1>1. boxes' = Detected(contours) /\ page' = page
  BY DEF Detect
<1>2. ProperBoxes(contours)
  BY PageFields DEF MergeInv
<1>. HIDE DEF contours
<1>3. contours \in Seq(Box) /\ DOMAIN contours = 1 .. Len(contours)
  BY <1>2, LenProperties DEF ProperBoxes
<1>4. HasFound(boxes', contours, Len(contours))
  BY <1>1, <1>3, DetectedBoxes
<1>5. ProperBoxes(boxes')
  BY <1>2, <1>3, <1>4 DEF HasFound, ProperBoxes
<1>6. \A k \in DOMAIN contours : TextLike(contours[k]) =>
        Covered(contours[k], boxes')
  <2>. SUFFICES ASSUME NEW k \in DOMAIN contours, TextLike(contours[k])
                PROVE  Covered(contours[k], boxes')
    OBVIOUS
  <2>1. PICK m \in DOMAIN boxes' : boxes'[m] = contours[k]
    BY <1>3, <1>4 DEF HasFound
  <2>2. contours[k] \in Box
    BY <1>3, ElementOfSeq
  <2>. QED  BY <2>1, <2>2, InsideItself DEF Covered
<1>. QED  BY <1>1, <1>5, <1>6 DEF AllCovered, contours

LEMMA MergingEndsStep ==
  ASSUME TypeOK, MergeInv, MergingEnds
  PROVE  ProperBoxes(boxes') /\ NothingLeftToMerge'
<1>1. /\ stage = "merge" /\ boxes = <<>> /\ ~changed /\ page' = page
      /\ boxes' = FromAbove(merged)
  BY DEF MergingEnds, NoMore
<1>2. merged \in Seq(Box) /\ ProperBoxes(merged) /\ AllCovered /\ PassedOver
  BY <1>1 DEF MergeInv, ProperBoxes
<1>. DEFINE t == boxes'
<1>3. t \in Seq(Box) /\ Permutes(t, merged)
  BY <1>1, <1>2, FromAbovePermutes
<1>. HIDE DEF t
<1>4. PICK from \in [DOMAIN merged -> DOMAIN merged] :
        /\ \A p \in DOMAIN merged : t[p] = merged[from[p]]
        /\ \A i \in DOMAIN merged : \E p \in DOMAIN merged : from[p] = i
        /\ \A p, q \in DOMAIN merged : from[p] = from[q] => p = q
  BY <1>3 DEF Permutes
<1>5. DOMAIN t = DOMAIN merged
  BY <1>3 DEF Permutes
<1>6. ProperBoxes(t)
  BY <1>2, <1>3, <1>4, <1>5 DEF ProperBoxes
<1>7. ASSUME NEW i \in DOMAIN t, NEW j \in DOMAIN t, i # j
      PROVE  ~ShouldMergeBoxes(t[i], t[j])
  <2>1. from[i] \in DOMAIN merged /\ from[j] \in DOMAIN merged /\ from[i] # from[j]
    BY <1>4, <1>5, <1>7
  <2>2. ~ShouldMergeBoxes(merged[from[i]], merged[from[j]])
    BY <1>2, <2>1 DEF PassedOver
  <2>. QED  BY <1>4, <1>5, <2>2
<1>8. ASSUME NEW k \in DOMAIN page.contours, TextLike(page.contours[k])
      PROVE  \E n \in DOMAIN t : Inside(page.contours[k], t[n])
  <2>1. \A n \in DOMAIN <<>> : FALSE
    OBVIOUS
  <2>2. Covered(page.contours[k], merged)
    BY <1>1, <1>2, <1>8, <2>1 DEF AllCovered, Covered
  <2>3. PICK i \in DOMAIN merged : Inside(page.contours[k], merged[i])
    BY <2>2 DEF Covered
  <2>. QED  BY <1>4, <1>5, <2>3
<1>9. NothingLeftToMerge'
  BY <1>1, <1>7, <1>8 DEF NothingLeftToMerge, t
<1>. QED  BY <1>6, <1>9 DEF t

-----------------------------------------------------------------------------
(* The choice of a crop.                                                    *)

LEMMA RepeatsMore ==
  ASSUME NEW s \in Seq(Candidate), NEW e \in Candidate, NEW t \in Text
  PROVE  /\ Repeats(t, TextsOf(s)) => Repeats(t, TextsOf(Append(s, e)))
         /\ Repeats(e.text, TextsOf(Append(s, e)))
<1>. DEFINE a == Append(s, e)
            l == Len(s)
<1>1. /\ a \in Seq(Candidate) /\ l \in Nat
      /\ DOMAIN s = 1 .. l /\ DOMAIN a = 1 .. l + 1
      /\ a[l + 1] = e /\ \A i \in 1 .. l : a[i] = s[i]
  BY OneMore
<1>. HIDE DEF a, l
<1>2. /\ DOMAIN TextsOf(s) = 1 .. l /\ DOMAIN TextsOf(a) = 1 .. l + 1
      /\ \A k \in 1 .. l : TextsOf(s)[k] = s[k].text
      /\ \A k \in 1 .. l + 1 : TextsOf(a)[k] = a[k].text
  BY <1>1, TextsOfFields
<1>3. l + 1 \in 1 .. l + 1 /\ \A k \in 1 .. l : k \in 1 .. l + 1
  BY <1>1
<1>4. Repeats(t, TextsOf(s)) => Repeats(t, TextsOf(a))
  <2>1. \A k \in 1 .. l : TextsOf(a)[k] = TextsOf(s)[k]
    BY <1>1, <1>2, <1>3
  <2>. QED  BY <1>2, <1>3, <2>1 DEF Repeats
<1>5. Repeats(e.text, TextsOf(a))
  <2>1. e.text.says \in Sayings
    BY DEF Candidate, Text
  <2>2. Alike[e.text.says][e.text.says] = Whole
    BY <2>1, SimilarityAssumption
  <2>3. TextsOf(a)[l + 1] = e.text
    BY <1>1, <1>2, <1>3
  <2>4. Whole >= 9000
    BY DEF Whole
  <2>. QED  BY <1>2, <1>3, <2>2, <2>3, <2>4 DEF Repeats
<1>. QED  BY <1>4, <1>5 DEF a

LEMMA FirstOfAppend ==
  ASSUME NEW S, NEW s \in Seq(S), NEW e \in S, NEW n \in 0 .. Len(s)
  PROVE  SubSeq(Append(s, e), 1, n) = SubSeq(s, 1, n)
<1>1. Len(s) \in Nat
  BY LenProperties
<1>2. CASE n = 0
  BY <1>2, SubSeqEmpty
<1>3. CASE n # 0
  <2>1. Append(s, e) = s \o <<e>> /\ <<e>> \in Seq(S)
    BY AppendIsConcat
  <2>2. 1 \in 1 .. Len(s) /\ n \in 1 .. Len(s)
    BY <1>1, <1>3
  <2>. QED  BY <2>1, <2>2, SubSeqOfConcat1
<1>. QED  BY <1>2, <1>3

LEMMA ChooseCropStep ==
  ASSUME TypeOK, AcceptedRegionsAreKept, ChooseCrop
  PROVE  /\ accepted' \in Seq(Candidate) /\ kept' \in Seq(Candidate)
         /\ AcceptedRegionsAreKept'
<1>. DEFINE c == Best
            l == Len(kept)
<1>1. accepted \in Seq(Candidate) /\ kept \in Seq(Candidate)
  BY DEF TypeOK
<1>2. CASE ~Acceptable(c)
  <2>1. accepted' = accepted /\ kept' = kept
    BY <1>2 DEF ChooseCrop
  <2>. QED  BY <1>1, <2>1 DEF AcceptedRegionsAreKept
<1>3. CASE Acceptable(c)
  <2>1. c \in Candidate
    BY <1>3, BestType DEF Acceptable
  <2>2. accepted' = Append(accepted, c) /\ kept' = KeptWith(c)
    BY <1>3 DEF ChooseCrop
  <2>. HIDE DEF c
  <2>. DEFINE m == Len(accepted)
  <2>3. /\ accepted' \in Seq(Candidate) /\ m \in Nat
        /\ DOMAIN accepted = 1 .. m /\ DOMAIN accepted' = 1 .. m + 1
        /\ accepted'[m + 1] = c /\ \A i \in 1 .. m : accepted'[i] = accepted[i]
    BY <1>1, <2>1, <2>2, OneMore
  <2>4. \A i \in DOMAIN accepted' : i \in 1 .. m \/ i = m + 1
    BY <2>3
  <2>5. /\ \A k \in DOMAIN accepted : accepted[k].text \in Text
        /\ c.text \in Text
    BY <1>1, <2>1, TextsOfFields, CandidateFields
  <2>6. /\ \A k \in DOMAIN accepted : Repeats(accepted[k].text, TextsOf(kept))
        /\ \A j \in DOMAIN kept :
             ~Repeats(kept[j].text, TextsOf(SubSeq(kept, 1, j - 1)))
    BY DEF AcceptedRegionsAreKept
  <2>. HIDE DEF m
  <2>7. CASE Repeats(c.text, TextsOf(kept))
    <3>1. kept' = kept
      BY <2>2, <2>7 DEF KeptWith
    <3>2. \A k \in DOMAIN accepted' : Repeats(accepted'[k].text, TextsOf(kept))
      BY <2>3, <2>4, <2>6, <2>7
    <3>. QED  BY <1>1, <2>3, <2>6, <3>1, <3>2 DEF AcceptedRegionsAreKept
  <2>8. CASE ~Repeats(c.text, TextsOf(kept))
    <3>1. kept' = Append(kept, c)
      BY <2>2, <2>8 DEF KeptWith
    <3>2. /\ kept' \in Seq(Candidate) /\ l \in Nat
          /\ DOMAIN kept = 1 .. l /\ DOMAIN kept' = 1 .. l + 1
          /\ kept'[l + 1] = c /\ \A i \in 1 .. l : kept'[i] = kept[i]
      BY <1>1, <2>1, <3>1, OneMore
    <3>3. \A k \in DOMAIN accepted' : Repeats(accepted'[k].text, TextsOf(kept'))
      <4>. SUFFICES ASSUME NEW k \in DOMAIN accepted'
                    PROVE  Repeats(accepted'[k].text, TextsOf(kept'))
        OBVIOUS
      <4>1. CASE k = m + 1
        BY <1>1, <2>1, <2>3, <2>5, <3>1, <4>1, RepeatsMore
      <4>2. CASE k \in 1 .. m
        <5>1. accepted'[k] = accepted[k] /\ k \in DOMAIN accepted
          BY <2>3, <4>2
        <5>2. Repeats(accepted[k].text, TextsOf(kept)) /\ accepted[k].text \in Text
          BY <2>5, <2>6, <5>1
        <5>. QED  BY <1>1, <2>1, <3>1, <5>1, <5>2, RepeatsMore
      <4>. QED  BY <2>4, <4>1, <4>2
    <3>4. \A j \in DOMAIN kept' :
            ~Repeats(kept'[j].text, TextsOf(SubSeq(kept', 1, j - 1)))
      <4>. SUFFICES ASSUME NEW j \in DOMAIN kept'
                    PROVE  ~Repeats(kept'[j].text, TextsOf(SubSeq(kept', 1, j - 1)))
        OBVIOUS
      <4>1. SubSeq(kept', 1, j - 1) = SubSeq(kept, 1, j - 1)
        <5>1. j - 1 \in 0 .. Len(kept)
          BY <3>2
        <5>. QED  BY <1>1, <2>1, <3>1, <5>1, FirstOfAppend
      <4>2. CASE j = l + 1
        <5>1. SubSeq(kept, 1, l) = kept
          BY <1>1, SubSeqFull
        <5>2. j - 1 = l
          BY <3>2, <4>2
        <5>. HIDE DEF l
        <5>. QED  BY <2>8, <3>2, <4>1, <4>2, <5>1, <5>2
      <4>3. CASE j # l + 1
        <5>1. j \in DOMAIN kept /\ kept'[j] = kept[j]
          BY <3>2, <4>3
        <5>. QED  BY <2>6, <4>1, <5>1
      <4>. QED  BY <4>2, <4>3
    <3>. QED  BY <2>3, <3>2, <3>3, <3>4 DEF AcceptedRegionsAreKept
  <2>. QED  BY <2>7, <2>8
<1>. QED  BY <1>2, <1>3

-----------------------------------------------------------------------------
(* Every step keeps the invariant.                                          *)

LEMMA InitInv ==
  ASSUME Init
  PROVE  RouterInv
<1>1. /\ page \in Pages /\ stage = "classify"
      /\ boxes = <<>> /\ merged = <<>> /\ changed = FALSE
      /\ crops = <<>> /\ at = 1 /\ plan = 0 /\ readings = <<>>
      /\ full = Nil /\ accepted = <<>> /\ kept = <<>> /\ region = Nil
      /\ report = Nil
  BY DEF Init
<1>2. /\ <<>> \in Seq(Box) /\ <<>> \in Seq(Reading) /\ <<>> \in Seq(Candidate)
      /\ Len(<<>>) = 0 /\ \A k \in DOMAIN <<>> : FALSE
  BY EmptySeq
<1>3. ProperBoxes(<<>>)
  BY <1>2 DEF ProperBoxes
<1>4. 0 \in 0 .. Greater(PAGE_PLANS, REGION_PLANS)
  BY PagesAssumption DEF Greater
<1>5. TypeOK
  <2>1. page \in Page
    BY <1>1, PageFields
  <2>2. /\ boxes \in Seq(Box) /\ merged \in Seq(Box) /\ changed \in BOOLEAN
        /\ crops \in Seq(Box) /\ \A k \in DOMAIN crops : Proper(crops[k])
    BY <1>1, <1>2
  <2>3. /\ readings \in Seq(Reading) /\ Len(readings) <= plan
        /\ accepted \in Seq(Candidate) /\ kept \in Seq(Candidate)
    BY <1>1, <1>2
  <2>. QED  BY <1>1, <1>4, <2>1, <2>2, <2>3 DEF TypeOK
<1>6. MergeInv
  BY <1>1, <1>3 DEF MergeInv
<1>7. NothingLeftToMerge
  BY <1>1 DEF NothingLeftToMerge
<1>8. AcceptedRegionsAreKept
  BY <1>1, <1>2 DEF AcceptedRegionsAreKept
<1>. QED  BY <1>5, <1>6, <1>7, <1>8 DEF RouterInv

LEMMA BoxesRemain ==
  ASSUME MergeInv, NothingLeftToMerge, stage \in {"page", "regions", "route"},
         stage' \in {stage, "regions", "route", "done"},
         page' = page, boxes' = boxes, merged' = merged, changed' = changed,
         crops' = crops
  PROVE  MergeInv' /\ NothingLeftToMerge'
<1>1. /\ page \in Pages /\ ProperBoxes(boxes) /\ ProperBoxes(merged)
      /\ crops = <<>> \/ (stage \in {"regions", "route", "done"}
                          /\ crops = PaddedBoxes(boxes))
  BY DEF MergeInv
<1>2. stage' \notin {"classify", "merge"}
  OBVIOUS
<1>3. MergeInv'
  BY <1>1, <1>2 DEF MergeInv
<1>4. NothingLeftToMerge'
  BY <1>2 DEF NothingLeftToMerge, Digital
<1>. QED  BY <1>3, <1>4

LEMMA NextInv ==
  ASSUME RouterInv, Next
  PROVE  RouterInv'
<1>. USE DEF boxing, reading, chosen
<1>1. TypeOK /\ MergeInv /\ NothingLeftToMerge /\ AcceptedRegionsAreKept
  BY DEF RouterInv
<1>2. /\ page \in Pages /\ page \in Page
      /\ ProperBoxes(boxes) /\ ProperBoxes(merged)
      /\ stage = "classify" => merged = <<>> /\ ~changed
      /\ crops = <<>> \/ stage \in {"regions", "route", "done"}
  BY <1>1, PageFields DEF MergeInv
<1>3. /\ <<>> \in Seq(Box) /\ <<>> \in Seq(Reading)
      /\ Len(<<>>) = 0 /\ \A k \in DOMAIN <<>> : FALSE
  BY EmptySeq
<1>4. ProperBoxes(<<>>)
  BY <1>3 DEF ProperBoxes
<1>5. 0 \in 0 .. Greater(PAGE_PLANS, REGION_PLANS)
  BY PagesAssumption DEF Greater
<1>6. CASE TakeNative
  <2>1. /\ stage = "classify" /\ Digital /\ stage' = "done"
        /\ report' = NativeReport
        /\ UNCHANGED <<page, boxes, merged, changed, crops, at, plan, readings,
                       full, accepted, kept, region>>
    BY <1>6 DEF TakeNative
  <2>2. report' \in Report
    BY <1>2, <2>1, ReportTypes
  <2>3. TypeOK'
    BY <1>1, <2>1, <2>2 DEF TypeOK
  <2>4. MergeInv'
    BY <1>2, <2>1 DEF MergeInv
  <2>5. NothingLeftToMerge'
    BY <2>1 DEF NothingLeftToMerge, Digital
  <2>6. AcceptedRegionsAreKept'
    BY <1>1, <2>1 DEF AcceptedRegionsAreKept
  <2>. QED  BY <2>3, <2>4, <2>5, <2>6 DEF RouterInv
<1>7. CASE Detect
  <2>1. /\ stage = "classify" /\ stage' = "merge"
        /\ UNCHANGED <<page, merged, changed, crops, at, plan, readings,
                       full, accepted, kept, region, report>>
    BY <1>7 DEF Detect
  <2>2. ProperBoxes(boxes') /\ AllCovered'
    BY <1>1, <1>7, DetectStep
  <2>3. TypeOK'
    BY <1>1, <2>1, <2>2 DEF TypeOK, ProperBoxes
  <2>4. PassedOver'
    BY <1>2, <1>3, <2>1 DEF PassedOver
  <2>5. MergeInv'
    BY <1>2, <2>1, <2>2, <2>4 DEF MergeInv
  <2>6. NothingLeftToMerge'
    BY <2>1 DEF NothingLeftToMerge
  <2>7. AcceptedRegionsAreKept'
    BY <1>1, <2>1 DEF AcceptedRegionsAreKept
  <2>. QED  BY <2>3, <2>5, <2>6, <2>7 DEF RouterInv
<1>8. CASE Absorb
  <2>1. /\ stage = "merge" /\ stage' = "merge"
        /\ UNCHANGED <<page, crops, at, plan, readings,
                       full, accepted, kept, region, report>>
    BY <1>8 DEF Absorb
  <2>2. /\ ProperBoxes(boxes') /\ ProperBoxes(merged') /\ changed' \in BOOLEAN
        /\ AllCovered' /\ (~changed' => PassedOver')
    BY <1>1, <1>8, AbsorbStep
  <2>3. TypeOK'
    BY <1>1, <2>1, <2>2 DEF TypeOK, ProperBoxes
  <2>4. MergeInv'
    BY <1>2, <2>1, <2>2 DEF MergeInv
  <2>5. NothingLeftToMerge'
    BY <2>1 DEF NothingLeftToMerge
  <2>6. AcceptedRegionsAreKept'
    BY <1>1, <2>1 DEF AcceptedRegionsAreKept
  <2>. QED  BY <2>3, <2>4, <2>5, <2>6 DEF RouterInv
<1>9. CASE NextPass
  <2>1. /\ stage = "merge" /\ stage' = "merge"
        /\ boxes = <<>> /\ boxes' = merged /\ merged' = <<>> /\ changed' = FALSE
        /\ UNCHANGED <<page, crops, at, plan, readings,
                       full, accepted, kept, region, report>>
    BY <1>9 DEF NextPass
  <2>2. TypeOK'
    BY <1>1, <1>3, <2>1 DEF TypeOK
  <2>3. AllCovered'
    <3>1. AllCovered
      BY <1>1, <2>1 DEF MergeInv
    <3>2. \A c : ~Covered(c, <<>>)
      BY <1>3 DEF Covered
    <3>. QED  BY <2>1, <3>1, <3>2 DEF AllCovered
  <2>4. PassedOver'
    BY <1>3, <2>1 DEF PassedOver
  <2>5. MergeInv'
    BY <1>2, <1>4, <2>1, <2>3, <2>4 DEF MergeInv
  <2>6. NothingLeftToMerge'
    BY <2>1 DEF NothingLeftToMerge
  <2>7. AcceptedRegionsAreKept'
    BY <1>1, <2>1 DEF AcceptedRegionsAreKept
  <2>. QED  BY <2>2, <2>5, <2>6, <2>7 DEF RouterInv
<1>10. CASE MergingEnds
  <2>1. /\ stage = "merge" /\ stage' = "page"
        /\ merged' = <<>> /\ changed' = FALSE
        /\ UNCHANGED <<page, crops, at, plan, readings,
                       full, accepted, kept, region, report>>
    BY <1>10 DEF MergingEnds
  <2>2. ProperBoxes(boxes') /\ NothingLeftToMerge'
    BY <1>1, <1>10, MergingEndsStep
  <2>3. TypeOK'
    BY <1>1, <1>3, <2>1, <2>2 DEF TypeOK, ProperBoxes
  <2>4. MergeInv'
    BY <1>2, <1>4, <2>1, <2>2 DEF MergeInv
  <2>5. AcceptedRegionsAreKept'
    BY <1>1, <2>1 DEF AcceptedRegionsAreKept
  <2>. QED  BY <2>2, <2>3, <2>4, <2>5 DEF RouterInv
<1>11. CASE ReadPage
  <2>1. /\ stage = "page" /\ stage' = stage /\ Call(PAGE_PLANS)
        /\ UNCHANGED <<page, boxes, merged, changed, crops, at,
                       full, accepted, kept, region, report>>
    BY <1>11 DEF ReadPage
  <2>2. TypeOK'
    <3>1. /\ plan' \in 0 .. Greater(PAGE_PLANS, REGION_PLANS)
          /\ readings' \in Seq(Reading) /\ Len(readings') <= plan'
      BY <1>1, <2>1, CallType
    <3>. QED  BY <1>1, <2>1, <3>1 DEF TypeOK
  <2>3. MergeInv' /\ NothingLeftToMerge'
    BY <1>1, <2>1, BoxesRemain
  <2>4. AcceptedRegionsAreKept'
    BY <1>1, <2>1 DEF AcceptedRegionsAreKept
  <2>. QED  BY <2>2, <2>3, <2>4 DEF RouterInv
<1>12. CASE ChoosePage
  <2>1. /\ stage = "page" /\ full' = Best /\ stage' \in {"regions", "route"}
        /\ \/ stage' = "regions" /\ crops' = PaddedBoxes(boxes)
           \/ crops' = crops
        /\ plan' = 0 /\ readings' = <<>>
        /\ UNCHANGED <<page, boxes, merged, changed, at, accepted, kept,
                       region, report>>
    BY <1>12 DEF ChoosePage, PaddedBoxes
  <2>2. ProperBoxes(crops')
    BY <1>2, <1>4, <2>1, PaddedBoxesType
  <2>3. TypeOK'
    <3>1. Best \in Candidate \cup {Nil}
      BY <1>1, BestType
    <3>. QED  BY <1>1, <1>3, <1>5, <2>1, <2>2, <3>1 DEF TypeOK, ProperBoxes
  <2>4. MergeInv'
    BY <1>2, <2>1 DEF MergeInv
  <2>5. NothingLeftToMerge'
    BY <1>1, <2>1 DEF NothingLeftToMerge, Digital
  <2>6. AcceptedRegionsAreKept'
    BY <1>1, <2>1 DEF AcceptedRegionsAreKept
  <2>. QED  BY <2>3, <2>4, <2>5, <2>6 DEF RouterInv
<1>13. CASE ReadCrop
  <2>1. /\ stage = "regions" /\ stage' = stage /\ Call(REGION_PLANS)
        /\ UNCHANGED <<page, boxes, merged, changed, crops, at,
                       full, accepted, kept, region, report>>
    BY <1>13 DEF ReadCrop
  <2>2. TypeOK'
    <3>1. /\ plan' \in 0 .. Greater(PAGE_PLANS, REGION_PLANS)
          /\ readings' \in Seq(Reading) /\ Len(readings') <= plan'
      BY <1>1, <2>1, CallType
    <3>. QED  BY <1>1, <2>1, <3>1 DEF TypeOK
  <2>3. MergeInv' /\ NothingLeftToMerge'
    BY <1>1, <2>1, BoxesRemain
  <2>4. AcceptedRegionsAreKept'
    BY <1>1, <2>1 DEF AcceptedRegionsAreKept
  <2>. QED  BY <2>2, <2>3, <2>4 DEF RouterInv
<1>14. CASE ChooseCrop
  <2>1. /\ stage = "regions" /\ stage' = stage
        /\ at' = at + 1 /\ plan' = 0 /\ readings' = <<>>
        /\ UNCHANGED <<page, boxes, merged, changed, crops, full, region, report>>
    BY <1>14 DEF ChooseCrop
  <2>2. /\ accepted' \in Seq(Candidate) /\ kept' \in Seq(Candidate)
        /\ AcceptedRegionsAreKept'
    BY <1>1, <1>14, ChooseCropStep
  <2>3. TypeOK'
    <3>1. at' \in Nat \ {0}
      BY <1>1, <2>1 DEF TypeOK
    <3>. QED  BY <1>1, <1>3, <1>5, <2>1, <2>2, <3>1 DEF TypeOK
  <2>4. MergeInv' /\ NothingLeftToMerge'
    BY <1>1, <2>1, BoxesRemain
  <2>. QED  BY <2>2, <2>3, <2>4 DEF RouterInv
<1>15. CASE Combine
  <2>1. /\ stage = "regions" /\ stage' = "route"
        /\ IF kept = <<>> THEN region' = Nil
           ELSE \E shared \in BOOLEAN : region' = Combined(kept, shared)
        /\ UNCHANGED <<page, boxes, merged, changed, crops, at, plan, readings,
                       full, accepted, kept, report>>
    BY <1>15 DEF Combine
  <2>2. region' \in Candidate \cup {Nil}
    <3>1. kept \in Seq(Candidate)
      BY <1>1 DEF TypeOK
    <3>2. \A k \in DOMAIN kept : ~Empty(kept[k].text)
      BY <1>1, KeptAreNotEmpty
    <3>. QED  BY <2>1, <3>1, <3>2, CombinedType
  <2>3. TypeOK'
    BY <1>1, <2>1, <2>2 DEF TypeOK
  <2>4. MergeInv' /\ NothingLeftToMerge'
    BY <1>1, <2>1, BoxesRemain
  <2>5. AcceptedRegionsAreKept'
    BY <1>1, <2>1 DEF AcceptedRegionsAreKept
  <2>. QED  BY <2>3, <2>4, <2>5 DEF RouterInv
<1>16. CASE Route
  <2>1. /\ stage = "route" /\ stage' = "done"
        /\ UNCHANGED <<page, boxes, merged, changed, crops, at, plan, readings,
                       full, accepted, kept, region>>
    BY <1>16 DEF Route
  <2>2. report' \in Report
    <3>1. full \in Candidate \cup {Nil} /\ region \in Candidate \cup {Nil}
      BY <1>1 DEF TypeOK
    <3>2. PreferRegion => region # Nil
      BY DEF PreferRegion, Usable
    <3>3. "region_ocr" \in Routes /\ "full_page_ocr" \in Routes
      BY DEF Routes
    <3>4. /\ full # Nil => ReportOf("full_page_ocr", full) \in Report
          /\ region # Nil => ReportOf("region_ocr", region) \in Report
          /\ NativeReport \in Report /\ NothingRead \in Report
      BY <1>2, <3>1, <3>3, ReportTypes
    <3>. QED  BY <1>16, <3>2, <3>4 DEF Route
  <2>3. TypeOK'
    BY <1>1, <2>1, <2>2 DEF TypeOK
  <2>4. MergeInv' /\ NothingLeftToMerge'
    BY <1>1, <2>1, BoxesRemain
  <2>5. AcceptedRegionsAreKept'
    BY <1>1, <2>1 DEF AcceptedRegionsAreKept
  <2>. QED  BY <2>3, <2>4, <2>5 DEF RouterInv
<1>. QED  BY <1>6, <1>7, <1>8, <1>9, <1>10, <1>11, <1>12, <1>13, <1>14, <1>15,
             <1>16 DEF Next

LEMMA InvHolds == Spec => []RouterInv
<1>1. RouterInv /\ UNCHANGED vars => RouterInv'
  BY DEF RouterInv, TypeOK, MergeInv, AllCovered, PassedOver,
         NothingLeftToMerge, Digital, AcceptedRegionsAreKept,
         vars, boxing, reading, chosen
<1>. QED  BY <1>1, InitInv, NextInv, PTL DEF Spec

-----------------------------------------------------------------------------
(* The theorems.                                                            *)

(* Whatever Tesseract reads, every candidate, also the one that regions are *)
(* combined into, has scores of 0 to 100 points and counts that fit, and    *)
(* every report has a text: no division by zero, no mean of nothing.        *)
THEOREM RouterTypes == Spec => []TypeOK
<1>1. RouterInv => TypeOK
  BY DEF RouterInv
<1>. QED  BY <1>1, InvHolds, PTL

(* However many contours a page has and in whatever order they come,        *)
(* merge_detected_boxes stops only when no two boxes are to be merged, and  *)
(* every contour that is like text is in one of them.                       *)
THEOREM MergingIsComplete == Spec => []NothingLeftToMerge
<1>1. RouterInv => NothingLeftToMerge
  BY DEF RouterInv
<1>. QED  BY <1>1, InvHolds, PTL

(* add_neighbor_aware_padding never makes two boxes that lie one above the  *)
(* other overlap, and cuts nothing off, on a page of any size.              *)
THEOREM PaddingKeepsApart == Spec => []CropsAreApart
<1>1. RouterInv => CropsAreApart
  <2>. SUFFICES ASSUME RouterInv, NEW i \in DOMAIN crops, NEW j \in DOMAIN crops
                PROVE  /\ Inside(boxes[i], crops[i])
                       /\ j \in Neighbours(boxes, i)
                          /\ boxes[i].bottom <= boxes[j].top =>
                            crops[i].bottom <= crops[j].top
    BY DEF CropsAreApart
  <2>1. ProperBoxes(boxes) /\ (crops = <<>> \/ crops = PaddedBoxes(boxes))
    BY DEF RouterInv, MergeInv
  <2>2. crops = PaddedBoxes(boxes)
    BY <2>1
  <2>3. /\ i \in DOMAIN boxes /\ j \in DOMAIN boxes
        /\ crops[i] = PaddedBox(boxes, i) /\ crops[j] = PaddedBox(boxes, j)
    BY <2>2 DEF PaddedBoxes
  <2>4. Inside(boxes[i], crops[i])
    BY <2>1, <2>3, PaddedFields
  <2>. QED  BY <2>1, <2>3, <2>4, GapsAreShared
<1>. QED  BY <1>1, InvHolds, PTL

(* No text of a region that was good enough is dropped unless the report    *)
(* has one almost the same, and none is in the report that almost repeats   *)
(* one before it, however many regions the page has and whatever            *)
(* SequenceMatcher says of two different texts.                             *)
THEOREM NoRegionIsLost == Spec => []AcceptedRegionsAreKept
<1>1. RouterInv => AcceptedRegionsAreKept
  BY DEF RouterInv
<1>. QED  BY <1>1, InvHolds, PTL

=============================================================================
