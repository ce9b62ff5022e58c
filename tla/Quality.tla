------------------------------ MODULE Quality ------------------------------
(***************************************************************************)
(* Scores and gates, without steps: the legibility of a text and the verdict *)
(* on a page (eda/quality.py), the OCR gate and the choice of a candidate    *)
(* (eda/ocr_quality.py), the classification of a PDF page                    *)
(* (eda/pdf_analysis.py), and what the schema admits as a page               *)
(* (eda/ingestion_schema.py).                                                *)
(*                                                                          *)
(* A text is what the scores count in it.  Scores, confidences and           *)
(* agreement are in hundredths of a point, shares in parts of 10000.         *)
(***************************************************************************)
EXTENDS Integers, Sequences, FiniteSetsExt, Functions

CONSTANTS
  Nil,
  Similarity,    (* candidate_similarity of what two readings say           *)
  ADVANTAGE      (* AdaptiveOCRConfig.region_min_advantage                  *)

(* Counted in the normalised text: characters that are no space, those that *)
(* are letters or digits, those in the garbage set of quality.py and in     *)
(* that of ocr_quality.py, which is a part of it; words, distinct words.    *)
Text ==
  {t \in [chars: Nat, alnum: Nat, garbage: Nat, damaged: Nat, words: Nat,
          distinct: Nat] :
     /\ t.alnum + t.garbage <= t.chars /\ t.damaged <= t.garbage
     /\ t.distinct <= t.words
     /\ t.words > 0 => t.distinct > 0
     /\ t.chars = 0 => t.words = 0}

NoText == [chars |-> 0, alnum |-> 0, garbage |-> 0, damaged |-> 0,
           words |-> 0, distinct |-> 0]

Empty(t) == t.chars = 0

Whole == 10000

Statuses == {"accepted", "needs_review", "failed"}
PageTypes == {"digital", "scanned", "mixed", "empty", "unknown"}
PageRoutes == {"native", "full_page_ocr", "region_ocr", "combined", "rejected"}

(* round(a / b)                                                             *)
Rounded(a, b) == (2 * a + b) \div (2 * b)

Share(n, of) == Rounded(Whole * n, of)

-----------------------------------------------------------------------------
(* The legibility of a text.                                                *)

Meaningful(t) == IF Empty(t) THEN 0 ELSE Share(t.alnum, t.chars)

Garbage(n, t) == IF Empty(t) THEN Whole ELSE Share(n, t.chars)

Repetition(t) ==
  IF t.words = 0 THEN Whole ELSE Whole - Share(t.distinct, t.words)

Least(a, b) == IF a <= b THEN a ELSE b

ScoreText(t) ==
  IF Empty(t) THEN 0
  ELSE Rounded(  45 * Meaningful(t) + 25 * (Whole - Garbage(t.garbage, t))
               + 15 * (Whole - Repetition(t))
               + 15 * Share(Least(t.chars, 200), 200), 100)

(* score_candidate                                                          *)
QualityScore(t, confidence, coverage) ==
  LET text ==   40 * Meaningful(t) + 20 * (Whole - Garbage(t.damaged, t))
              + 15 * (Whole - Repetition(t))
              + 15 * Share(Least(t.chars, 120), 120)
              + 10 * Share(Least(coverage, 200), 200)
  IN  IF confidence = Nil THEN Rounded(text, 100)
      ELSE Rounded(70 * text + 3000 * confidence, 10000)

LevelForScore(score) ==
  CASE score >= 9000 -> "accepted"
    [] score >= 7000 /\ score < 9000 -> "accepted_with_warning"
    [] score >= 4000 /\ score < 7000 -> "needs_review"
    [] score < 4000 -> "failed"

(* A slip for mutation runs: a level of the scorer for a status.            *)
LevelItself(level) == level

(* to_processing_status                                                     *)
StatusOf(level) ==
  IF level = "accepted_with_warning" THEN "accepted" ELSE level

Rank(status) == CASE status = "failed" -> 0
                  [] status = "needs_review" -> 1
                  [] status = "accepted" -> 2

(* Of the levels only the statuses they stand for are told apart.           *)
Worst(one, two) == IF Rank(one) <= Rank(two) THEN one ELSE two

-----------------------------------------------------------------------------
(* OCR candidates.                                                          *)

(* What Tesseract reads under one plan.  confidence is its mean confidence. *)
Reading == [text: Text, says: DOMAIN Similarity,
            confidence: 0 .. Whole \cup {Nil}, coverage: 0 .. Whole]

Candidate == [route: {"full_page_ocr", "region_ocr"}, plan: Nat,
              reading: Reading]

ScoreOf(c) ==
  QualityScore(c.reading.text, c.reading.confidence, c.reading.coverage)

(* The mean similarity with the three candidates most alike.                *)
Agreement(c, batch) ==
  LET Like(d) == Similarity[c.reading.says][d.reading.says]
      three == CHOOSE S \in SUBSET (batch \ {c}) :
                 /\ Cardinality(S) = Least(3, Cardinality(batch) - 1)
                 /\ \A d \in batch \ {c}, e \in S :
                      d \in S \/ Like(e) >= Like(d)
  IN  IF batch = {c} THEN Nil
      ELSE Rounded(SumFunction([d \in three |-> Like(d)]), Cardinality(three))

(* apply_quality_gate with the defaults of QualityGatePolicy, but for the   *)
(* quality score.                                                           *)
ReadsWell(c, agreement) ==
  LET r == c.reading IN
  /\ r.text.chars >= 10 /\ r.text.words >= 2
  /\ r.confidence # Nil /\ r.confidence >= 5500
  /\ Meaningful(r.text) >= 5500
  /\ Garbage(r.text.damaged, r.text) <= 800
  /\ Repetition(r.text) <= 7500
  /\ r.coverage >= 5
  /\ agreement # Nil => agreement >= 4500

Passes(c, batch) ==
  ReadsWell(c, Agreement(c, batch)) /\ ScoreOf(c) >= 5500

Confidence(c) ==
  IF c.reading.confidence = Nil THEN 0 ELSE c.reading.confidence

SelectionScore(c, batch) ==
  LET agreement == Agreement(c, batch)
  IN  IF agreement = Nil
      THEN Rounded(5625 * ScoreOf(c) + 4375 * Confidence(c), 10000)
      ELSE Rounded(45 * ScoreOf(c) + 35 * Confidence(c) + 20 * agreement, 100)

(* _candidate_sort_key.  Ties go by plan and text.                          *)
SortKey(c, batch) == <<SelectionScore(c, batch), ScoreOf(c), Confidence(c)>>

NotAfter(one, two) ==
  \/ one[1] > two[1]
  \/ one[1] = two[1] /\ one[2] > two[2]
  \/ one[1] = two[1] /\ one[2] = two[2] /\ one[3] >= two[3]

FirstBy(some, key) ==
  CHOOSE c \in some : \A d \in some : NotAfter(key[c], key[d])

First(some, batch) == FirstBy(some, [c \in batch |-> SortKey(c, batch)])

(* Of those that passed, by route.  A region candidate is only preferred    *)
(* with the advantage.                                                      *)
Preferred(full, region, key) ==
  IF full \cup region = {} THEN Nil
  ELSE IF region = {} THEN FirstBy(full, key)
  ELSE IF full = {} THEN FirstBy(region, key)
  ELSE IF key[FirstBy(region, key)][1]
            >= key[FirstBy(full, key)][1] + ADVANTAGE
  THEN FirstBy(region, key) ELSE FirstBy(full, key)

(* select_candidate: Nil if none passes.                                    *)
Selected(batch) ==
  LET valid == {c \in batch : Passes(c, batch)}
  IN  Preferred({c \in valid : c.route = "full_page_ocr"},
                {c \in valid : c.route = "region_ocr"},
                [c \in batch |-> SortKey(c, batch)])

-----------------------------------------------------------------------------
(* What is seen of a PDF page: its native text and whether it has blocks,   *)
(* the shares of its area that images cover and that are not white.         *)
Evidence == [native: Text, blocks: BOOLEAN, images: 0 .. Whole,
             ink: 0 .. Whole]

(* A slip for mutation runs: enough native text will do.                    *)
LongNative(e) == e.native.chars >= 40 /\ e.blocks

(* Usable native text.                                                      *)
UsableNative(e) ==
  e.native.chars >= 40 /\ Meaningful(e.native) >= 5500 /\ e.blocks

(* classify_page, with the defaults of PageClassificationPolicy; accepted:  *)
(* some OCR candidate was selected.                                         *)
PageType(e, accepted) ==
  LET limited == e.native.chars >= 5 IN
  IF UsableNative(e)
  THEN IF e.images >= 2500 /\ e.ink >= 100 THEN "mixed" ELSE "digital"
  ELSE IF limited
  THEN IF e.ink >= 500 \/ e.images >= 2500 \/ accepted THEN "mixed"
       ELSE "unknown"
  ELSE IF accepted \/ (e.images >= 5000 /\ e.ink >= 100) \/ e.ink >= 500
  THEN "scanned"
  ELSE IF e.ink <= 30 THEN "empty" ELSE "unknown"

-----------------------------------------------------------------------------
(* A PageResult: index is the text that is indexed; passed tells whether    *)
(* its OCR text, if any, is that of a candidate that passed the gate.       *)
PageResult ==
  [type: PageTypes, status: Statuses, route: PageRoutes, gate: BOOLEAN,
   native: Text, ocr: Text, index: Text, passed: BOOLEAN,
   quality: Nat \cup {Nil}, agreement: Nat \cup {Nil}]

(* derive_index_text: an identical copy is dropped, else both are kept.     *)
(* The layers share all of their distinct words, or none.                   *)
IndexTexts(native, ocr) ==
  IF Empty(native) THEN {ocr} ELSE IF Empty(ocr) THEN {native}
  ELSE {t \in {native} : ocr = native}
       \cup {[chars |-> native.chars + ocr.chars,
              alnum |-> native.alnum + ocr.alnum,
              garbage |-> native.garbage + ocr.garbage,
              damaged |-> native.damaged + ocr.damaged,
              words |-> native.words + ocr.words,
              distinct |-> d] :
               d \in {native.distinct + ocr.distinct,
                      Max({native.distinct, ocr.distinct})}}

(* validate_page_policy: other pages are a ValidationError, which no        *)
(* extractor and no router handles.                                         *)
ValidPage(p) ==
  /\ p.route = "native" => ~Empty(p.native)
  /\ p.route \in {"full_page_ocr", "region_ocr"} => ~Empty(p.ocr)
  /\ p.route = "combined" => ~Empty(p.native) /\ ~Empty(p.ocr)
  /\ p.status = "accepted" =>
       /\ p.route # "rejected" /\ p.gate /\ ~Empty(p.index)
       /\ p.type # "unknown"
       /\ p.type = "mixed" => p.route = "combined"
       /\ p.type = "scanned" => p.route \in {"full_page_ocr", "region_ocr"}

(* score_page                                                               *)
PageScore(p) ==
  LET text == ScoreText(p.index)
      decided == IF p.quality = Nil THEN 100 * text
                 ELSE 60 * text + 40 * p.quality
      agreed == IF ~Empty(p.native) /\ ~Empty(p.ocr) /\ p.agreement # Nil
                THEN 85 * decided + 1500 * p.agreement
                ELSE 100 * decided
  IN  IF Empty(p.index) \/ p.type = "empty" THEN 0
      ELSE IF p.route = "rejected"
      THEN Least(Rounded(agreed, 10000), 3999)
      ELSE Rounded(agreed, 10000)

(* The scorer's verdict, never above the status of the extractor.           *)
PageVerdict(p) == Worst(StatusOf(LevelForScore(PageScore(p))), p.status)

=============================================================================
