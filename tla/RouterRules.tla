---------------------------- MODULE RouterRules ----------------------------
(***************************************************************************)
(* What scripts/adaptive_ocr_router.py computes of texts, OCR candidates     *)
(* and boxes, without steps.                                                 *)
(*                                                                          *)
(* A text is what its score counts in it.  Scores, confidences and           *)
(* agreement are in hundredths of a point, shares in parts of 10000.         *)
(***************************************************************************)
EXTENDS Boxes, SequencesExt

CONSTANTS
  Nil,
  Alike,    (* SequenceMatcher's ratio of what two texts say                *)
  Overlap   (* the share of words they have in common                       *)

Whole == 10000

Sayings == DOMAIN Alike

(* A normalised text: characters with and without spaces, letters and       *)
(* digits, these and known punctuation, replacement characters, words.      *)
Text ==
  {t \in [says: Sayings, length: Nat, chars: Nat, alnum: Nat, valid: Nat,
          damaged: Nat, words: Nat, distinct: Nat] :
     /\ t.alnum <= t.valid /\ t.valid + t.damaged <= t.chars
     /\ t.chars <= t.length /\ t.distinct <= t.words
     /\ t.chars = 0 => t.length = 0 /\ t.words = 0
     /\ t.chars > 0 => t.words > 0}

Empty(t) == t.chars = 0

(* What Tesseract reads in one call, and its mean confidence.               *)
Reading == [text: Text, confidence: 0 .. Whole]

(* ratio depends on the order of the two, and is 1 of a text and itself.    *)
ASSUME SimilarityAssumption ==
  /\ Alike \in [Sayings -> [Sayings -> 0 .. Whole]]
  /\ \A s \in Sayings : Alike[s][s] = Whole
  /\ Overlap \in [Sayings -> [Sayings -> 0 .. Whole]]

-----------------------------------------------------------------------------
(* Scores.                                                                  *)

(* round(a / b), of what is not negative.                                   *)
Rounded(a, b) == (2 * a + b) \div (2 * b)

Share(n, of) == Rounded(Whole * n, of)

(* calculate_text_quality without a confidence                              *)
TextQuality(t) ==
  LET base ==   35 * Share(t.alnum, t.chars) + 25 * Share(t.valid, t.chars)
              + 20 * Share(Lesser(t.chars, 250), 250)
              + 20 * Share(Lesser(t.words, 35), 35)
              - 100 * Share(t.damaged, t.chars)
              - IF 4 * t.distinct < t.words THEN 15 * Whole ELSE 0
  IN  IF Empty(t) THEN 0
      ELSE Rounded(Greater(0, Lesser(100 * Whole, base)), 100)

ReadingQuality(t, confidence) ==
  IF Empty(t) THEN 0
  ELSE Rounded(55 * TextQuality(t) + 45 * confidence, 100)

(* calculate_candidate_similarity                                           *)
Similarity(t, u) ==
  IF Empty(t) \/ Empty(u) THEN 0
  ELSE Rounded(45 * Alike[t.says][u.says] + 55 * Overlap[t.says][u.says], 100)

(* candidate_route_score, which is the selection score, too                 *)
RouteScore(quality, confidence, agreement) ==
  Rounded(40 * quality + 35 * confidence + 25 * agreement, 100)

(* An OCRCandidate.                                                         *)
Candidate == [text: Text, confidence: 0 .. Whole, quality: 0 .. Whole,
              agreement: 0 .. Whole]

ScoreOf(c) ==
  IF c = Nil THEN 0 ELSE RouteScore(c.quality, c.confidence, c.agreement)

(* The mean similarity with the three others most like it: of the others,   *)
(* in the order of their similarity, the first three.                       *)
Agreement(readings, k) ==
  LET others == RemoveAt(readings, k)
      like == Sorted([n \in DOMAIN others |->
                        Similarity(readings[k].text, others[n].text)],
                     [n \in DOMAIN others |->
                        <<-Similarity(readings[k].text, others[n].text)>>])
      three == SubSeq(like, 1, Lesser(3, Len(like)))
  IN  IF others = <<>> THEN Whole
      ELSE Rounded(SumFunction(three), Len(three))

(* calculate_candidate_consensus                                            *)
Candidates(readings) ==
  [k \in DOMAIN readings |->
     [text |-> readings[k].text, confidence |-> readings[k].confidence,
      quality |-> ReadingQuality(readings[k].text, readings[k].confidence),
      agreement |-> Agreement(readings, k)]]

(* select_best_ocr_candidate: the first in the order of the scores.         *)
BestOf(candidates) ==
  IF candidates = <<>> THEN Nil
  ELSE Sorted(candidates,
              [k \in DOMAIN candidates |->
                 <<-ScoreOf(candidates[k]), -candidates[k].quality,
                   -candidates[k].confidence, -candidates[k].text.length>>])[1]

(* candidate_passes_quality_gate                                            *)
Passes(c) ==
  /\ c # Nil
  /\ c.confidence >= 5500 /\ c.quality >= 5500 /\ c.agreement >= 5500
  /\ c.text.length >= 10

(* is_duplicate_text: nothing, or almost what one of the others says.       *)
Repeats(t, texts) ==
  \/ Empty(t)
  \/ \E k \in DOMAIN texts : Alike[t.says][texts[k].says] >= 9000

(* The texts one below the other.  shared tells whether their words are     *)
(* among those of the longest, or all different.                            *)
Joined(texts, shared) ==
  LET Of(field) == [k \in DOMAIN texts |-> texts[k][field]]
      All(field) == SumFunction(Of(field))
  IN  [says |-> texts[1].says,
       length |-> All("length") + 2 * (Len(texts) - 1),
       chars |-> All("chars"), alnum |-> All("alnum"),
       valid |-> All("valid"), damaged |-> All("damaged"),
       words |-> All("words"),
       distinct |-> IF shared THEN Max(ToSet(Of("distinct")))
                    ELSE All("distinct")]

(* The region candidate: means are weighted by words.                       *)
Combined(kept, shared) ==
  LET text == Joined([k \in DOMAIN kept |-> kept[k].text], shared)
      Weight(k) == Greater(kept[k].text.words, 1)
      Mean(of) == Rounded(SumFunction([k \in DOMAIN kept |-> of[k] * Weight(k)]),
                          SumFunction([k \in DOMAIN kept |-> Weight(k)]))
      confidence == Mean([k \in DOMAIN kept |-> kept[k].confidence])
      agreement == Mean([k \in DOMAIN kept |-> kept[k].agreement])
  IN  [text |-> text, confidence |-> confidence, agreement |-> agreement,
       quality |-> ReadingQuality(text, confidence)]

-----------------------------------------------------------------------------
(* Boxes.                                                                   *)

(* The contours that may be text: not too small, and not the page itself.   *)
TextLike(b) ==
  /\ Area(b) > (3 * WIDTH * HEIGHT - 1) \div 20000
  /\ Width(b) >= 45 /\ Height(b) >= 14
  /\ ~(100 * Width(b) > 98 * WIDTH /\ 100 * Height(b) > 95 * HEIGHT)

(* The boxes that merging starts with, in the order of the contours.        *)
Detected(contours) ==
  LET found[n \in 0 .. Len(contours)] ==
        IF n = 0 THEN <<>>
        ELSE IF TextLike(contours[n]) THEN Append(found[n - 1], contours[n])
        ELSE found[n - 1]
  IN  found[Len(contours)]

(* boxes_overlap                                                            *)
BoxesOverlap(a, b) ==
  LET shared == HorizontalOverlap(a, b) * VerticalOverlap(a, b)
  IN  shared > 0 /\ 100 * shared >= 15 * Lesser(Area(a), Area(b))

NarrowerWidth(a, b) == Greater(1, Lesser(Width(a), Width(b)))

(* should_merge_boxes: they overlap, or are close below each other.         *)
ShouldMergeBoxes(a, b) ==
  \/ BoxesOverlap(a, b)
  \/ /\ 10 * HorizontalOverlap(a, b) >= 3 * NarrowerWidth(a, b)
     /\ Greater(a.top, b.top) - Lesser(a.bottom, b.bottom)
          <= Greater(35, (8 * Lesser(Height(a), Height(b))) \div 10)

(* The inner loop of merge_detected_boxes: the first box takes in whatever  *)
(* is to be merged with what it has become.                                 *)
Absorbed(boxes) ==
  LET grown[n \in DOMAIN boxes] ==
        IF n = 1 THEN [box |-> boxes[1], rest |-> <<>>]
        ELSE IF ShouldMergeBoxes(grown[n - 1].box, boxes[n])
        THEN [box |-> Around(grown[n - 1].box, boxes[n]),
              rest |-> grown[n - 1].rest]
        ELSE [box |-> grown[n - 1].box,
              rest |-> Append(grown[n - 1].rest, boxes[n])]
  IN  grown[Len(boxes)]

(* count_meaningful_regions: of a thousandth to four fifths of the page.    *)
Meaningful(boxes) ==
  Cardinality({k \in DOMAIN boxes :
                 /\ 1000 * Area(boxes[k]) >= WIDTH * HEIGHT
                 /\ 5 * Area(boxes[k]) <= 4 * WIDTH * HEIGHT})

(* COMPLEX_LAYOUT_MIN_REGIONS                                               *)
Complex(boxes) == Meaningful(boxes) >= 3

Neighbours(boxes, k) ==
  {n \in DOMAIN boxes \ {k} :
     5 * HorizontalOverlap(boxes[k], boxes[n])
       >= NarrowerWidth(boxes[k], boxes[n])}

(* A slip for mutation runs: a box takes all of the gap.                    *)
AllOf(gap) == Lesser(90, Greater(0, gap))

(* Half of the gap at most, and MAX_VERTICAL_PADDING.                       *)
HalfOf(gap) == Lesser(90, Greater(0, gap) \div 2)

Greatest(S) == CHOOSE x \in S : \A y \in S : y <= x
Smallest(S) == CHOOSE x \in S : \A y \in S : x <= y

(* add_neighbor_aware_padding                                               *)
PaddedBox(boxes, k) ==
  LET box == boxes[k]
      near == Neighbours(boxes, k)
      above == {n \in near : boxes[n].bottom <= box.top}
      below == {n \in near : boxes[n].top >= box.bottom}
      up == Greatest({0} \cup {boxes[n].bottom : n \in above})
      down == Smallest({HEIGHT} \cup {boxes[n].top : n \in below})
      sideways == Lesser(30, Greater(12, Width(box) \div 40))
  IN  Padded(box, sideways, HalfOf(box.top - up),
             sideways, HalfOf(down - box.bottom))

=============================================================================
