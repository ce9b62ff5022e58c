------------------------------ MODULE Regions ------------------------------
(***************************************************************************)
(* What is computed of the words that Tesseract finds on a page: regions of  *)
(* text (eda/ocr_regions.py), boxes without duplicates and their reading     *)
(* order (eda/adaptive_ocr.py), and text with its lines (eda/ocr.py).        *)
(***************************************************************************)
EXTENDS Boxes, SequencesExt

CONSTANT Nil

Directions == {"rtl", "ltr"}

(* A row of image_to_data.  Paragraphs are numbered within their block and  *)
(* lines within their paragraph.  Blank rows have no text, rows that are no *)
(* word no confidence, which is in percent.                                 *)
Word == [text: STRING, block: Int, par: Int, line: Int,
         confidence: Nat \cup {Nil}, box: Box]

(* An OCRRegion; probe is the texts of its words.                           *)
Region == [id: Nat, block: Nat, box: Box, probe: Seq(STRING)]

Blank(w) == w.text = ""

-----------------------------------------------------------------------------
(* detect_text_regions                                                      *)

Counted(w) ==
  /\ ~Blank(w) /\ w.block > 0 /\ w.confidence # Nil
  /\ Width(w.box) > 0 /\ Height(w.box) > 0

OfBlock(words, block) ==
  Only(words, {w \in ToSet(words) : Counted(w) /\ w.block = block})

(* The blocks in the order in which they are met.                           *)
Blocks(words) ==
  LET counted == Only(words, {w \in ToSet(words) : Counted(w)})
  IN  Once([k \in DOMAIN counted |-> counted[k].block])

(* MIN_SINGLE_WORD_CONFIDENCE: a word alone has to be read well.            *)
Lone(words) == Len(words) = 1 /\ words[1].confidence < 50

Texts(words) == [k \in DOMAIN words |-> words[k].text]

Extent(words) == Hull([k \in DOMAIN words |-> words[k].box])

RegionOf(block, words, padding) ==
  [id |-> 0, block |-> block, probe |-> Texts(words),
   box |-> Padded(Extent(words), padding, padding, padding, padding)]

(* A row is about a hundredth of the page.                                  *)
RowStep == Greater(20, HEIGHT \div 100)

Across(b, direction) == IF direction = "rtl" THEN -b.right ELSE b.left

(* region_sort_key                                                          *)
RegionKey(b, direction) ==
  <<RoundHalfEven(b.top, RowStep), Across(b, direction)>>

Renumbered(regions) ==
  [k \in DOMAIN regions |-> [regions[k] EXCEPT !.id = k]]

InRows(regions, direction) ==
  Renumbered(Sorted(regions, [k \in DOMAIN regions |->
                                RegionKey(regions[k].box, direction)]))

DetectTextRegions(words, padding, direction) ==
  LET met == Blocks(words)
      blocks == Only(met, {b \in ToSet(met) : ~Lone(OfBlock(words, b))})
  IN  InRows([k \in DOMAIN blocks |->
                RegionOf(blocks[k], OfBlock(words, blocks[k]), padding)],
             direction)

-----------------------------------------------------------------------------
(* merge_overlapping_regions                                                *)

(* should_merge_regions, with the ratio 0.60                                *)
ShouldMergeRegions(a, b) ==
  /\ VerticalOverlap(a, b) > 0
  /\ Lesser(Width(a), Width(b)) > 0
  /\ 10 * HorizontalOverlap(a, b) >= 6 * Lesser(Width(a), Width(b))

(* One turn of find's loop: path halving.  At a root it changes nothing.    *)
Halve(walk) ==
  LET grand == walk.parents[walk.parents[walk.at]]
  IN  [parents |-> [walk.parents EXCEPT ![walk.at] = grand], at |-> grand]

(* find: the root, and the parents it leaves.                               *)
Find(parents, index) ==
  LET walk[n \in 0 .. Len(parents)] ==
        IF n = 0 THEN [parents |-> parents, at |-> index]
        ELSE Halve(walk[n - 1])
  IN  walk[Len(parents)]

Root(parents, index) == Find(parents, index).at

(* A slip for mutation runs: the second region itself is hung up, not its   *)
(* root.                                                                    *)
Hang(parents, first, second) ==
  [parents EXCEPT ![second] = Root(parents, first)]

(* union                                                                    *)
Union(parents, first, second) ==
  LET one == Find(parents, first)
      two == Find(one.parents, second)
  IN  IF one.at = two.at THEN two.parents
      ELSE [two.parents EXCEPT ![two.at] = one.at]

(* merge_region_group, of regions by their ids                              *)
MergeRegionGroup(group) ==
  LET regions == Sorted(group, [k \in DOMAIN group |-> <<group[k].id>>])
      blocks == {regions[k].block : k \in DOMAIN regions}
  IN  [id |-> 0,
       block |-> CHOOSE b \in blocks : \A c \in blocks : b <= c,
       box |-> Hull([k \in DOMAIN regions |-> regions[k].box]),
       probe |-> Flat([k \in DOMAIN regions |-> regions[k].probe])]

(* The regions below each root, roots in the order in which they are met.   *)
Groups(regions, parents) ==
  LET roots == Once([k \in DOMAIN regions |-> Root(parents, k)])
  IN  [g \in DOMAIN roots |->
         Only(regions, {r \in ToSet(regions) :
                          Root(parents, r.id) = roots[g]})]

MergedRegions(regions, parents, direction) ==
  LET groups == Groups(regions, parents)
  IN  InRows([g \in DOMAIN groups |-> MergeRegionGroup(groups[g])], direction)

(* expand_regions_vertically, with the script's default padding             *)
VerticalPadding == Greater(24, RoundHalfEven(25 * HEIGHT, 1000))

Expanded(regions) ==
  [k \in DOMAIN regions |->
     [regions[k] EXCEPT !.box = Padded(@, 0, VerticalPadding,
                                       0, VerticalPadding)]]

-----------------------------------------------------------------------------
(* sanitize_region_boxes                                                    *)

Within(low, x, high) == Greater(low, Lesser(x, high))

Clamped(b) ==
  B(Within(0, b.left, WIDTH), Within(0, b.top, HEIGHT),
    Within(0, b.right, WIDTH), Within(0, b.bottom, HEIGHT))

(* _intersection_over_minimum of at least 0.85                              *)
Duplicates(a, b) ==
  LET shared == HorizontalOverlap(a, b) * VerticalOverlap(a, b)
  IN  /\ shared > 0
      /\ 100 * shared >= 85 * Greater(1, Lesser(Area(a), Area(b)))

(* A slip for mutation runs: of duplicates the first is kept as it is.      *)
FirstKept(valid, raw) ==
  IF ~Proper(Clamped(raw))
       \/ \E k \in DOMAIN valid : Duplicates(valid[k], Clamped(raw))
  THEN valid ELSE Append(valid, Clamped(raw))

(* One turn of the loop: the box goes into the first it duplicates.         *)
Sanitized(valid, raw) ==
  LET box == Clamped(raw)
      like == {k \in DOMAIN valid : Duplicates(valid[k], box)}
      first == CHOOSE k \in like : \A l \in like : k <= l
  IN  IF ~Proper(box) THEN valid
      ELSE IF like = {} THEN Append(valid, box)
      ELSE [valid EXCEPT ![first] = Around(@, box)]

(* sorted(set(valid))                                                       *)
Distinct(valid) ==
  LET once == Once(valid)
  IN  Sorted(once, [k \in DOMAIN once |->
        <<once[k].top, once[k].left, once[k].right, once[k].bottom>>])

-----------------------------------------------------------------------------
(* order_region_boxes                                                       *)

Spanning(b) == 10 * Width(b) >= 7 * WIDTH

(* A slip for mutation runs: a column is left in the order in which it grew. *)
AsJoined(boxes, direction) == boxes

Downwards(boxes, direction) ==
  Sorted(boxes, [k \in DOMAIN boxes |->
                   <<boxes[k].top, Across(boxes[k], direction)>>])

ByTop(boxes) == Sorted(boxes, [k \in DOMAIN boxes |-> <<boxes[k].top>>])

(* Whether a box shares a quarter of the width with a column.               *)
InColumn(column, b) ==
  LET all == Hull(column)
  IN  4 * HorizontalOverlap(all, b)
        >= Greater(1, Lesser(Width(all), Width(b)))

(* The box joins the first column it fits, or starts one.                   *)
Joined(columns, b) ==
  LET fit == {c \in DOMAIN columns : InColumn(columns[c], b)}
      first == CHOOSE c \in fit : \A d \in fit : c <= d
  IN  IF fit = {} THEN Append(columns, <<b>>)
      ELSE [columns EXCEPT ![first] = Append(@, b)]

Columns(boxes, direction) ==
  LET across == Sorted(boxes, [k \in DOMAIN boxes |->
                                 <<boxes[k].left, boxes[k].top>>])
      joined[k \in 0 .. Len(across)] ==
        IF k = 0 THEN <<>> ELSE Joined(joined[k - 1], across[k])
      columns == joined[Len(across)]
      Right(c) == Hull(columns[c]).right
  IN  Sorted(columns, [c \in DOMAIN columns |->
                <<IF direction = "rtl" THEN -Right(c) ELSE Right(c)>>])

(* Boxes across the page are headers, footers, or come between the columns  *)
(* and the footers.                                                         *)
OrderRegionBoxes(boxes, direction) ==
  LET wide == Only(boxes, {b \in ToSet(boxes) : Spanning(b)})
      narrow == Only(boxes, ToSet(boxes) \ ToSet(wide))
      columns == Columns(narrow, direction)
      headers == {b \in ToSet(wide) : b.bottom <= Hull(narrow).top}
      footers == {b \in ToSet(wide) : b.top >= Hull(narrow).bottom}
  IN  IF narrow = <<>> THEN Downwards(wide, direction)
      ELSE ByTop(Only(wide, headers))
             \o Flat([c \in DOMAIN columns |->
                        Downwards(columns[c], direction)])
             \o ByTop(Only(wide, ToSet(wide) \ (headers \cup footers)))
             \o ByTop(Only(wide, footers))

-----------------------------------------------------------------------------
(* reconstruct_text: the words as lines, an empty one between blocks.       *)

(* A slip for mutation runs: the paragraph is forgotten.                    *)
LineOfAnyParagraph(w) == <<w.block, w.line>>

LineKey(w) == <<w.block, w.par, w.line>>

Flushed(text) ==
  IF text.current = <<>> THEN text.lines
  ELSE Append(text.lines, text.current)

(* After the next word, which may open a line, and a block.                 *)
Written(text, w) ==
  IF Blank(w) THEN text
  ELSE IF LineKey(w) = text.key
  THEN [text EXCEPT !.current = Append(@, w.text)]
  ELSE [lines |-> IF text.key # <<>> /\ text.key[1] # w.block
                  THEN Append(Flushed(text), <<>>) ELSE Flushed(text),
        current |-> <<w.text>>, key |-> LineKey(w)]

ReconstructText(words) ==
  LET written[k \in 0 .. Len(words)] ==
        IF k = 0 THEN [lines |-> <<>>, current |-> <<>>, key |-> <<>>]
        ELSE Written(written[k - 1], words[k])
  IN  Flushed(written[Len(words)])

=============================================================================
