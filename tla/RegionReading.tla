--------------------------- MODULE RegionReading ---------------------------
(***************************************************************************)
(* From the words a probe finds on a page to the texts of its regions, step  *)
(* by step, as the two programs of the repository do it that share           *)
(* detect_text_regions: the region candidate of the adaptive pipeline        *)
(* (eda/adaptive_ocr.py) and scripts/ocr_pdf_regions.py.                     *)
(***************************************************************************)
EXTENDS Regions

CONSTANTS
  Layouts   (* what a probe finds: sequences of words                       *)

Tools == {"pipeline", "script"}

(* Tesseract's boxes lie on the image.                                      *)
ASSUME LayoutsAssumption ==
  \A words \in Layouts :
    /\ words \in Seq(Word)
    /\ \A k \in DOMAIN words : Inside(words[k].box, B(0, 0, WIDTH, HEIGHT))

Stages == {"probe", "compare", "merge", "expand", "sanitize", "order",
           "read", "done", "failed"}

VARIABLES
  tool, direction, words,
  stage,    (* what comes next                                              *)
  regions,  (* the regions detected, then merged                            *)
  parents,  (* of merge_overlapping_regions                                 *)
  at,       (* the number of the region or box to take next                 *)
  other,    (* the region to compare it with                                *)
  boxes,    (* the boxes to read, in order                                  *)
  read      (* the boxes read, with their lines                             *)

vars == <<tool, direction, words, stage, regions, parents, at, other, boxes,
          read>>

page == <<tool, direction, words>>

(* A region that was read.                                                  *)
Reading == [box: Box, lines: Seq(Seq(STRING))]

TypeOK ==
  /\ tool \in Tools /\ direction \in Directions
  /\ words \in Seq(Word)
  /\ stage \in Stages
  /\ regions \in Seq(Region)
  /\ \A k \in DOMAIN regions : regions[k].id = k
  /\ parents \in Seq(Nat) /\ ToSet(parents) \subseteq DOMAIN parents
  /\ at \in Nat \ {0} /\ other \in Nat \ {0}
  /\ boxes \in Seq(Box)
  /\ stage = "read" => \A k \in DOMAIN boxes : Proper(boxes[k])
  /\ read \in Seq(Reading)

Init ==
  /\ tool \in Tools /\ direction \in Directions /\ words \in Layouts
  /\ stage = "probe"
  /\ regions = <<>> /\ parents = <<>>
  /\ at = 1 /\ other = 2
  /\ boxes = <<>> /\ read = <<>>

-----------------------------------------------------------------------------
(* The probe, which both programs pad differently.                          *)
Padding == IF tool = "pipeline" THEN 12 ELSE 18

Detect ==
  /\ stage = "probe"
  /\ regions' = DetectTextRegions(words, Padding, direction)
  /\ parents' = [k \in DOMAIN regions' |-> k]
  /\ stage' = IF tool = "pipeline" THEN "sanitize" ELSE "compare"
  /\ UNCHANGED <<page, at, other, boxes, read>>

(* Tesseract times out or refuses, in the probe or on a region: the script  *)
(* ends, the pipeline goes on without this candidate.                       *)
Fail ==
  /\ stage \in {"probe", "read"}
  /\ stage = "read" => at \in DOMAIN boxes
  /\ stage' = "failed"
  /\ UNCHANGED <<page, regions, parents, at, other, boxes, read>>

-----------------------------------------------------------------------------
(* The script: every two regions are compared.                              *)

Compare ==
  /\ stage = "compare" /\ at < Len(regions)
  /\ parents' = IF ShouldMergeRegions(regions[at].box, regions[other].box)
                THEN Union(parents, at, other) ELSE parents
  /\ IF other < Len(regions)
     THEN at' = at /\ other' = other + 1
     ELSE at' = at + 1 /\ other' = at + 2
  /\ UNCHANGED <<page, stage, regions, boxes, read>>

Compared ==
  /\ stage = "compare" /\ at >= Len(regions)
  /\ stage' = "merge"
  /\ UNCHANGED <<page, regions, parents, at, other, boxes, read>>

Merge ==
  /\ stage = "merge"
  /\ regions' = MergedRegions(regions, parents, direction)
  /\ stage' = "expand"
  /\ UNCHANGED <<page, parents, at, other, boxes, read>>

Expand ==
  /\ stage = "expand"
  /\ LET expanded == Expanded(regions)
     IN  boxes' = [k \in DOMAIN expanded |-> expanded[k].box]
  /\ stage' = "read" /\ at' = 1
  /\ UNCHANGED <<page, regions, parents, other, read>>

-----------------------------------------------------------------------------
(* The pipeline: duplicates are merged, and what is left is put in order.   *)

Sanitize ==
  /\ stage = "sanitize" /\ at \in DOMAIN regions
  /\ boxes' = Sanitized(boxes, regions[at].box)
  /\ at' = at + 1
  /\ UNCHANGED <<page, stage, regions, parents, other, read>>

Dedupe ==
  /\ stage = "sanitize" /\ at \notin DOMAIN regions
  /\ boxes' = Distinct(boxes)
  /\ stage' = "order"
  /\ UNCHANGED <<page, regions, parents, at, other, read>>

Order ==
  /\ stage = "order"
  /\ boxes' = OrderRegionBoxes(boxes, direction)
  /\ stage' = "read" /\ at' = 1
  /\ UNCHANGED <<page, regions, parents, other, read>>

-----------------------------------------------------------------------------
(* What Tesseract finds in a crop is taken to be the words that lie in it.  *)
WordsIn(box) == Only(words, {w \in ToSet(words) : Inside(w.box, box)})

(* A text without its lines.                                                *)
Key(lines) == Flat(lines)

(* The pipeline leaves out a region whose text is empty or was seen.        *)
LeftOut(lines) ==
  /\ tool = "pipeline"
  /\ \/ Key(lines) = <<>>
     \/ \E k \in DOMAIN read : Key(read[k].lines) = Key(lines)

ReadRegion ==
  /\ stage = "read" /\ at \in DOMAIN boxes
  /\ LET lines == ReconstructText(WordsIn(boxes[at]))
     IN  read' = IF LeftOut(lines) THEN read
                 ELSE Append(read, [box |-> boxes[at], lines |-> lines])
  /\ at' = at + 1
  /\ UNCHANGED <<page, stage, regions, parents, other, boxes>>

Finish ==
  /\ stage = "read" /\ at \notin DOMAIN boxes
  /\ stage' = "done"
  /\ UNCHANGED <<page, regions, parents, at, other, boxes, read>>

Next ==
  \/ Detect \/ Fail
  \/ Compare \/ Compared \/ Merge \/ Expand
  \/ Sanitize \/ Dedupe \/ Order
  \/ ReadRegion \/ Finish

Spec == Init /\ [][Next]_vars

-----------------------------------------------------------------------------
(* The words that detection counts, but for those that are alone in their   *)
(* block and doubtful.                                                      *)
Detected(w) == Counted(w) /\ ~Lone(OfBlock(words, w.block))

(* Every word that was detected is in a text that was read: it gets lost    *)
(* neither in merging, padding, clamping, duplicates nor order.             *)
WordsAreRead ==
  stage = "done" =>
    \A k \in DOMAIN words : Detected(words[k]) =>
      \E r \in DOMAIN read : Contains(Key(read[r].lines), words[k].text)

(* Sets of regions that should_merge_regions never leads out of.            *)
Closed ==
  {some \in SUBSET DOMAIN regions :
     \A a \in some, b \in (DOMAIN regions) \ some :
       ~ShouldMergeRegions(regions[a].box, regions[b].box)}

(* When all pairs were compared, two regions are below one root if and only  *)
(* if chains of regions to merge connect them, so that no closed set has one *)
(* of them only, whatever path halving did to the parents in between.        *)
RootsAreComponents ==
  stage = "merge" =>
    LET closed == Closed IN
    \A a, b \in DOMAIN regions :
      (Root(parents, a) = Root(parents, b))
        <=> \A some \in closed : a \in some => b \in some

SameColumn(a, b) ==
  4 * HorizontalOverlap(a, b) >= Greater(1, Lesser(Width(a), Width(b)))

(* Boxes that do not go across the page are in columns when any two share   *)
(* a quarter of their width or nothing, and sharing is transitive.          *)
InColumns(narrow) ==
  /\ \A a, b \in narrow : SameColumn(a, b) \/ HorizontalOverlap(a, b) = 0
  /\ \A a, b, c \in narrow :
       SameColumn(a, b) /\ SameColumn(b, c) => SameColumn(a, c)

FirstColumn(a, b) ==
  IF direction = "rtl" THEN a.left >= b.right ELSE a.right <= b.left

(* The boxes of a page in columns are read column by column from the side   *)
(* the language starts at, downwards in each, after what is across the page *)
(* above all of them and before what is below                               *)
(* (docs/document-ingestion-architecture.md: columns top-to-bottom,         *)
(* right-to-left for RTL pages).                                            *)
ColumnsInOrder ==
  stage = "read" /\ tool = "pipeline" =>
    LET narrow == {b \in ToSet(boxes) : ~Spanning(b)} IN
    InColumns(narrow) =>
      \A j \in DOMAIN boxes : \A i \in 1 .. j - 1 :
        LET a == boxes[i]
            b == boxes[j]
        IN  /\ a \in narrow /\ b \in narrow =>
                 IF SameColumn(a, b) THEN a.top <= b.top ELSE FirstColumn(a, b)
            /\ a \in narrow /\ b \notin narrow =>
                 \E c \in narrow : b.bottom > c.top
            /\ a \notin narrow /\ b \in narrow =>
                 \E c \in narrow : a.top < c.bottom

(* Two words of one line on the page, whatever reconstruct_text goes by.    *)
SameLine(v, w) == v.block = w.block /\ v.par = w.par /\ v.line = w.line

Breaks(found, k) == {j \in 2 .. k : ~SameLine(found[j - 1], found[j])}

Parts(found, k) == {j \in 2 .. k : found[j - 1].block # found[j].block}

(* The number of the line that the k-th word belongs on: one more where a   *)
(* line of the page ends, and one more again, left empty, where a block does. *)
LineOf(found, k) ==
  1 + Cardinality(Breaks(found, k)) + Cardinality(Parts(found, k))

(* The k-th word is so many words into its line.                            *)
PlaceOf(found, k) ==
  Cardinality({j \in 1 .. k : LineOf(found, j) = LineOf(found, k)})

(* The text of a region has the words of its crop in order, each one in its *)
(* place on its line, and nothing else: words of two lines of the page      *)
(* never share a line, were they numbered alike in two paragraphs, lines    *)
(* are not torn, and one empty line stands between blocks.                  *)
LinesFollowKeys ==
  \A r \in DOMAIN read :
    LET inside == WordsIn(read[r].box)
        found == Only(inside, {w \in ToSet(inside) : ~Blank(w)})
        lines == read[r].lines
    IN  /\ Key(lines) = Texts(found)
        /\ found # <<>> => Len(lines) = LineOf(found, Len(found))
        /\ \A k \in DOMAIN found :
             /\ LineOf(found, k) \in DOMAIN lines
             /\ PlaceOf(found, k) \in DOMAIN lines[LineOf(found, k)]
             /\ lines[LineOf(found, k)][PlaceOf(found, k)] = found[k].text

=============================================================================
