------------------------------- MODULE Boxes -------------------------------
(***************************************************************************)
(* Boxes on a rendered page, in pixels, and what the region detectors        *)
(* compute of them (eda/ocr_regions.py, eda/adaptive_ocr.py,                  *)
(* scripts/adaptive_ocr_router.py).                                          *)
(***************************************************************************)
EXTENDS Lists

CONSTANTS
  WIDTH,   (* of the page                                                   *)
  HEIGHT

ASSUME PageAssumption == {WIDTH, HEIGHT} \subseteq Nat \ {0}

Box == [left: Int, top: Int, right: Int, bottom: Int]

B(left, top, right, bottom) ==
  [left |-> left, top |-> top, right |-> right, bottom |-> bottom]

Lesser(a, b) == IF a <= b THEN a ELSE b
Greater(a, b) == IF a >= b THEN a ELSE b

Width(b) == b.right - b.left
Height(b) == b.bottom - b.top
Area(b) == Width(b) * Height(b)

(* Boxes of the page that cover a part of it.                               *)
Proper(b) ==
  /\ 0 <= b.left /\ b.left < b.right /\ b.right <= WIDTH
  /\ 0 <= b.top /\ b.top < b.bottom /\ b.bottom <= HEIGHT

Inside(a, b) ==
  /\ b.left <= a.left /\ a.right <= b.right
  /\ b.top <= a.top /\ a.bottom <= b.bottom

(* get_horizontal_overlap, get_vertical_overlap                             *)
HorizontalOverlap(a, b) ==
  Greater(0, Lesser(a.right, b.right) - Greater(a.left, b.left))

VerticalOverlap(a, b) ==
  Greater(0, Lesser(a.bottom, b.bottom) - Greater(a.top, b.top))

(* The smallest box around two.                                             *)
Around(a, b) ==
  B(Lesser(a.left, b.left), Lesser(a.top, b.top),
    Greater(a.right, b.right), Greater(a.bottom, b.bottom))

(* The smallest box around those of a sequence that is not empty.           *)
Hull(s) ==
  LET around[k \in DOMAIN s] ==
        IF k = 1 THEN s[1] ELSE Around(around[k - 1], s[k])
  IN  around[Len(s)]

(* A slip for mutation runs: padding leaves the page.                       *)
Unbounded(b, left, top, right, bottom) ==
  B(b.left - left, b.top - top, b.right + right, b.bottom + bottom)

(* expand_box, with a padding of its own for each side                      *)
Padded(b, left, top, right, bottom) ==
  B(Greater(0, b.left - left), Greater(0, b.top - top),
    Lesser(WIDTH, b.right + right), Lesser(HEIGHT, b.bottom + bottom))

-----------------------------------------------------------------------------
(* Python's round of a / b: a half goes to the even neighbour.              *)
RoundHalfEven(a, b) ==
  LET low == a \div b
      twice == 2 * (a % b)
  IN  IF twice > b \/ (twice = b /\ low % 2 = 1) THEN low + 1 ELSE low

=============================================================================
