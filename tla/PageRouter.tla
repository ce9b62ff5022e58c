---------------------------- MODULE PageRouter ----------------------------
(***************************************************************************)
(* process_page of scripts/adaptive_ocr_router.py: one page goes to its      *)
(* native text, to OCR of the whole page or to OCR of its regions.  Every    *)
(* call of Tesseract is a step, and may fail.                                *)
(***************************************************************************)
EXTENDS RouterRules

CONSTANTS
  Pages,         (* pages to process                                        *)
  PAGE_PLANS,    (* language profiles x segmentation modes x preprocessing, *)
  REGION_PLANS   (* of the whole page and of a region                       *)

(* images is the share of the page that images cover, legible what          *)
(* Tesseract can read of it and its regions.                                *)
Page == [native: Text, images: 0 .. Whole, contours: Seq(Box),
         legible: SUBSET Reading]

ASSUME PagesAssumption ==
  /\ \A p \in Pages : p \in Page
  /\ \A p \in Pages : \A k \in DOMAIN p.contours : Proper(p.contours[k])
  /\ {PAGE_PLANS, REGION_PLANS} \subseteq Nat \ {0}

VARIABLES
  page,
  stage,     (* what comes next                                             *)
  boxes,     (* those that a pass of merging has yet to take, then all      *)
  merged,    (* those it made                                               *)
  changed,   (* whether it merged any                                       *)
  crops,     (* the padded boxes                                            *)
  at,        (* the number of the crop to read                              *)
  plan,      (* how many plans were tried on the page, or the crop          *)
  readings,  (* what they read                                              *)
  full,      (* the candidate of the whole page, Nil if there is none       *)
  accepted,  (* the candidates of the crops that are good enough            *)
  kept,      (* those that do not repeat others                             *)
  region,    (* the candidate they make, Nil if there is none               *)
  report     (* the route taken, the text and the gate, Nil before          *)

boxing == <<boxes, merged, changed>>
reading == <<crops, at, plan, readings>>
chosen == <<full, accepted, kept, region>>
vars == <<page, stage, boxing, reading, chosen, report>>

Routes == {"native", "full_page_ocr", "region_ocr"}

Report == [route: Routes, text: Text, passed: BOOLEAN]

TypeOK ==
  /\ page \in Page
  /\ stage \in {"classify", "detect", "merge", "page", "regions", "route",
                "done"}
  /\ boxes \in Seq(Box) /\ merged \in Seq(Box) /\ changed \in BOOLEAN
  /\ crops \in Seq(Box) /\ \A k \in DOMAIN crops : Proper(crops[k])
  /\ at \in Nat \ {0} /\ plan \in 0 .. Greater(PAGE_PLANS, REGION_PLANS)
  /\ readings \in Seq(Reading) /\ Len(readings) <= plan
  /\ full \in Candidate \cup {Nil} /\ region \in Candidate \cup {Nil}
  /\ accepted \in Seq(Candidate) /\ kept \in Seq(Candidate)
  /\ report \in Report \cup {Nil}

Init ==
  /\ page \in Pages
  /\ stage = "classify"
  /\ boxes = <<>> /\ merged = <<>> /\ changed = FALSE
  /\ crops = <<>> /\ at = 1 /\ plan = 0 /\ readings = <<>>
  /\ full = Nil /\ accepted = <<>> /\ kept = <<>> /\ region = Nil
  /\ report = Nil

-----------------------------------------------------------------------------
(* classify_page                                                            *)
PageType(native, images) ==
  IF native.chars < 5
  THEN IF images >= 200 THEN "scanned" ELSE "empty"
  ELSE IF native.chars >= 40 /\ TextQuality(native) >= 6000
  THEN IF images >= 2500 THEN "mixed" ELSE "digital"
  ELSE IF images >= 1500 \/ TextQuality(native) < 6000
  THEN "mixed" ELSE "digital"

NativeReport ==
  [route |-> "native", text |-> page.native,
   passed |-> page.native.chars >= 40 /\ TextQuality(page.native) >= 6000]

Digital == PageType(page.native, page.images) = "digital"

TakeNative ==
  /\ stage = "classify" /\ Digital
  /\ report' = NativeReport
  /\ stage' = "done"
  /\ UNCHANGED <<page, boxing, reading, chosen>>

Detect ==
  /\ stage = "classify" /\ ~Digital
  /\ boxes' = Detected(page.contours)
  /\ stage' = "merge"
  /\ UNCHANGED <<page, merged, changed, reading, chosen, report>>

-----------------------------------------------------------------------------
(* merge_detected_boxes: passes over all boxes, until one merges nothing.   *)

Absorb ==
  /\ stage = "merge" /\ boxes # <<>>
  /\ LET grown == Absorbed(boxes)
     IN  /\ merged' = Append(merged, grown.box)
         /\ boxes' = grown.rest
         /\ changed' = (changed \/ Len(grown.rest) < Len(boxes) - 1)
  /\ UNCHANGED <<page, stage, reading, chosen, report>>

(* A slip for mutation runs: one pass is taken to be enough.                *)
Settled(again) == TRUE

NoMore(again) == ~again

NextPass ==
  /\ stage = "merge" /\ boxes = <<>> /\ ~NoMore(changed)
  /\ boxes' = merged /\ merged' = <<>> /\ changed' = FALSE
  /\ UNCHANGED <<page, stage, reading, chosen, report>>

FromAbove(found) ==
  Sorted(found, [k \in DOMAIN found |-> <<found[k].top, -found[k].left>>])

MergingEnds ==
  /\ stage = "merge" /\ boxes = <<>> /\ NoMore(changed)
  /\ boxes' = FromAbove(merged) /\ merged' = <<>> /\ changed' = FALSE
  /\ stage' = "page"
  /\ UNCHANGED <<page, reading, chosen, report>>

-----------------------------------------------------------------------------
(* OCR.                                                                     *)

(* A call of Tesseract: its reading, or an error that is passed over.       *)
Call(plans) ==
  /\ plan < plans
  /\ plan' = plan + 1
  /\ readings' \in {readings} \cup {Append(readings, r) : r \in page.legible}

Best == BestOf(Candidates(readings))

ReadPage ==
  /\ stage = "page" /\ Call(PAGE_PLANS)
  /\ UNCHANGED <<page, stage, boxing, crops, at, chosen, report>>

(* should_run_region_ocr                                                    *)
NeedsRegions(c) ==
  \/ Complex(boxes) \/ ~Passes(c)
  \/ c # Nil /\ c.agreement < 7000

ChoosePage ==
  /\ stage = "page" /\ plan = PAGE_PLANS
  /\ full' = Best
  /\ IF NeedsRegions(Best)
     THEN /\ stage' = "regions"
          /\ crops' = [k \in DOMAIN boxes |-> PaddedBox(boxes, k)]
     ELSE stage' = "route" /\ crops' = crops
  /\ plan' = 0 /\ readings' = <<>>
  /\ UNCHANGED <<page, boxing, at, accepted, kept, region, report>>

(* run_region_ocr                                                           *)
ReadCrop ==
  /\ stage = "regions" /\ at \in DOMAIN crops /\ Call(REGION_PLANS)
  /\ UNCHANGED <<page, stage, boxing, crops, at, chosen, report>>

Acceptable(c) ==
  /\ c # Nil
  /\ c.confidence >= 3500 /\ c.quality >= 4000 /\ c.text.words >= 1

TextsOf(candidates) ==
  [k \in DOMAIN candidates |-> candidates[k].text]

(* A slip for mutation runs: a text is compared with the one before only.   *)
KeptUnlessLast(c) ==
  IF kept # <<>> /\ Repeats(c.text, TextsOf(<<Last(kept)>>))
  THEN kept ELSE Append(kept, c)

KeptWith(c) ==
  IF Repeats(c.text, TextsOf(kept)) THEN kept ELSE Append(kept, c)

ChooseCrop ==
  /\ stage = "regions" /\ at \in DOMAIN crops /\ plan = REGION_PLANS
  /\ IF Acceptable(Best)
     THEN accepted' = Append(accepted, Best) /\ kept' = KeptWith(Best)
     ELSE UNCHANGED <<accepted, kept>>
  /\ at' = at + 1 /\ plan' = 0 /\ readings' = <<>>
  /\ UNCHANGED <<page, stage, boxing, crops, full, region, report>>

Combine ==
  /\ stage = "regions" /\ at \notin DOMAIN crops
  /\ IF kept = <<>> THEN region' = Nil
     ELSE \E shared \in BOOLEAN : region' = Combined(kept, shared)
  /\ stage' = "route"
  /\ UNCHANGED <<page, boxing, reading, full, accepted, kept, report>>

-----------------------------------------------------------------------------
(* The route.                                                               *)

(* region_is_usable                                                         *)
Usable(c) ==
  /\ c # Nil
  /\ c.confidence >= 4500 /\ c.quality >= 5000 /\ c.text.length >= 10

(* prefer_region, with REGION_ROUTE_TOLERANCE                               *)
PreferRegion ==
  /\ Usable(region)
  /\ \/ ~Passes(full)
     \/ Complex(boxes) /\ ScoreOf(region) >= ScoreOf(full) - 1200
     \/ ScoreOf(region) > ScoreOf(full) + 300

ReportOf(route, c) == [route |-> route, text |-> c.text, passed |-> Passes(c)]

NothingRead == [route |-> "region_ocr", text |-> page.native, passed |-> FALSE]

Route ==
  /\ stage = "route"
  /\ report' = IF PreferRegion THEN ReportOf("region_ocr", region)
               ELSE IF full # Nil THEN ReportOf("full_page_ocr", full)
               ELSE IF region # Nil THEN ReportOf("region_ocr", region)
               ELSE IF ~Empty(page.native) THEN NativeReport
               ELSE NothingRead
  /\ stage' = "done"
  /\ UNCHANGED <<page, boxing, reading, chosen>>

Next ==
  \/ TakeNative \/ Detect
  \/ Absorb \/ NextPass \/ MergingEnds
  \/ ReadPage \/ ChoosePage \/ ReadCrop \/ ChooseCrop \/ Combine
  \/ Route

Spec == Init /\ [][Next]_vars

-----------------------------------------------------------------------------
(* Whatever the order of the contours, the boxes that merging ends with     *)
(* hold all of them, and no two are left that should be merged: what a box  *)
(* grew into is compared again.                                             *)
NothingLeftToMerge ==
  stage \notin {"classify", "merge"} /\ ~Digital =>
    /\ \A i, j \in DOMAIN boxes : i # j => ~ShouldMergeBoxes(boxes[i], boxes[j])
    /\ \A k \in DOMAIN page.contours : TextLike(page.contours[k]) =>
         \E n \in DOMAIN boxes : Inside(page.contours[k], boxes[n])

(* Padding keeps boxes that share columns and lie one above the other       *)
(* apart, however many there are, so that no line between them is read      *)
(* twice; and it leaves out no part of a box.                               *)
CropsAreApart ==
  \A i, j \in DOMAIN crops :
    /\ Inside(boxes[i], crops[i])
    /\ j \in Neighbours(boxes, i) /\ boxes[i].bottom <= boxes[j].top =>
         crops[i].bottom <= crops[j].top

(* The regions' text has the text of every crop that was good enough, or    *)
(* one almost the same, and none that almost repeats one before it.         *)
AcceptedRegionsAreKept ==
  /\ \A k \in DOMAIN accepted :
       Repeats(accepted[k].text, TextsOf(kept))
  /\ \A j \in DOMAIN kept : ~Repeats(kept[j].text, TextsOf(SubSeq(kept, 1, j - 1)))

=============================================================================
