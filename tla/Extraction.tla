----------------------------- MODULE Extraction -----------------------------
(***************************************************************************)
(* ExtractionRouter.extract (eda/extractors/router.py) on one file: the      *)
(* extractors that support it are tried in order, page by page, until one    *)
(* yields a page that can be used or reviewed.  The adaptive route           *)
(* (eda/adaptive_ocr.py) asks Tesseract for candidates, call by call, each   *)
(* of which may time out.                                                    *)
(***************************************************************************)
EXTENDS Quality

CONSTANTS
  Files,           (* what the extractors can find: kind and pages          *)
  RouteOrder,      (* the extractors of the router, in order                *)
  Readings,        (* what Tesseract can read of a page or its regions      *)
  RegionCounts,    (* the numbers of regions it can detect                  *)
  PLANS,           (* languages x segmentation modes x preprocessing        *)
  MAX_CANDIDATES,  (* AdaptiveOCRConfig.max_candidate_count                 *)
  COMPLEX          (* complex_layout_min_regions                            *)

Kinds == {"pdf", "docx", "xlsx", "image"}

Supports == [native_pdf |-> {"pdf"}, docling |-> {"pdf", "docx"},
             adaptive_pdf_ocr |-> {"pdf"}, docx |-> {"docx"},
             xlsx |-> {"xlsx"}, image_ocr |-> {"image"}]

(* A page of a file: what can be seen of it, and the text of the items that *)
(* Docling finds there, Nil if it finds none.                               *)
SourcePage == [seen: Evidence, layout: Text \cup {Nil}]

(* Only of a workbook can all pages be hidden.                              *)
File == {f \in [kind: Kinds, pages: Seq(SourcePage)] :
           f.kind # "xlsx" => f.pages # <<>>}

ASSUME ExtractionAssumption ==
  /\ Files \subseteq File
  /\ RouteOrder \in Seq(DOMAIN Supports)
  /\ \A kind \in Kinds :
       \E r \in DOMAIN RouteOrder : kind \in Supports[RouteOrder[r]]
  /\ Readings \subseteq Reading
  /\ RegionCounts \subseteq Nat /\ 0 \in RegionCounts
  /\ {PLANS, MAX_CANDIDATES, COMPLEX} \subseteq Nat \ {0}
  /\ ADVANTAGE \in Nat
  /\ Similarity \in [DOMAIN Similarity -> [DOMAIN Similarity -> 0 .. Whole]]

VARIABLES
  file,      (* the file                                                    *)
  route,     (* the number of the candidate under way                       *)
  at,        (* the page it is reading                                      *)
  pages,     (* its PageResults                                             *)
  ocr,       (* the OCR of that page, Nil before and after                  *)
  skipped,   (* the candidates the router's warnings name                   *)
  attempts,  (* their documents, as far as they made one                    *)
  result,    (* what extract returns, Nil before                            *)
  error      (* ExtractionFailed, what a library raised, or a TypeError of  *)
             (* the code's own                                              *)

vars == <<file, route, at, pages, ocr, skipped, attempts, result, error>>

(* An ExtractedDocument.                                                    *)
Document == [route: Nat, pages: Seq(PageResult), warned: SUBSET Nat,
             exhausted: BOOLEAN]

(* full and regions count the plans tried on the page and on its regions;   *)
(* boxes is how many regions were detected, Nil before.                     *)
Ocr == [full: Nat, boxes: Nat \cup {Nil}, regions: Nat,
        candidates: SUBSET Candidate]

ASSUME NilAssumption ==
  Nil \notin Nat \cup Document \cup Ocr \cup Candidate \cup Text

TypeOK ==
  /\ file \in File
  /\ route \in Nat \ {0} /\ at \in Nat \ {0}
  /\ pages \in Seq(PageResult)
  /\ ocr \in Ocr \cup {Nil}
  /\ skipped \in SUBSET Nat
  /\ attempts \in Seq(Document)
  /\ result \in Document \cup {Nil}
  /\ error \in {"none", "failed", "raised", "type_error"}

(* candidates: the extractors that support the file, in order.              *)
CandidatesOf(kind) ==
  LET able == {r \in DOMAIN RouteOrder : kind \in Supports[RouteOrder[r]]}
      Nth(n) == CHOOSE r \in able : Cardinality({q \in able : q <= r}) = n
  IN  [n \in 1 .. Cardinality(able) |-> RouteOrder[Nth(n)]]

Route == CandidatesOf(file.kind)[route]

Init ==
  /\ file \in Files
  /\ route = 1 /\ at = 1
  /\ pages = <<>> /\ ocr = Nil
  /\ skipped = {} /\ attempts = <<>>
  /\ result = Nil /\ error = "none"

-----------------------------------------------------------------------------
(* A candidate is under way.                                                *)
Running ==
  /\ result = Nil /\ error = "none"
  /\ route \in DOMAIN CandidatesOf(file.kind)

Seen == file.pages[at].seen

NextRoute ==
  /\ route' = route + 1 /\ at' = 1
  /\ pages' = <<>> /\ ocr' = Nil

(* ExtractorUnavailable: Docling or Tesseract is not there.                 *)
Unavailable ==
  /\ Running
  /\ Route \in {"docling", "adaptive_pdf_ocr", "image_ocr"}
  /\ at = 1 /\ ocr = Nil
  /\ skipped' = skipped \cup {route}
  /\ NextRoute
  /\ UNCHANGED <<file, attempts, result, error>>

(* ExtractionFailed: the file cannot be opened or converted, or a page not  *)
(* be rendered.                                                             *)
Fails ==
  /\ Running
  /\ ocr = Nil
  /\ at = 1 \/ Route = "adaptive_pdf_ocr"
  /\ skipped' = skipped \cup {route}
  /\ NextRoute
  /\ UNCHANGED <<file, attempts, result, error>>

(* Any other exception of a library, of load_page for one, ends the         *)
(* extraction.                                                              *)
Raises ==
  /\ Running
  /\ error' = "raised"
  /\ UNCHANGED <<file, route, at, pages, ocr, skipped, attempts, result>>

-----------------------------------------------------------------------------
(* The extractors of text.                                                  *)

(* What each of them reads of a page.                                       *)
TextOf(page) ==
  IF Route # "docling" THEN page.seen.native
  ELSE IF page.layout = Nil THEN NoText ELSE page.layout

(* A page of one layer, with the scorer's own status.                       *)
LayerPage(t, type, chosen, native, read) ==
  LET status == StatusOf(LevelForScore(ScoreText(t))) IN
  [type |-> IF Empty(t) THEN "empty" ELSE type,
   status |-> status,
   route |-> IF Empty(t) THEN "rejected" ELSE chosen,
   gate |-> ~Empty(t) /\ status = "accepted",
   native |-> native, ocr |-> read, index |-> t, passed |-> FALSE,
   quality |-> ScoreText(t), agreement |-> Nil]

(* native_page_result                                                       *)
TextPage(t) == LayerPage(t, "digital", "native", t, NoText)

(* ocr_page_result, of an image in which Tesseract reads nothing.           *)
BlankImage == LayerPage(NoText, "scanned", "full_page_ocr", NoText, NoText)

(* Docling has no page without items, but for a document without any.       *)
Listed(page) ==
  Route = "docling" =>
    \/ page.layout # Nil
    \/ at = 1 /\ \A p \in DOMAIN file.pages : file.pages[p].layout = Nil

ReadText ==
  /\ Running
  /\ Route \in {"native_pdf", "docling", "docx", "xlsx"}
  /\ at \in DOMAIN file.pages
  /\ pages' = IF Listed(file.pages[at])
              THEN Append(pages, TextPage(TextOf(file.pages[at])))
              ELSE pages
  /\ at' = at + 1
  /\ UNCHANGED <<file, route, ocr, skipped, attempts, result, error>>

(* Of text that Tesseract reads, make_block is called with a parameter that *)
(* it does not have, and no one catches the TypeError.                      *)
ReadImage ==
  /\ Running
  /\ Route = "image_ocr" /\ at = 1
  /\ \E t \in {NoText} \cup {reading.text : reading \in Readings} :
       IF Empty(t)
       THEN pages' = <<BlankImage>> /\ at' = 2 /\ UNCHANGED error
       ELSE error' = "type_error" /\ UNCHANGED <<pages, at>>
  /\ UNCHANGED <<file, route, ocr, skipped, attempts, result>>

-----------------------------------------------------------------------------
(* The adaptive route.                                                      *)

Adaptive == Running /\ Route = "adaptive_pdf_ocr" /\ at \in DOMAIN file.pages

(* A slip for mutation runs: all calls are spent on the page as a whole.    *)
AllPlans == Least(PLANS, MAX_CANDIDATES)

(* One call of Tesseract is kept for regions, if there is more than one.    *)
FullPlans ==
  Least(PLANS, IF MAX_CANDIDATES > 1 THEN MAX_CANDIDATES - 1 ELSE 1)

OnPages(candidates) == {c \in candidates : c.route = "full_page_ocr"}

(* Regions are read where the layout is complex or no page candidate        *)
(* passes, with what is left of the calls.                                  *)
RegionPlans ==
  IF /\ ocr.boxes > 0
     /\ ocr.boxes >= COMPLEX \/ Selected(OnPages(ocr.candidates)) = Nil
  THEN Least(PLANS, MAX_CANDIDATES - Cardinality(OnPages(ocr.candidates)))
  ELSE 0

(* A slip for mutation runs: every page is read by OCR.                     *)
AnyPage(e) == TRUE

(* Digital and empty pages go without OCR.                                  *)
NeedsOcr(e) == PageType(e, FALSE) \notin {"digital", "empty"}

StartOcr ==
  /\ Adaptive /\ ocr = Nil /\ NeedsOcr(Seen)
  /\ ocr' = [full |-> 0, boxes |-> Nil, regions |-> 0, candidates |-> {}]
  /\ UNCHANGED <<file, route, at, pages, skipped, attempts, result, error>>

(* After a call of Tesseract: with its candidate or, timed out or refused,  *)
(* without.                                                                 *)
CandidatesAfter(kind, plan) ==
  {ocr.candidates}
    \cup {ocr.candidates \cup {[route |-> kind, plan |-> plan,
                                reading |-> r]} : r \in Readings}

ReadWholePage ==
  /\ Adaptive /\ ocr # Nil
  /\ ocr.full < FullPlans
  /\ \E candidates \in CandidatesAfter("full_page_ocr", ocr.full) :
       ocr' = [ocr EXCEPT !.full = @ + 1, !.candidates = candidates]
  /\ UNCHANGED <<file, route, at, pages, skipped, attempts, result, error>>

(* No regions where the detection timed out.                                *)
DetectRegions ==
  /\ Adaptive /\ ocr # Nil
  /\ ocr.full = FullPlans /\ ocr.boxes = Nil
  /\ \E n \in RegionCounts : ocr' = [ocr EXCEPT !.boxes = n]
  /\ UNCHANGED <<file, route, at, pages, skipped, attempts, result, error>>

ReadRegions ==
  /\ Adaptive /\ ocr # Nil
  /\ ocr.boxes # Nil /\ ocr.regions < RegionPlans
  /\ \E candidates \in CandidatesAfter("region_ocr", ocr.regions) :
       ocr' = [ocr EXCEPT !.regions = @ + 1, !.candidates = candidates]
  /\ UNCHANGED <<file, route, at, pages, skipped, attempts, result, error>>

(* A slip for mutation runs: native text is accepted as it is.              *)
StatusByRoute(e, chosen, text) ==
  CASE chosen = "combined" -> "needs_review"
    [] chosen = "rejected" -> IF Empty(text) THEN "failed" ELSE "needs_review"
    [] chosen \notin {"combined", "rejected"} -> "accepted"

(* The status of a page by the route chosen for it.  Layers that are both   *)
(* there are for review.                                                    *)
NewStatus(e, chosen, text) ==
  CASE chosen = "combined" -> "needs_review"
    [] chosen \in {"full_page_ocr", "region_ocr"} -> "accepted"
    [] chosen = "native" ->
         IF PageType(e, FALSE) = "digital" THEN "accepted" ELSE "needs_review"
    [] chosen = "rejected" ->
         IF Empty(text) THEN "failed" ELSE "needs_review"

Batch == IF ocr = Nil THEN {} ELSE ocr.candidates

(* The candidate whose text is kept, for review at least.                   *)
Shown(batch, selected) ==
  IF selected # Nil \/ batch = {} THEN selected ELSE First(batch, batch)

(* build_page_result: what the native text and the candidates make of a     *)
(* page.                                                                    *)
AdaptivePages(e, batch, selected) ==
  LET shown == Shown(batch, selected)
      type == PageType(e, selected # Nil)
      chosen == IF selected # Nil
                THEN IF type = "mixed" /\ ~Empty(e.native) THEN "combined"
                     ELSE selected.route
                ELSE IF ~Empty(e.native) THEN "native" ELSE "rejected"
      text == IF shown = Nil THEN NoText ELSE shown.reading.text
      status == NewStatus(e, chosen, text)
  IN  {[type |-> type, status |-> status, route |-> chosen,
        gate |-> IF chosen = "native" THEN status = "accepted"
                 ELSE selected # Nil,
        native |-> e.native, ocr |-> text, index |-> index,
        passed |-> selected # Nil,
        quality |-> IF chosen = "native"
                    THEN QualityScore(e.native, Nil, e.ink)
                    ELSE IF shown = Nil THEN Nil ELSE ScoreOf(shown),
        agreement |-> IF chosen = "native" \/ shown = Nil THEN Nil
                      ELSE Agreement(shown, batch)] :
         index \in IndexTexts(e.native, text)}

OcrDone ==
  IF ocr = Nil THEN ~NeedsOcr(Seen)
  ELSE /\ ocr.full = FullPlans /\ ocr.boxes # Nil
       /\ ocr.regions >= RegionPlans

BuildPage ==
  /\ Adaptive /\ OcrDone
  /\ \E p \in AdaptivePages(Seen, Batch, Selected(Batch)) :
       pages' = Append(pages, p)
  /\ at' = at + 1 /\ ocr' = Nil
  /\ UNCHANGED <<file, route, skipped, attempts, result, error>>

-----------------------------------------------------------------------------
(* The router.                                                              *)

Count(d, verdict) ==
  Cardinality({p \in DOMAIN d.pages : PageVerdict(d.pages[p]) = verdict})

(* score_document: the mean score of the pages.                             *)
DocumentScore(d) ==
  IF d.pages = <<>> THEN 0
  ELSE Rounded(SumFunction([p \in DOMAIN d.pages |-> PageScore(d.pages[p])]),
               Len(d.pages))

(* _sufficient                                                              *)
Sufficient(d) == Count(d, "accepted") > 0 \/ Count(d, "needs_review") > 0

(* A slip for mutation runs: the router's warnings are left out.            *)
ExtractedSilently == [route |-> route, pages |-> pages, warned |-> {},
                      exhausted |-> FALSE]

Extracted == [route |-> route, pages |-> pages, warned |-> skipped,
              exhausted |-> FALSE]

Read == Running /\ at > Len(file.pages)

Return ==
  /\ Read /\ Sufficient(Extracted)
  /\ result' = Extracted
  /\ UNCHANGED <<file, route, at, pages, ocr, skipped, attempts, error>>

PassOver ==
  /\ Read /\ ~Sufficient(Extracted)
  /\ skipped' = skipped \cup {route}
  /\ attempts' = Append(attempts, Extracted)
  /\ NextRoute
  /\ UNCHANGED <<file, result, error>>

(* The attempt with the most accepted pages, then the best score, then the  *)
(* first.                                                                   *)
NoWorse(d, e) ==
  \/ Count(d, "accepted") > Count(e, "accepted")
  \/ /\ Count(d, "accepted") = Count(e, "accepted")
     /\ DocumentScore(d) >= DocumentScore(e)

Best == CHOOSE a \in DOMAIN attempts :
          /\ \A b \in DOMAIN attempts : NoWorse(attempts[a], attempts[b])
          /\ \A b \in 1 .. a - 1 : ~NoWorse(attempts[b], attempts[a])

(* No candidate is left.                                                    *)
Exhausted ==
  /\ result = Nil /\ error = "none"
  /\ route \notin DOMAIN CandidatesOf(file.kind)

ReturnBest ==
  /\ Exhausted /\ attempts # <<>>
  /\ result' = [attempts[Best] EXCEPT !.warned = skipped, !.exhausted = TRUE]
  /\ UNCHANGED <<file, route, at, pages, ocr, skipped, attempts, error>>

NothingExtracted ==
  /\ Exhausted /\ attempts = <<>>
  /\ error' = "failed"
  /\ UNCHANGED <<file, route, at, pages, ocr, skipped, attempts, result>>

Next ==
  \/ Unavailable \/ Fails \/ Raises
  \/ ReadText \/ ReadImage
  \/ StartOcr \/ ReadWholePage \/ DetectRegions \/ ReadRegions \/ BuildPage
  \/ Return \/ PassOver \/ ReturnBest \/ NothingExtracted

Spec == Init /\ [][Next]_vars

-----------------------------------------------------------------------------
(* No page that an extractor makes is one that the schema refuses, whatever *)
(* the evidence and however OCR went: a ValidationError would end the       *)
(* extraction with no fall-back.  It rests on the classification before OCR *)
(* and the one after it, which knows of the selection, agreeing with the    *)
(* status and route that build_page_result derives.                         *)
PagesAreValid == \A p \in DOMAIN pages : ValidPage(pages[p])

(* The text of an accepted page of the adaptive route is native, or passed  *)
(* the OCR gate: rejected OCR, which is kept for review, is not indexed     *)
(* with it.                                                                 *)
RejectedOcrIsNotAccepted ==
  result # Nil =>
    (CandidatesOf(file.kind)[result.route] = "adaptive_pdf_ocr" =>
       \A p \in DOMAIN result.pages :
         result.pages[p].status = "accepted" =>
           Empty(result.pages[p].ocr) \/ result.pages[p].passed)

(* The extractor's status, by which pages are embedded, and the verdict of  *)
(* the scorer, by which the router passes routes over, come from different  *)
(* thresholds.  Yet a document that is passed over has no accepted page:    *)
(* no text that could be embedded is lost to a later route.                 *)
NothingAcceptedIsPassedOver ==
  \A a \in DOMAIN attempts : \A p \in DOMAIN attempts[a].pages :
    attempts[a].pages[p].status # "accepted"

(* A document that was not the first choice, or is the best of insufficient *)
(* ones, names every candidate that did not do in its warnings, so that the *)
(* job's verdict is not a clean one.                                        *)
FallbacksAreReported ==
  result # Nil =>
    /\ result.warned = IF result.exhausted
                       THEN DOMAIN CandidatesOf(file.kind)
                       ELSE 1 .. result.route - 1
    /\ result.exhausted <=> ~Sufficient(result)

(* Where the layout is complex, regions have been read when the page is     *)
(* built, however many calls the whole page took.                           *)
ComplexPagesReadRegions ==
  [][(BuildPage /\ ocr # Nil /\ MAX_CANDIDATES > 1) =>
       (ocr.boxes >= COMPLEX /\ ocr.boxes > 0 => ocr.regions > 0)]_vars

=============================================================================
