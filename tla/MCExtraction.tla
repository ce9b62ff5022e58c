---------------------------- MODULE MCExtraction ----------------------------
(***************************************************************************)
(* Extraction for TLC: texts and readings at the thresholds, PDFs of one and *)
(* two pages with every kind of evidence, and one file of each other kind.   *)
(***************************************************************************)
EXTENDS Extraction

T(chars, alnum, garbage, damaged, words, distinct) ==
  [chars |-> chars, alnum |-> alnum, garbage |-> garbage,
   damaged |-> damaged, words |-> words, distinct |-> distinct]

(* Too little to count; some; just usable and as bad as that can be; fair;  *)
(* good; garbage.                                                           *)
Tiny == T(4, 0, 4, 4, 0, 0)
Little == T(20, 18, 0, 0, 4, 4)
Usable == T(40, 22, 18, 18, 4, 1)
Fair == T(60, 50, 2, 2, 10, 8)
Good == T(300, 300, 0, 0, 60, 60)
Noise == T(44, 4, 40, 40, 2, 1)

R(text, says, confidence, coverage) ==
  [text |-> text, says |-> says, confidence |-> confidence,
   coverage |-> coverage]

(* Clear; just good enough; clear, but of something else; noise.            *)
MCReadings ==
  {R(Good, "this", 9000, 200), R(T(10, 6, 4, 0, 4, 1), "this too", 7000, 5),
   R(Good, "that", 9500, 200), R(T(12, 3, 9, 9, 2, 1), "noise", 3000, 100)}

Like(a, b) == CASE a = b -> 10000
                [] a # b /\ {a, b} = {"this", "this too"} -> 4500
                [] a # b /\ {a, b} # {"this", "this too"} -> 2000

MCSimilarity ==
  LET sayings == {r.says : r \in MCReadings} IN
  [a \in sayings |-> [b \in sayings |-> Like(a, b)]]

E(native, blocks, images, ink) ==
  [native |-> native, blocks |-> blocks, images |-> images, ink |-> ink]

(* Images and ink: nothing, something, a picture, a faint scan, a scan,     *)
(* drawings.                                                                *)
Looks == {<<0, 0>>, <<0, 100>>, <<2500, 100>>, <<5000, 30>>, <<5000, 100>>,
          <<0, 500>>}

MCEvidence ==
  {E(native, TRUE, look[1], look[2]) :
     native \in {NoText, Tiny, Little, Usable, Good}, look \in Looks}
    \cup {E(Good, FALSE, look[1], look[2]) : look \in Looks}
    \cup {E(Noise, TRUE, 0, 100)}

(* default_router, with Docling installed.                                  *)
MCRouteOrder == <<"native_pdf", "docling", "adaptive_pdf_ocr", "docx", "xlsx",
                  "image_ocr">>

Source(seen, layout) == [seen |-> seen, layout |-> layout]

F(kind, sources) == [kind |-> kind, pages |-> sources]

Scan == E(NoText, FALSE, 5000, 500)
Blank == E(NoText, FALSE, 0, 0)
Written == E(Good, TRUE, 0, 500)

MCFiles ==
  {F("pdf", <<Source(e, NoText)>>) : e \in MCEvidence}
    \cup {F("pdf", <<Source(d, Nil), Source(e, t)>>) :
            d \in {Blank, Written}, e \in {Scan, Blank},
            t \in {Nil, NoText, Fair}}
    \cup {F(kind, <<Source(E(t, TRUE, 0, 0), t)>>) :
            kind \in {"docx", "xlsx", "image"}, t \in {NoText, Fair, Good}}
    \cup {F("xlsx", <<>>)}

=============================================================================
