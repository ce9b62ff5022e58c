-------------------------- MODULE MCRegionReading --------------------------
(***************************************************************************)
(* RegionReading for TLC: blocks on a grid that overlap in every way, whole  *)
(* pages in two columns, and blocks of several words and lines.              *)
(***************************************************************************)
EXTENDS RegionReading, TLC

W(text, block, par, line, confidence, box) ==
  [text |-> text, block |-> block, par |-> par, line |-> line,
   confidence |-> confidence, box |-> box]

(* The right, the left and an inner column, a narrow and a broad one, the   *)
(* width of the page.                                                       *)
Sides == {<<550, 950>>, <<50, 450>>, <<350, 650>>, <<600, 700>>, <<50, 740>>,
          <<20, 980>>}

(* A line, one just below, one that overlaps both, one far below.           *)
Levels == {<<40, 100>>, <<110, 160>>, <<90, 130>>, <<400, 460>>}

Places == {B(side[1], level[1], side[2], level[2]) :
             side \in Sides, level \in Levels}

Names == <<"a", "b", "c", "d", "e", "f">>

(* One word in each block, the last of them like the first, or not.         *)
Scattered(places, names) ==
  [k \in DOMAIN places |-> W(names[k], k, 1, 1, 60, places[k])]

Few == {B(550, 40, 950, 100), B(50, 40, 450, 100), B(350, 90, 650, 130),
        B(550, 110, 950, 160), B(50, 110, 450, 160), B(20, 90, 980, 130),
        B(20, 400, 980, 460), B(540, 36, 960, 104)}

Injective(s) == \A i, j \in DOMAIN s : s[i] = s[j] => i = j

(* Two columns of two below a header and above a footer, in every order.    *)
Whole == {B(20, 0, 980, 30), B(20, 500, 980, 560)}
Columned == {B(550, 60, 950, 100), B(50, 60, 450, 100),
             B(600, 160, 900, 260), B(100, 160, 400, 240)}

(* Words of several lines, paragraphs and blocks, blank, unsure, without a  *)
(* block or without extent; text that is read twice in a region of two      *)
(* blocks; the first line of a second paragraph.                            *)
Items == {W("a", 1, 1, 1, 90, B(50, 40, 150, 70)),
          W("b", 1, 1, 1, 30, B(160, 40, 250, 70)),
          W("c", 1, 2, 1, 0, B(50, 80, 150, 100)),
          W("a", 2, 1, 1, 49, B(50, 90, 250, 120)),
          W("d", 2, 1, 2, 50, B(60, 110, 240, 140)),
          W("e", 3, 1, 1, 50, B(600, 40, 700, 70)),
          W("", 1, 2, 1, 95, B(160, 80, 250, 100)),
          W("f", 0, 1, 1, 95, B(50, 300, 250, 340)),
          W("g", 3, 1, 1, Nil, B(710, 40, 800, 70)),
          W("h", 4, 1, 1, 95, B(50, 40, 50, 70))}

MCLayouts ==
  {<<>>}
    \cup UNION {{Scattered(p, Names) : p \in [1 .. n -> Places]} : n \in 1 .. 2}
    \cup {Scattered(p, <<"a", "b", "a">>) :
            p \in {q \in [1 .. 3 -> Few] : Injective(q)}}
    \cup {Scattered(p, Names) : p \in {q \in [1 .. 4 -> Few] : Injective(q)}}
    \cup {Scattered(p, Names) : p \in {q \in [1 .. 6 -> Whole \cup Columned] :
                                         Injective(q)}}
    \cup UNION {{q \in [1 .. n -> Items] : Injective(q)} : n \in 1 .. 4}

=============================================================================
