---------------------------- MODULE MCPageRouter ----------------------------
(***************************************************************************)
(* PageRouter for TLC: pages of up to four contours that grow into each      *)
(* other in every order and that nothing can be read of, and pages of a few  *)
(* regions with every outcome of Tesseract.                                  *)
(***************************************************************************)
EXTENDS PageRouter, TLC

(* What is said: x, almost x, half of x, another text, nothing.  That x2 is *)
(* almost x is only seen with x first, as ratio is not symmetric.           *)
MCAlike ==
  [x |-> [x |-> 10000, x2 |-> 9500, h |-> 6000, y |-> 2000, none |-> 0],
   x2 |-> [x |-> 8900, x2 |-> 10000, h |-> 6000, y |-> 2000, none |-> 0],
   h |-> [x |-> 6000, x2 |-> 6000, h |-> 10000, y |-> 2000, none |-> 0],
   y |-> [x |-> 2000, x2 |-> 2000, h |-> 2000, y |-> 10000, none |-> 0],
   none |-> [x |-> 0, x2 |-> 0, h |-> 0, y |-> 0, none |-> 10000]]

MCOverlap ==
  [x |-> [x |-> 10000, x2 |-> 10000, h |-> 5000, y |-> 0, none |-> 0],
   x2 |-> [x |-> 10000, x2 |-> 10000, h |-> 5000, y |-> 0, none |-> 0],
   h |-> [x |-> 5000, x2 |-> 5000, h |-> 10000, y |-> 0, none |-> 0],
   y |-> [x |-> 0, x2 |-> 0, h |-> 0, y |-> 10000, none |-> 0],
   none |-> [x |-> 0, x2 |-> 0, h |-> 0, y |-> 0, none |-> 0]]

(* chars characters in words, all known except the damaged ones.            *)
T(says, chars, damaged, words) ==
  [says |-> says, length |-> IF chars = 0 THEN 0 ELSE chars + words - 1,
   chars |-> chars, alnum |-> chars - damaged, valid |-> chars - damaged,
   damaged |-> damaged, words |-> words, distinct |-> words]

Nothing == T("none", 0, 0, 0)
Good == T("x", 200, 0, 30)

R(text, confidence) == [text |-> text, confidence |-> confidence]

(* Readings that agree, that are alike, that disagree, too short, unsure,   *)
(* and broken ones.                                                         *)
Kinds ==
  {{},
   {R(Good, 9000), R(T("x2", 210, 4, 30), 8000), R(T("y", 60, 6, 9), 6000)},
   {R(Good, 6000), R(T("h", 90, 0, 12), 5600), R(Nothing, 0)},
   {R(T("x", 200, 20, 30), 4400), R(T("y", 60, 0, 9), 3600)},
   {R(T("y", 8, 0, 2), 7000), R(T("h", 90, 40, 12), 3400)}}

(* No text, a few characters, forty, enough, and broken ones.               *)
Natives == {Nothing, T("y", 4, 0, 1), T("y", 39, 0, 6), T("y", 40, 0, 6),
            Good, T("y", 120, 60, 10)}

P(native, images, contours, legible) ==
  [native |-> native, images |-> images, contours |-> contours,
   legible |-> legible]

(* A staircase of boxes that touch one after the other, two of a column     *)
(* close and far below each other, boxes at the margins, a narrow one, the  *)
(* page.                                                                    *)
Places == {B(100, 100, 300, 160), B(280, 150, 480, 210), B(460, 200, 660, 260),
           B(100, 190, 300, 230), B(120, 420, 320, 590), B(600, 20, 995, 90),
           B(240, 180, 340, 440), B(0, 0, 1000, 600), B(700, 300, 740, 400)}

Injective(s) == \A i, j \in DOMAIN s : s[i] = s[j] => i = j

Scattered == UNION {{s \in [1 .. n -> Places] : Injective(s)} : n \in 0 .. 4}

Apart == <<B(100, 40, 900, 100), B(100, 180, 480, 260), B(520, 200, 900, 280)>>

MCPages ==
  {P(Nothing, 0, s, {}) : s \in Scattered}
    \cup {P(n, i, <<>>, {}) : n \in Natives,
                              i \in {0, 199, 200, 1499, 1500, 2499, 2500}}
    \cup {P(Nothing, 5000, SubSeq(Apart, 1, k), r) : k \in 0 .. 3, r \in Kinds}

=============================================================================
