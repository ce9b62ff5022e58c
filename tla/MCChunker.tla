----------------------------- MODULE MCChunker -----------------------------
(***************************************************************************)
(* Chunker for TLC: every page of up to three blocks of the lengths at      *)
(* which the code branches, pages without blocks, and two pages in a row.   *)
(***************************************************************************)
EXTENDS Chunker

B(type, words, letters) == [type |-> type, words |-> words, letters |-> letters]

(* Below the overlap, where long blocks vanish, at it, where they raise,    *)
(* just above, where pieces advance by a word, and well above.              *)
MCBudgets == Overlap - 1 .. 2 * Overlap

Large == 2 * Overlap

(* Whitespace, short, and for the largest budget just fitting, just not,    *)
(* and split with a last piece that is inside of the one before.            *)
Lengths == {0, 1, Large, Large + 1, 2 * Large - Overlap + 1}

MCBlocks == {B(type, words, 1) : type \in {"heading", "other", "table"},
                                 words \in Lengths}

MCTexts == {B("page", words, letters) : words \in 0 .. 2 * FixedSize,
                                        letters \in {1, 3}}

P(status, blocks, text) == [status |-> status, blocks |-> blocks, text |-> text]

NoText == B("page", 0, 1)

Paged == {P("accepted", blocks, NoText) :
            blocks \in UNION {[1 .. n -> MCBlocks] : n \in 1 .. 3}}

Bare == {P(status, <<>>, text) : status \in Statuses, text \in MCTexts}

MCInputs ==
  {<<p>> : p \in Paged \cup Bare}
    \cup {<<P("accepted", <<b>>, NoText), p>> : b \in MCBlocks, p \in Bare}
    \cup {<<P("failed", <<b>>, NoText), p>> : b \in MCBlocks, p \in Bare}

=============================================================================
