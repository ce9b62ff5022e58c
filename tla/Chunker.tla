------------------------------ MODULE Chunker ------------------------------
(***************************************************************************)
(* structure_chunks (eda/structure_chunker.py): from the pages of an        *)
(* extracted document to the chunks that are embedded, block by block.      *)
(* Oversized texts go through split_fixed (eda/chunk.py), whose loop is      *)
(* modelled piece by piece.                                                 *)
(*                                                                          *)
(* A text is a number of words of equal length; which words a chunk holds   *)
(* is kept, what they say is not.                                           *)
(***************************************************************************)
EXTENDS Integers, Sequences

CONSTANTS
  Nil,
  Inputs,             (* the documents to chunk                             *)
  Budgets,            (* what INGESTION_MAX_CHUNK_WORDS may be set to       *)
  FixedSize,          (* split_fixed: size                                  *)
  Overlap,            (* split_fixed: overlap                               *)
  MinChars,           (* split_fixed: pieces must be longer than this       *)
  ALLOW_NEEDS_REVIEW  (* INGESTION_ALLOW_NEEDS_REVIEW                     *)

Statuses == {"accepted", "needs_review", "failed"}

(* Heading and table are treated specially, every other type is "other".    *)
Block == [type: {"heading", "table", "other"},
          words: Nat, letters: Nat \ {0}]

(* The index text, which is what is read of a page without blocks.          *)
Text == [type: {"page"}, words: Nat, letters: Nat \ {0}]

Page == [status: Statuses, blocks: Seq(Block), text: Text]

(* The settings take any number from 1 on.                                  *)
ASSUME BudgetsAssumption == Budgets \subseteq Nat \ {0}

(* No caller passes any of these: they are 512, 64 and 50.  A piece of more *)
(* words than two neighbours share is longer than the minimum.              *)
ASSUME SizesAssumption ==
  /\ {FixedSize, Overlap, MinChars} \subseteq Nat
  /\ Overlap < FixedSize
  /\ MinChars < 2 * Overlap + 1

ASSUME InputsAssumption ==
  \A d \in Inputs : d \in Seq(Page)

ASSUME SwitchAssumption == ALLOW_NEEDS_REVIEW \in BOOLEAN

VARIABLES
  document,  (* what was extracted                                          *)
  max_words, (* how many words a chunk may have                             *)
  page,      (* the page being chunked                                      *)
  next,      (* the next of its blocks                                      *)
  group,     (* the words of group_parts                                    *)
  ids,       (* group_block_ids                                             *)
  cut,       (* the text in split_fixed and where its next piece starts     *)
  chunks,    (* the chunks emitted, in order                                *)
  raised     (* a ValueError has ended the task                             *)

vars == <<document, max_words, page, next, group, ids, cut, chunks, raised>>

(* A word is its block and its place in it.                                 *)
Word == Nat \X Nat

Chunk == [page: Nat, kind: {"text", "table"}, blocks: Seq(Nat),
          words: Seq(Word)]

Cut == [block: Nat, kind: {"text", "table"}, size: Nat, from: Nat]

ASSUME NilAssumption == Nil \notin Cut

TypeOK ==
  /\ document \in Seq(Page) /\ max_words \in Budgets
  /\ page \in Nat \ {0} /\ next \in Nat \ {0}
  /\ group \in Seq(Word) /\ ids \in Seq(Nat)
  /\ cut \in Cut \cup {Nil}
  /\ chunks \in Seq(Chunk)
  /\ raised \in BOOLEAN

Init ==
  /\ document \in Inputs /\ max_words \in Budgets
  /\ page = 1 /\ next = 1
  /\ group = <<>> /\ ids = <<>>
  /\ cut = Nil
  /\ chunks = <<>>
  /\ raised = FALSE

-----------------------------------------------------------------------------
(* Failed pages, and pages to review unless allowed, are passed over.       *)
Embeddable(p) ==
  \/ p.status = "accepted"
  \/ p.status = "needs_review" /\ ALLOW_NEEDS_REVIEW

(* What is read of a page: its blocks, or its index text as a whole.        *)
BlocksOf(p) == IF p.blocks = <<>> THEN <<p.text>> ELSE p.blocks

(* The words of block b from one place up to another.                       *)
WordsOf(b, from, to) == [k \in 1 .. to - from |-> <<b, from + k>>]

(* emit: a chunk without text is none.                                      *)
Emitted(before, kind, blocks, words) ==
  IF words = <<>> THEN before
  ELSE Append(before, [page |-> page, kind |-> kind, blocks |-> blocks,
                       words |-> words])

(* The chunks once flush_group has run.                                     *)
Flushed == Emitted(chunks, "text", ids, group)

(* The length of n words of b joined by spaces.                             *)
Chars(b, n) == n * b.letters + n - 1

Reading == page \in DOMAIN document /\ cut = Nil

Current == BlocksOf(document[page])[next]

(* The current block is the next to be read.                                *)
ReadBlock ==
  /\ Reading
  /\ Embeddable(document[page])
  /\ next \in DOMAIN BlocksOf(document[page])
  /\ next' = next + 1
  /\ UNCHANGED <<document, max_words, page, raised>>

(* split_fixed starts on block b.                                           *)
StartSplit(b, kind, size) ==
  cut' = [block |-> b, kind |-> kind, size |-> size, from |-> 0]

NoGroup == group' = <<>> /\ ids' = <<>>

-----------------------------------------------------------------------------
(* Without blocks: split_fixed over the index text.                         *)
TakePage ==
  /\ ReadBlock
  /\ Current.type = "page"
  /\ StartSplit(next, "text", FixedSize)
  /\ UNCHANGED <<group, ids, chunks>>

(* A slip for mutation runs: the table before the group it follows.         *)
TakeTableFirst ==
  /\ ReadBlock
  /\ Current.type = "table" /\ Current.words <= max_words
  /\ chunks' = Emitted(chunks, "table", <<next>>,
                       WordsOf(next, 0, Current.words))
  /\ UNCHANGED <<group, ids, cut>>

(* A table is a chunk of its own.                                           *)
TakeTable ==
  /\ ReadBlock
  /\ Current.type = "table" /\ Current.words <= max_words
  /\ chunks' = Emitted(Flushed, "table", <<next>>,
                       WordsOf(next, 0, Current.words))
  /\ NoGroup
  /\ UNCHANGED cut

(* A block of more words than a chunk may have is split.                    *)
TakeOversized ==
  /\ ReadBlock
  /\ Current.type # "page" /\ Current.words > max_words
  /\ chunks' = Flushed
  /\ StartSplit(next, IF Current.type = "table" THEN "table" ELSE "text",
                max_words)
  /\ NoGroup

(* A slip for mutation runs: headings are text like any other.              *)
HeadingsContinue(b) == FALSE

(* A heading opens a new section: what precedes it is flushed.              *)
OpensSection(b) == b.type = "heading" /\ ids # <<>>

(* A slip for mutation runs: room is looked for after the fact.             *)
FullOnceOver(b) == Len(group) > max_words

(* The group has no room for b.                                             *)
NoRoomFor(b) == Len(group) > 0 /\ Len(group) + b.words > max_words

TakeText ==
  LET text == WordsOf(next, 0, Current.words) IN
  /\ ReadBlock
  /\ Current.type \in {"heading", "other"} /\ Current.words <= max_words
  /\ IF OpensSection(Current) \/ NoRoomFor(Current)
     THEN /\ chunks' = Flushed
          /\ group' = text /\ ids' = <<next>>
     ELSE /\ group' = group \o text /\ ids' = Append(ids, next)
          /\ UNCHANGED chunks
  /\ UNCHANGED cut

(* A slip for mutation runs: the step with its terms the wrong way round.   *)
StepBack(c) == c.from + Overlap - c.size

(* split_fixed: step = size - overlap.                                      *)
NextStart(c) == c.from + c.size - Overlap

(* No start is left: all are behind, or the step is negative and there is   *)
(* none to begin with, however many words there are.                        *)
Exhausted(c) ==
  \/ c.size < Overlap
  \/ c.size > Overlap /\ c.from >= BlocksOf(document[page])[c.block].words

(* One piece of split_fixed; a short one is left out.                       *)
SplitPiece ==
  LET b == BlocksOf(document[page])[cut.block]
      to == IF cut.from + cut.size < b.words THEN cut.from + cut.size
            ELSE b.words
      named == IF b.type = "page" THEN <<>> ELSE <<cut.block>>
  IN
  /\ cut # Nil /\ cut.size # Overlap /\ ~Exhausted(cut)
  /\ chunks' = IF Chars(b, to - cut.from) > MinChars
               THEN Emitted(chunks, cut.kind, named,
                            WordsOf(cut.block, cut.from, to))
               ELSE chunks
  /\ cut' = [cut EXCEPT !.from = NextStart(cut)]
  /\ UNCHANGED <<document, max_words, page, next, group, ids, raised>>

EndSplit ==
  /\ cut # Nil /\ Exhausted(cut)
  /\ cut' = Nil
  /\ UNCHANGED <<document, max_words, page, next, group, ids, chunks, raised>>

(* range() raises at a step of zero, which nothing catches.                 *)
SplitRaises ==
  /\ cut # Nil /\ cut.size = Overlap
  /\ ~raised /\ raised' = TRUE
  /\ UNCHANGED <<document, max_words, page, next, group, ids, cut, chunks>>

(* A slip for mutation runs: the last group of a page is forgotten.         *)
ClosePageUnflushed ==
  /\ Reading
  /\ ~Embeddable(document[page]) \/ next > Len(BlocksOf(document[page]))
  /\ NoGroup
  /\ page' = page + 1 /\ next' = 1
  /\ UNCHANGED <<document, max_words, cut, chunks, raised>>

(* The page has been read, or is passed over.                               *)
ClosePage ==
  /\ Reading
  /\ ~Embeddable(document[page]) \/ next > Len(BlocksOf(document[page]))
  /\ chunks' = Flushed
  /\ NoGroup
  /\ page' = page + 1 /\ next' = 1
  /\ UNCHANGED <<document, max_words, cut, raised>>

Next ==
  \/ TakePage \/ TakeTable \/ TakeOversized \/ TakeText
  \/ SplitPiece \/ EndSplit \/ SplitRaises \/ ClosePage

Spec == Init /\ [][Next]_vars

-----------------------------------------------------------------------------
(* Word k of block b of page p can be found in a chunk.                     *)
Found(p, b, k) ==
  \E c \in DOMAIN chunks :
    /\ chunks[c].page = p
    /\ \E i \in DOMAIN chunks[c].words : chunks[c].words[i] = <<b, k>>

(* The text of a page without blocks, of no more than MinChars.             *)
TooShort(p) ==
  p.blocks = <<>> /\ Chars(p.text, p.text.words) <= MinChars

(* A block to split when the budget is below the overlap.                   *)
Vanishes(p, b) ==
  /\ p.blocks # <<>> /\ p.blocks[b].words > max_words
  /\ max_words < Overlap

(* Of every page that passed the gate, every word of every block is in some *)
(* chunk, although split_fixed leaves out short pieces and may start a last *)
(* piece inside of the one before.  Text is dropped in two cases only: that *)
(* of a page without blocks, as the OCR route makes them, of MinChars or    *)
(* fewer characters, and, if the settings put the budget below the overlap, *)
(* that of blocks over the budget.                                          *)
NothingIsDropped ==
  \A p \in DOMAIN document :
    (p < page /\ Embeddable(document[p]) /\ ~TooShort(document[p])) =>
      \A b \in DOMAIN BlocksOf(document[p]) :
        ~Vanishes(document[p], b) =>
          \A k \in 1 .. BlocksOf(document[p])[b].words : Found(p, b, k)

Budget(p) == IF document[p].blocks = <<>> THEN FixedSize ELSE max_words

(* No chunk has more words than its budget, by whichever of the three ways  *)
(* it came about: grouped, split, or a table.                               *)
ChunksFitTheBudget ==
  \A c \in DOMAIN chunks : Len(chunks[c].words) <= Budget(chunks[c].page)

(* A chunk never runs on into the next section or over a table: a heading   *)
(* is only found at its start, a table only alone, and the block ids it is  *)
(* cited by are those of the blocks its words are from.                     *)
ChunksAreSections ==
  \A c \in DOMAIN chunks :
    LET words == chunks[c].words
        blocks == BlocksOf(document[chunks[c].page])
        from == {words[i][1] : i \in DOMAIN words}
        cited == {chunks[c].blocks[i] : i \in DOMAIN chunks[c].blocks}
    IN  /\ \A b \in from : blocks[b].type = "heading" => b = words[1][1]
        /\ \A b \in from : blocks[b].type = "table" => from = {b}
        /\ document[chunks[c].page].blocks # <<>> =>
             from = {b \in cited : blocks[b].words > 0}

(* x is read before y.                                                      *)
Before(x, y) == x[1] < y[1] \/ (x[1] = y[1] /\ x[2] < y[2])

(* The chunks of a page, whose ids are their numbers, follow the order in   *)
(* which it is read: each starts after the one before and ends no earlier.  *)
InReadingOrder ==
  \A c \in DOMAIN chunks \ {1} :
    LET one == chunks[c - 1]
        two == chunks[c]
    IN  IF one.page = two.page
        THEN /\ Before(one.words[1], two.words[1])
             /\ ~Before(two.words[Len(two.words)], one.words[Len(one.words)])
        ELSE one.page < two.page

=============================================================================
