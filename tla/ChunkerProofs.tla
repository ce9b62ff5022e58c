--------------------------- MODULE ChunkerProofs ---------------------------
(***************************************************************************)
(* What Chunker does with documents of any size, for every number of words  *)
(* that the settings admit for a chunk.                                     *)
(***************************************************************************)
EXTENDS Chunker, SequenceTheorems, TLAPS

-----------------------------------------------------------------------------
(* Sequences, pages and chunks.                                             *)

(* The budget is a number, and that of a page without blocks is split_fixed's*)
(* own, which is over the overlap.                                          *)
LEMMA Budgeted ==
  ASSUME TypeOK
  PROVE  /\ max_words \in Nat /\ max_words > 0
         /\ {FixedSize, Overlap, MinChars} \subseteq Nat
         /\ \A p : Budget(p) \in Nat
         /\ \A p : document[p].blocks = <<>> => Budget(p) > Overlap
  BY BudgetsAssumption, SizesAssumption DEF TypeOK, Budget

LEMMA FunctionIsSeq ==
  ASSUME NEW S, NEW n \in Nat, NEW f \in [1 .. n -> S]
  PROVE  f \in Seq(S) /\ Len(f) = n
<1>1. f \in Seq(S)
  BY SeqDef
<1>. QED  BY <1>1, LenProperties

LEMMA WordsOfBlock ==
  ASSUME NEW b \in Nat, NEW from \in Nat, NEW to \in Nat, from <= to
  PROVE  /\ WordsOf(b, from, to) \in Seq(Word)
         /\ Len(WordsOf(b, from, to)) = to - from
         /\ \A k \in 1 .. to - from : WordsOf(b, from, to)[k] = <<b, from + k>>
<1>1. WordsOf(b, from, to) \in [1 .. to - from -> Word]
  BY DEF WordsOf, Word
<1>2. to - from \in Nat
  OBVIOUS
<1>3. WordsOf(b, from, to) \in Seq(Word) /\ Len(WordsOf(b, from, to)) = to - from
  BY <1>1, <1>2, FunctionIsSeq
<1>. QED  BY <1>3 DEF WordsOf

(* What is read of a page, with its sizes.                                  *)
LEMMA BlocksOfPage ==
  ASSUME document \in Seq(Page), NEW p \in DOMAIN document
  PROVE  /\ BlocksOf(document[p]) \in Seq(Block \cup Text)
         /\ DOMAIN BlocksOf(document[p]) = 1 .. Len(BlocksOf(document[p]))
         /\ Len(BlocksOf(document[p])) \in Nat
         /\ \A b \in DOMAIN BlocksOf(document[p]) :
              LET block == BlocksOf(document[p])[b] IN
              /\ b \in Nat \ {0}
              /\ block.words \in Nat /\ block.letters \in Nat \ {0}
              /\ block.type = "page" <=> document[p].blocks = <<>>
         /\ document[p].blocks = <<>> =>
              BlocksOf(document[p]) = <<document[p].text>>
<1>1. document[p] \in Page
  OBVIOUS
<1>2. CASE document[p].blocks = <<>>
  <2>. DEFINE text == document[p].text
  <2>1. text \in Text
    BY <1>1 DEF Page
  <2>2. BlocksOf(document[p]) = <<text>>
    BY <1>2 DEF BlocksOf
  <2>3. /\ <<text>> \in Seq(Block \cup Text) /\ Len(<<text>>) = 1
        /\ DOMAIN <<text>> = 1 .. 1 /\ <<text>>[1] = text
    BY <2>1
  <2>4. /\ text.words \in Nat /\ text.letters \in Nat \ {0}
        /\ text.type = "page"
    BY <2>1 DEF Text
  <2>. HIDE DEF text
  <2>5. \A b \in 1 .. 1 : b = 1
    OBVIOUS
  <2>. QED  BY <1>2, <2>2, <2>3, <2>4, <2>5 DEF text
<1>3. CASE document[p].blocks # <<>>
  <2>1. BlocksOf(document[p]) \in Seq(Block)
    BY <1>1, <1>3 DEF Page, BlocksOf
  <2>2. BlocksOf(document[p]) \in Seq(Block \cup Text)
    BY <2>1, SeqMonotonic
  <2>3. /\ DOMAIN BlocksOf(document[p]) = 1 .. Len(BlocksOf(document[p]))
        /\ Len(BlocksOf(document[p])) \in Nat
        /\ \A b \in DOMAIN BlocksOf(document[p]) :
             BlocksOf(document[p])[b] \in Block
    BY <2>1, LenProperties
  <2>4. \A block \in Block : /\ block.words \in Nat
                            /\ block.letters \in Nat \ {0}
                            /\ block.type # "page"
    BY DEF Block
  <2>5. \A b \in DOMAIN BlocksOf(document[p]) : b \in Nat \ {0}
    BY <2>3
  <2>. QED  BY <1>3, <2>2, <2>3, <2>4, <2>5
<1>. QED  BY <1>2, <1>3

FoundIn(cs, p, b, k) ==
  \E c \in DOMAIN cs :
    cs[c].page = p /\ \E i \in DOMAIN cs[c].words : cs[c].words[i] = <<b, k>>

(* emit appends at most the one chunk, and forgets none.                    *)
LEMMA Emit ==
  ASSUME NEW before \in Seq(Chunk), page \in Nat, NEW kind \in {"text", "table"},
         NEW blocks \in Seq(Nat), NEW words \in Seq(Word)
  PROVE  LET after == Emitted(before, kind, blocks, words) IN
         /\ after \in Seq(Chunk)
         /\ \A c \in DOMAIN after :
              \/ c \in DOMAIN before /\ after[c] = before[c]
              \/ after[c].page = page /\ after[c].words = words /\ words # <<>>
         /\ \A p, b, k : FoundIn(before, p, b, k) => FoundIn(after, p, b, k)
         /\ \A b, k : (\E i \in DOMAIN words : words[i] = <<b, k>>) =>
              FoundIn(after, page, b, k)
<1>. DEFINE chunk == [page |-> page, kind |-> kind, blocks |-> blocks,
                      words |-> words]
            after == Emitted(before, kind, blocks, words)
<1>1. CASE words = <<>>
  <2>1. after = before
    BY <1>1 DEF Emitted
  <2>2. DOMAIN words = {}
    BY <1>1
  <2>. QED  BY <2>1, <2>2
<1>2. CASE words # <<>>
  <2>1. after = Append(before, chunk)
    BY <1>2 DEF Emitted
  <2>2. chunk \in Chunk
    BY DEF Chunk
  <2>3. /\ after \in Seq(Chunk)
        /\ Len(after) = Len(before) + 1
        /\ DOMAIN after = 1 .. Len(before) + 1
        /\ DOMAIN before = 1 .. Len(before) /\ Len(before) \in Nat
        /\ \A c \in 1 .. Len(before) : after[c] = before[c]
        /\ after[Len(before) + 1] = chunk
    BY <2>1, <2>2
  <2>4. \A c \in DOMAIN after :
          \/ c \in DOMAIN before /\ after[c] = before[c]
          \/ after[c].page = page /\ after[c].words = words /\ words # <<>>
    BY <1>2, <2>3
  <2>5. \A p, b, k : FoundIn(before, p, b, k) => FoundIn(after, p, b, k)
    <3>. SUFFICES ASSUME NEW p, NEW b, NEW k, FoundIn(before, p, b, k)
                  PROVE  FoundIn(after, p, b, k)
      OBVIOUS
    <3>1. PICK c \in DOMAIN before :
            /\ before[c].page = p
            /\ \E i \in DOMAIN before[c].words : before[c].words[i] = <<b, k>>
      BY DEF FoundIn
    <3>2. c \in DOMAIN after /\ after[c] = before[c]
      BY <2>3
    <3>. HIDE DEF after
    <3>. QED  BY <3>1, <3>2 DEF FoundIn
  <2>6. \A b, k : (\E i \in DOMAIN words : words[i] = <<b, k>>) =>
          FoundIn(after, page, b, k)
    <3>. SUFFICES ASSUME NEW b, NEW k,
                         \E i \in DOMAIN words : words[i] = <<b, k>>
                  PROVE  FoundIn(after, page, b, k)
      OBVIOUS
    <3>1. Len(before) + 1 \in DOMAIN after
      BY <2>3
    <3>2. chunk.page = page /\ chunk.words = words
      OBVIOUS
    <3>3. after[Len(before) + 1] = chunk
      BY <2>3
    <3>. HIDE DEF after, chunk
    <3>. QED  BY <3>1, <3>2, <3>3 DEF FoundIn
  <2>. QED  BY <2>3, <2>4, <2>5, <2>6
<1>. QED  BY <1>1, <1>2

-----------------------------------------------------------------------------
(* The inductive invariant.                                                 *)

(* The page a step is about.                                                *)
Here == document[page]

(* split_fixed is inside of a block that was read, and nothing is grouped.  *)
Splitting ==
  cut # Nil =>
    /\ page \in DOMAIN document /\ Embeddable(Here)
    /\ cut.block \in DOMAIN BlocksOf(Here) /\ cut.block < next
    /\ cut.size = Budget(page)
    /\ Here.blocks # <<>> => BlocksOf(Here)[cut.block].words > max_words
    /\ group = <<>>

(* A group has room for its words, and only pages with blocks have one.     *)
Grouping ==
  /\ Len(group) <= max_words
  /\ group # <<>> => page \in DOMAIN document /\ Here.blocks # <<>>

(* Every chunk is of some page, and fits.                                   *)
Fitting ==
  \A c \in DOMAIN chunks :
    /\ chunks[c].page \in DOMAIN document
    /\ Len(chunks[c].words) <= Budget(chunks[c].page)

GroupedIn(words, b, k) == \E i \in DOMAIN words : words[i] = <<b, k>>

(* Not yet cut: beyond what the next piece repeats of the one before.       *)
LeftBy(c, b, k) ==
  c # Nil /\ b = c.block /\ (c.from = 0 \/ k > c.from + Overlap)

(* A word that was read is in a chunk, in the group, or still to be cut.    *)
Covered ==
  \A p \in DOMAIN document : (Embeddable(document[p]) /\ ~TooShort(document[p])) =>
    \A b \in DOMAIN BlocksOf(document[p]) : ~Vanishes(document[p], b) =>
      \A k \in 1 .. BlocksOf(document[p])[b].words :
        /\ p < page => FoundIn(chunks, p, b, k)
        /\ p = page /\ b < next =>
             \/ FoundIn(chunks, p, b, k) \/ GroupedIn(group, b, k)
             \/ LeftBy(cut, b, k)

IInv == TypeOK /\ Splitting /\ Grouping /\ Fitting /\ Covered

LEMMA Initially == Init => IInv
<1>. SUFFICES ASSUME Init PROVE IInv
  OBVIOUS
<1>1. document \in Seq(Page)
  BY InputsAssumption DEF Init
<1>2. DOMAIN chunks = {} /\ Len(group) = 0 /\ group = <<>> /\ cut = Nil
  BY DEF Init
<1>3. TypeOK
  <2>1. raised \in BOOLEAN
    BY DEF Init
  <2>. QED  BY <1>1, <2>1 DEF Init, TypeOK
<1>4. Splitting /\ Grouping /\ Fitting
  BY <1>2, <1>3, Budgeted DEF Splitting, Grouping, Fitting
<1>5. Covered
  <2>. SUFFICES ASSUME NEW p \in DOMAIN document,
                       NEW b \in DOMAIN BlocksOf(document[p])
                PROVE  ~(p < page) /\ ~(b < next)
    BY DEF Covered
  <2>1. b \in Nat \ {0}
    BY <1>1, BlocksOfPage
  <2>2. p \in Nat \ {0}
    BY <1>1, LenProperties
  <2>. QED  BY <2>1, <2>2 DEF Init
<1>. QED  BY <1>3, <1>4, <1>5 DEF IInv

(* What flush_group does.                                                   *)
LEMMA Flush ==
  ASSUME IInv
  PROVE  /\ Flushed \in Seq(Chunk)
         /\ \A c \in DOMAIN Flushed :
              /\ Flushed[c].page \in DOMAIN document
              /\ Len(Flushed[c].words) <= Budget(Flushed[c].page)
         /\ \A p, b, k : FoundIn(chunks, p, b, k) => FoundIn(Flushed, p, b, k)
         /\ \A b, k : GroupedIn(group, b, k) => FoundIn(Flushed, page, b, k)
<1>1. /\ Flushed \in Seq(Chunk)
      /\ \A c \in DOMAIN Flushed :
           \/ c \in DOMAIN chunks /\ Flushed[c] = chunks[c]
           \/ Flushed[c].page = page /\ Flushed[c].words = group /\ group # <<>>
      /\ \A p, b, k : FoundIn(chunks, p, b, k) => FoundIn(Flushed, p, b, k)
      /\ \A b, k : (\E i \in DOMAIN group : group[i] = <<b, k>>) =>
           FoundIn(Flushed, page, b, k)
  BY Emit DEF IInv, TypeOK, Flushed
<1>3. \A c \in DOMAIN Flushed :
        /\ Flushed[c].page \in DOMAIN document
        /\ Len(Flushed[c].words) <= Budget(Flushed[c].page)
  <2>. SUFFICES ASSUME NEW c \in DOMAIN Flushed
                PROVE  /\ Flushed[c].page \in DOMAIN document
                       /\ Len(Flushed[c].words) <= Budget(Flushed[c].page)
    OBVIOUS
  <2>1. CASE c \in DOMAIN chunks /\ Flushed[c] = chunks[c]
    BY <2>1 DEF IInv, Fitting
  <2>2. CASE Flushed[c].page = page /\ Flushed[c].words = group /\ group # <<>>
    BY <2>2 DEF IInv, Grouping, Here, Budget
  <2>. QED  BY <1>1, <2>1, <2>2
<1>. QED  BY <1>1, <1>3 DEF GroupedIn

-----------------------------------------------------------------------------
(* The actions.  Those that read a block or cut a piece stay on the page.   *)

(* What was covered stays covered, if the block just read is, and what was  *)
(* grouped is still grouped or now found.                                   *)
LEMMA CoveredByReading ==
  ASSUME IInv, ReadBlock, cut' \in Cut \cup {Nil},
         \A p, b, k : FoundIn(chunks, p, b, k) => FoundIn(chunks', p, b, k),
         \A b, k : GroupedIn(group, b, k) =>
           GroupedIn(group', b, k) \/ FoundIn(chunks', page, b, k),
         \A k \in 1 .. Current.words :
           \/ FoundIn(chunks', page, next, k) \/ GroupedIn(group', next, k)
           \/ LeftBy(cut', next, k)
  PROVE  Covered'
<1>1. /\ document' = document /\ page' = page /\ next' = next + 1
      /\ cut = Nil /\ next \in Nat /\ document \in Seq(Page) /\ page \in Nat
      /\ page \in DOMAIN document /\ max_words' = max_words
  BY DEF ReadBlock, Reading, IInv, TypeOK
<1>. SUFFICES ASSUME NEW p \in DOMAIN document,
                     Embeddable(document[p]), ~TooShort(document[p]),
                     NEW b \in DOMAIN BlocksOf(document[p]),
                     ~Vanishes(document[p], b),
                     NEW k \in 1 .. BlocksOf(document[p])[b].words
              PROVE  /\ p < page => FoundIn(chunks', p, b, k)
                     /\ p = page /\ b < next + 1 =>
                          \/ FoundIn(chunks', p, b, k) \/ GroupedIn(group', b, k)
                          \/ LeftBy(cut', b, k)
  BY <1>1 DEF Covered, Embeddable, TooShort, BlocksOf, Chars, Vanishes
<1>2. /\ p < page => FoundIn(chunks, p, b, k)
      /\ p = page /\ b < next =>
           FoundIn(chunks, p, b, k) \/ GroupedIn(group, b, k)
  BY <1>1 DEF IInv, Covered, LeftBy
<1>3. b \in Nat
  BY <1>1, BlocksOfPage
<1>4. CASE b = next /\ p = page
  BY <1>1, <1>4 DEF Current
<1>. QED  BY <1>1, <1>2, <1>3, <1>4

LEMMA CurrentBlock ==
  ASSUME IInv, ReadBlock
  PROVE  /\ Current.words \in Nat /\ Current.letters \in Nat \ {0}
         /\ next \in Nat \ {0} /\ next \in DOMAIN BlocksOf(document[page])
         /\ Current.type = "page" <=> document[page].blocks = <<>>
         /\ cut = Nil /\ page \in DOMAIN document /\ Embeddable(document[page])
         /\ document' = document /\ page' = page /\ next' = next + 1
         /\ max_words' = max_words /\ raised' = raised
         /\ WordsOf(next, 0, Current.words) \in Seq(Word)
         /\ Len(WordsOf(next, 0, Current.words)) = Current.words
         /\ \A k \in 1 .. Current.words :
              /\ k \in DOMAIN WordsOf(next, 0, Current.words)
              /\ WordsOf(next, 0, Current.words)[k] = <<next, k>>
<1>1. /\ next \in DOMAIN BlocksOf(document[page])
      /\ cut = Nil /\ page \in DOMAIN document /\ Embeddable(document[page])
      /\ document' = document /\ page' = page /\ next' = next + 1
      /\ max_words' = max_words /\ raised' = raised
      /\ document \in Seq(Page)
  BY DEF ReadBlock, Reading, IInv, TypeOK
<1>2. /\ Current.words \in Nat /\ Current.letters \in Nat \ {0}
      /\ next \in Nat \ {0}
      /\ Current.type = "page" <=> document[page].blocks = <<>>
  BY <1>1, BlocksOfPage DEF Current
<1>3. /\ WordsOf(next, 0, Current.words) \in Seq(Word)
      /\ Len(WordsOf(next, 0, Current.words)) = Current.words - 0
      /\ \A k \in 1 .. Current.words - 0 :
           WordsOf(next, 0, Current.words)[k] = <<next, 0 + k>>
  <2>1. 0 \in Nat /\ next \in Nat /\ 0 <= Current.words
    BY <1>2
  <2>. QED  BY <1>2, <2>1, WordsOfBlock
<1>4. DOMAIN WordsOf(next, 0, Current.words) = 1 .. Current.words
  BY <1>2, <1>3, LenProperties
<1>5. \A k \in 1 .. Current.words :
        /\ k \in DOMAIN WordsOf(next, 0, Current.words)
        /\ WordsOf(next, 0, Current.words)[k] = <<next, k>>
  <2>. SUFFICES ASSUME NEW k \in 1 .. Current.words
                PROVE  /\ k \in DOMAIN WordsOf(next, 0, Current.words)
                       /\ WordsOf(next, 0, Current.words)[k] = <<next, k>>
    OBVIOUS
  <2>1. k \in 1 .. Current.words - 0 /\ 0 + k = k
    BY <1>2
  <2>. QED  BY <1>3, <1>4, <2>1
<1>6. Current.words - 0 = Current.words
  BY <1>2
<1>. QED  BY <1>1, <1>2, <1>3, <1>5, <1>6

(* A block that is split is to be cut as a whole.                           *)
LEMMA SplitStarts ==
  ASSUME IInv, ReadBlock, NEW kind \in {"text", "table"},
         NEW size, size \in Nat, size = Budget(page),
         StartSplit(next, kind, size), group' = <<>>,
         Here.blocks # <<>> => Current.words > max_words
  PROVE  /\ cut' \in Cut /\ Splitting'
         /\ \A k : LeftBy(cut', next, k)
<1>1. /\ next \in Nat \ {0} /\ next \in DOMAIN BlocksOf(document[page])
      /\ page \in DOMAIN document /\ Embeddable(document[page])
      /\ document' = document /\ page' = page /\ next' = next + 1
      /\ max_words' = max_words
  BY CurrentBlock
<1>2. cut' = [block |-> next, kind |-> kind, size |-> size, from |-> 0]
  BY DEF StartSplit
<1>3. cut' \in Cut
  BY <1>1, <1>2 DEF Cut
<1>4. Splitting'
  BY <1>1, <1>2
     DEF Splitting, Here, Current, Embeddable, BlocksOf, Budget
<1>5. cut' # Nil
  BY <1>3, NilAssumption
<1>. QED  BY <1>2, <1>3, <1>4, <1>5 DEF LeftBy

LEMMA TakePageStep == IInv /\ TakePage => IInv'
<1>. SUFFICES ASSUME IInv, TakePage PROVE IInv'
  OBVIOUS
<1>1. ReadBlock /\ Current.type = "page" /\ StartSplit(next, "text", FixedSize)
      /\ group' = group /\ ids' = ids /\ chunks' = chunks
  BY DEF TakePage
<1>2. Here.blocks = <<>> /\ group = <<>>
  BY <1>1, CurrentBlock DEF Here, IInv, Grouping
<1>3. FixedSize \in Nat /\ FixedSize = Budget(page)
  BY <1>2, Budgeted DEF Budget, Here, IInv
<1>4. cut' \in Cut /\ Splitting' /\ \A k : LeftBy(cut', next, k)
  BY <1>1, <1>2, <1>3, SplitStarts
<1>5. TypeOK'
  BY <1>1, <1>4, CurrentBlock DEF IInv, TypeOK
<1>6. Grouping' /\ Fitting'
  BY <1>1, CurrentBlock DEF IInv, Grouping, Fitting, Here, Budget
<1>7. Covered'
  BY <1>1, <1>4, CoveredByReading
<1>. QED  BY <1>4, <1>5, <1>6, <1>7 DEF IInv

LEMMA TakeTableStep == IInv /\ TakeTable => IInv'
<1>. SUFFICES ASSUME IInv, TakeTable PROVE IInv'
  OBVIOUS
<1>. DEFINE text == WordsOf(next, 0, Current.words)
<1>1. /\ ReadBlock /\ Current.type = "table" /\ Current.words <= max_words
      /\ chunks' = Emitted(Flushed, "table", <<next>>, text)
      /\ group' = <<>> /\ ids' = <<>> /\ cut' = cut
  BY DEF TakeTable, NoGroup
<1>2. /\ text \in Seq(Word) /\ Len(text) = Current.words
      /\ \A k \in 1 .. Current.words : k \in DOMAIN text /\ text[k] = <<next, k>>
      /\ <<next>> \in Seq(Nat) /\ page \in Nat /\ cut = Nil
      /\ document' = document /\ page' = page /\ page \in DOMAIN document
      /\ next' = next + 1 /\ next \in Nat \ {0}
      /\ max_words' = max_words /\ raised' = raised
  BY <1>1, CurrentBlock DEF IInv, TypeOK
<1>. HIDE DEF text
<1>3. /\ chunks' \in Seq(Chunk)
      /\ \A c \in DOMAIN chunks' :
           \/ c \in DOMAIN Flushed /\ chunks'[c] = Flushed[c]
           \/ chunks'[c].page = page /\ chunks'[c].words = text
      /\ \A p, b, k : FoundIn(Flushed, p, b, k) => FoundIn(chunks', p, b, k)
      /\ \A b, k : (\E i \in DOMAIN text : text[i] = <<b, k>>) =>
           FoundIn(chunks', page, b, k)
  <2>. DEFINE after == Emitted(Flushed, "table", <<next>>, text)
  <2>1. Flushed \in Seq(Chunk) /\ "table" \in {"text", "table"}
    BY Flush
  <2>2. /\ after \in Seq(Chunk)
        /\ \A c \in DOMAIN after :
             \/ c \in DOMAIN Flushed /\ after[c] = Flushed[c]
             \/ after[c].page = page /\ after[c].words = text /\ text # <<>>
        /\ \A p, b, k : FoundIn(Flushed, p, b, k) => FoundIn(after, p, b, k)
        /\ \A b, k : (\E i \in DOMAIN text : text[i] = <<b, k>>) =>
             FoundIn(after, page, b, k)
    BY <1>2, <2>1, Emit
  <2>3. chunks' = after
    BY <1>1
  <2>. HIDE DEF after
  <2>. QED  BY <2>2, <2>3
<1>4. TypeOK' /\ Splitting'
  BY <1>1, <1>2, <1>3 DEF IInv, TypeOK, Splitting
<1>5. Grouping'
  BY <1>1, <1>2, Budgeted DEF Grouping, IInv, TypeOK
<1>6. Len(text) <= Budget(page)
  <2>1. Current.type = "page" <=> document[page].blocks = <<>>
    BY <1>1, CurrentBlock
  <2>. QED  BY <1>1, <1>2, <2>1 DEF Budget
<1>7. Fitting'
  BY <1>2, <1>3, <1>6, Flush DEF Fitting, Budget
<1>8. Covered'
  <2>1. \A k \in 1 .. Current.words : FoundIn(chunks', page, next, k)
    BY <1>2, <1>3
  <2>2. cut' \in Cut \cup {Nil}
    BY <1>1, <1>2
  <2>. QED  BY <1>1, <1>3, <2>1, <2>2, Flush, CoveredByReading
<1>. QED  BY <1>4, <1>5, <1>7, <1>8 DEF IInv

LEMMA TakeOversizedStep == IInv /\ TakeOversized => IInv'
<1>. SUFFICES ASSUME IInv, TakeOversized PROVE IInv'
  OBVIOUS
<1>. DEFINE kind == IF Current.type = "table" THEN "table" ELSE "text"
<1>1. /\ ReadBlock /\ Current.type # "page" /\ Current.words > max_words
      /\ chunks' = Flushed /\ StartSplit(next, kind, max_words)
      /\ group' = <<>> /\ ids' = <<>>
  BY DEF TakeOversized, NoGroup
<1>2. /\ document' = document /\ page' = page /\ page \in DOMAIN document
      /\ next' = next + 1 /\ next \in Nat \ {0} /\ Here.blocks # <<>>
      /\ max_words' = max_words /\ raised' = raised
  BY <1>1, CurrentBlock DEF Here
<1>3. /\ max_words \in Nat /\ max_words = Budget(page)
      /\ kind \in {"text", "table"}
  BY <1>2, Budgeted DEF Budget, Here, IInv
<1>4. cut' \in Cut /\ Splitting' /\ \A k : LeftBy(cut', next, k)
  BY <1>1, <1>3, SplitStarts
<1>5. TypeOK'
  BY <1>1, <1>2, <1>4, Flush DEF IInv, TypeOK
<1>6. Grouping' /\ Fitting'
  BY <1>1, <1>2, <1>3, Flush DEF Grouping, Fitting, Budget
<1>7. Covered'
  BY <1>1, <1>4, Flush, CoveredByReading
<1>. QED  BY <1>4, <1>5, <1>6, <1>7 DEF IInv

LEMMA TakeTextStep == IInv /\ TakeText => IInv'
<1>. SUFFICES ASSUME IInv, TakeText PROVE IInv'
  OBVIOUS
<1>. DEFINE text == WordsOf(next, 0, Current.words)
<1>1. /\ ReadBlock /\ Current.type \in {"heading", "other"}
      /\ Current.words <= max_words /\ cut' = cut
      /\ \/ chunks' = Flushed /\ group' = text /\ ids' = <<next>>
         \/ /\ ~NoRoomFor(Current)
            /\ group' = group \o text /\ ids' = Append(ids, next)
            /\ chunks' = chunks
  BY DEF TakeText
<1>2. /\ text \in Seq(Word) /\ Len(text) = Current.words
      /\ \A k \in 1 .. Current.words : k \in DOMAIN text /\ text[k] = <<next, k>>
      /\ DOMAIN text = 1 .. Len(text) /\ Current.words \in Nat
      /\ page \in Nat /\ cut = Nil
      /\ document' = document /\ page' = page /\ page \in DOMAIN document
      /\ next' = next + 1 /\ next \in Nat \ {0}
      /\ document[page].blocks # <<>>
      /\ max_words' = max_words /\ raised' = raised
  BY <1>1, CurrentBlock, LenProperties DEF IInv, TypeOK
<1>. HIDE DEF text
<1>3. max_words \in Nat /\ group \in Seq(Word) /\ ids \in Seq(Nat)
  BY Budgeted DEF IInv, TypeOK
<1>4. /\ group \o text \in Seq(Word) /\ Len(group \o text) = Len(group) + Len(text)
      /\ DOMAIN (group \o text) = 1 .. Len(group) + Len(text)
      /\ \A i \in 1 .. Len(group) + Len(text) :
           (group \o text)[i] = IF i <= Len(group) THEN group[i]
                                ELSE text[i - Len(group)]
      /\ DOMAIN group = 1 .. Len(group) /\ Len(group) \in Nat
  <2>1. /\ group \o text \in Seq(Word)
        /\ Len(group \o text) = Len(group) + Len(text)
        /\ \A i \in 1 .. Len(group) + Len(text) :
             (group \o text)[i] = IF i <= Len(group) THEN group[i]
                                  ELSE text[i - Len(group)]
    BY <1>2, <1>3, ConcatProperties
  <2>2. DOMAIN (group \o text) = 1 .. Len(group \o text)
    BY <2>1, LenProperties
  <2>3. DOMAIN group = 1 .. Len(group) /\ Len(group) \in Nat
    BY <1>3, LenProperties
  <2>. QED  BY <2>1, <2>2, <2>3
<1>5. TypeOK' /\ Splitting'
  <2>1. <<next>> \in Seq(Nat) /\ Append(ids, next) \in Seq(Nat)
    BY <1>2, <1>3
  <2>2. chunks \in Seq(Chunk) /\ Flushed \in Seq(Chunk)
    BY Flush DEF IInv, TypeOK
  <2>3. chunks' \in Seq(Chunk) /\ group' \in Seq(Word) /\ ids' \in Seq(Nat)
    BY <1>1, <1>2, <1>4, <2>1, <2>2
  <2>. QED  BY <1>1, <1>2, <2>3 DEF IInv, TypeOK, Splitting
<1>6. Grouping'
  <2>1. Len(group') <= max_words'
    BY <1>1, <1>2, <1>3, <1>4 DEF NoRoomFor
  <2>. QED  BY <1>2, <2>1 DEF Grouping, Here
<1>7. Fitting'
  BY <1>1, <1>2, Flush DEF IInv, Fitting, Budget
<1>8. Covered'
  <2>1. \A p, b, k : FoundIn(chunks, p, b, k) => FoundIn(chunks', p, b, k)
    BY <1>1, Flush
  <2>2. ASSUME NEW b, NEW k, GroupedIn(group, b, k)
        PROVE  GroupedIn(group', b, k) \/ FoundIn(chunks', page, b, k)
    <3>1. CASE group' = group \o text
      <4>1. PICK i \in DOMAIN group : group[i] = <<b, k>>
        BY <2>2 DEF GroupedIn
      <4>2. i \in DOMAIN (group \o text) /\ (group \o text)[i] = group[i]
        BY <1>2, <1>4
      <4>. QED  BY <3>1, <4>1, <4>2 DEF GroupedIn
    <3>. QED  BY <1>1, <2>2, <3>1, Flush
  <2>3. ASSUME NEW k \in 1 .. Current.words
        PROVE  GroupedIn(group', next, k)
    <3>1. k \in DOMAIN text /\ text[k] = <<next, k>>
      BY <1>2
    <3>2. CASE group' = text
      BY <3>1, <3>2 DEF GroupedIn
    <3>3. CASE group' = group \o text
      <4>1. Len(group) + k \in DOMAIN (group \o text)
        BY <1>2, <1>4
      <4>2. (group \o text)[Len(group) + k] = text[k]
        BY <1>2, <1>4
      <4>. QED  BY <3>1, <3>3, <4>1, <4>2 DEF GroupedIn
    <3>. QED  BY <1>1, <3>2, <3>3
  <2>4. cut' \in Cut \cup {Nil}
    BY <1>1, <1>2
  <2>. QED  BY <1>1, <2>1, <2>2, <2>3, <2>4, CoveredByReading
<1>. QED  BY <1>5, <1>6, <1>7, <1>8 DEF IInv

(* Cutting: where the next piece starts, what the last one left over was    *)
(* in the piece before.                                                     *)
LEMMA LongerThanOverlap ==
  ASSUME NEW n \in Nat, NEW letters \in Nat \ {0},
         n * letters + n - 1 <= MinChars
  PROVE  n <= Overlap
<1>1. n * letters >= n
  <2>1. letters - 1 \in Nat /\ n * letters = n + n * (letters - 1)
    OBVIOUS
  <2>2. n * (letters - 1) \in Nat
    BY <2>1
  <2>. QED  BY <2>1, <2>2
<1>2. n + n - 1 <= MinChars
  <2>1. n * letters \in Nat /\ MinChars \in Nat
    BY SizesAssumption
  <2>. QED  BY <1>1, <2>1
<1>. QED  BY <1>2, SizesAssumption

LEMMA SplitPieceStep == IInv /\ SplitPiece => IInv'
<1>. SUFFICES ASSUME IInv, SplitPiece PROVE IInv'
  OBVIOUS
<1>. DEFINE block == BlocksOf(Here)[cut.block]
            at == cut.block
            to == IF cut.from + cut.size < block.words THEN cut.from + cut.size
                  ELSE block.words
            named == IF block.type = "page" THEN <<>> ELSE <<cut.block>>
            piece == WordsOf(at, cut.from, to)
            long == Chars(block, to - cut.from) > MinChars
<1>1. /\ cut # Nil /\ cut.size # Overlap /\ ~Exhausted(cut)
      /\ chunks' = IF long THEN Emitted(chunks, cut.kind, named, piece) ELSE chunks
      /\ cut' = [cut EXCEPT !.from = NextStart(cut)]
      /\ document' = document /\ page' = page /\ next' = next
      /\ max_words' = max_words /\ raised' = raised
      /\ group' = group /\ ids' = ids
  BY DEF SplitPiece, Here
<1>2. /\ document \in Seq(Page) /\ page \in Nat \ {0} /\ next \in Nat \ {0}
      /\ cut \in Cut /\ chunks \in Seq(Chunk)
      /\ page \in DOMAIN document /\ Embeddable(Here)
      /\ at \in DOMAIN BlocksOf(Here) /\ at < next
      /\ cut.size = Budget(page)
      /\ Here.blocks # <<>> => block.words > max_words
      /\ group = <<>>
  BY <1>1 DEF IInv, TypeOK, Splitting
<1>3. /\ block.words \in Nat /\ block.letters \in Nat \ {0} /\ at \in Nat \ {0}
      /\ Here.blocks = <<>> => block = Here.text
  BY <1>2, BlocksOfPage DEF Here
<1>4. /\ cut.from \in Nat /\ cut.size \in Nat /\ cut.kind \in {"text", "table"}
      /\ cut.size > Overlap /\ Overlap \in Nat /\ max_words \in Nat
      /\ Here.blocks # <<>> => cut.size = max_words
      /\ cut.from < block.words
  <2>1. /\ cut.from \in Nat /\ cut.size \in Nat /\ cut.kind \in {"text", "table"}
        /\ Overlap \in Nat /\ max_words \in Nat
        /\ Here.blocks # <<>> => cut.size = max_words
    BY <1>2, Budgeted DEF Cut, Budget, Here, IInv
  <2>2. cut.size > Overlap /\ cut.from < block.words
    BY <1>1, <1>3, <2>1 DEF Exhausted, Here
  <2>. QED  BY <2>1, <2>2
<1>5. /\ cut' = [block |-> at, kind |-> cut.kind, size |-> cut.size,
                 from |-> cut.from + cut.size - Overlap]
      /\ cut' \in Cut /\ cut.from + cut.size - Overlap \in Nat \ {0}
  <2>1. cut.from + cut.size - Overlap \in Nat \ {0}
    BY <1>4
  <2>. QED  BY <1>1, <1>2, <1>4, <2>1 DEF Cut, NextStart
<1>. HIDE DEF block
<1>6. /\ to \in Nat /\ cut.from <= to /\ to - cut.from \in Nat
      /\ to - cut.from <= cut.size /\ to <= block.words
      /\ to = block.words \/ to = cut.from + cut.size
  BY <1>1, <1>3, <1>4
<1>. HIDE DEF to
<1>7. /\ piece \in Seq(Word) /\ Len(piece) = to - cut.from
      /\ \A k \in 1 .. to - cut.from : piece[k] = <<at, cut.from + k>>
      /\ DOMAIN piece = 1 .. to - cut.from
  <2>1. /\ piece \in Seq(Word) /\ Len(piece) = to - cut.from
        /\ \A k \in 1 .. to - cut.from : piece[k] = <<at, cut.from + k>>
    <3>. DEFINE from == cut.from
    <3>1. at \in Nat /\ from \in Nat /\ to \in Nat /\ from <= to
      BY <1>3, <1>4, <1>6
    <3>. HIDE DEF at, from
    <3>2. /\ WordsOf(at, from, to) \in Seq(Word)
          /\ Len(WordsOf(at, from, to)) = to - from
          /\ \A k \in 1 .. to - from :
               WordsOf(at, from, to)[k] = <<at, from + k>>
      BY <3>1, WordsOfBlock
    <3>. QED  BY <3>2 DEF from, piece
  <2>. QED  BY <2>1, LenProperties
<1>. HIDE DEF piece
<1>8. /\ chunks' \in Seq(Chunk)
      /\ \A c \in DOMAIN chunks' :
           \/ c \in DOMAIN chunks /\ chunks'[c] = chunks[c]
           \/ chunks'[c].page = page /\ chunks'[c].words = piece
      /\ \A p, b, k : FoundIn(chunks, p, b, k) => FoundIn(chunks', p, b, k)
      /\ long => \A b, k : (\E i \in DOMAIN piece : piece[i] = <<b, k>>) =>
                   FoundIn(chunks', page, b, k)
  <2>1. CASE ~long
    BY <1>1, <1>2, <2>1
  <2>2. CASE long
    <3>. DEFINE after == Emitted(chunks, cut.kind, named, piece)
    <3>1. named \in Seq(Nat)
      BY <1>3
    <3>2. /\ after \in Seq(Chunk)
          /\ \A c \in DOMAIN after :
               \/ c \in DOMAIN chunks /\ after[c] = chunks[c]
               \/ after[c].page = page /\ after[c].words = piece /\ piece # <<>>
          /\ \A p, b, k : FoundIn(chunks, p, b, k) => FoundIn(after, p, b, k)
          /\ \A b, k : (\E i \in DOMAIN piece : piece[i] = <<b, k>>) =>
               FoundIn(after, page, b, k)
      <4>. DEFINE kind == cut.kind
      <4>1. /\ page \in Nat /\ chunks \in Seq(Chunk)
            /\ kind \in {"text", "table"} /\ piece \in Seq(Word)
        BY <1>2, <1>4, <1>7
      <4>. HIDE DEF named, kind
      <4>2. LET made == Emitted(chunks, kind, named, piece) IN
            /\ made \in Seq(Chunk)
            /\ \A c \in DOMAIN made :
                 \/ c \in DOMAIN chunks /\ made[c] = chunks[c]
                 \/ made[c].page = page /\ made[c].words = piece /\ piece # <<>>
            /\ \A p, b, k : FoundIn(chunks, p, b, k) => FoundIn(made, p, b, k)
            /\ \A b, k : (\E i \in DOMAIN piece : piece[i] = <<b, k>>) =>
                 FoundIn(made, page, b, k)
        BY <3>1, <4>1, Emit
      <4>. QED  BY <4>2 DEF kind
    <3>3. chunks' = after
      BY <1>1, <2>2
    <3>. HIDE DEF after
    <3>. QED  BY <3>2, <3>3
  <2>. QED  BY <2>1, <2>2
<1>. HIDE DEF long
<1>9. TypeOK'
  BY <1>1, <1>2, <1>5, <1>8 DEF IInv, TypeOK
<1>10. Splitting'
  BY <1>1, <1>2, <1>5 DEF Splitting, Here, Embeddable, BlocksOf, Budget, block
<1>11. Grouping' /\ Fitting'
  BY <1>1, <1>2, <1>6, <1>7, <1>8 DEF IInv, Grouping, Fitting, Here, Budget
<1>12. Covered'
  <2>. SUFFICES ASSUME NEW p \in DOMAIN document,
                       Embeddable(document[p]), ~TooShort(document[p]),
                       NEW b \in DOMAIN BlocksOf(document[p]),
                       ~Vanishes(document[p], b),
                       NEW k \in 1 .. BlocksOf(document[p])[b].words
                PROVE  /\ p < page => FoundIn(chunks', p, b, k)
                       /\ p = page /\ b < next =>
                            \/ FoundIn(chunks', p, b, k) \/ GroupedIn(group', b, k)
                            \/ LeftBy(cut', b, k)
    BY <1>1 DEF Covered, Embeddable, TooShort, BlocksOf, Chars, Vanishes
  <2>1. /\ p < page => FoundIn(chunks, p, b, k)
        /\ p = page /\ b < next =>
             \/ FoundIn(chunks, p, b, k) \/ GroupedIn(group, b, k)
             \/ LeftBy(cut, b, k)
    BY DEF IInv, Covered
  <2>2. ASSUME p = page, b < next, LeftBy(cut, b, k)
        PROVE  FoundIn(chunks', p, b, k) \/ LeftBy(cut', b, k)
    <3>1. /\ b = at /\ (cut.from = 0 \/ k > cut.from + Overlap)
          /\ k \in 1 .. block.words
      BY <2>2 DEF LeftBy, Here, block
    <3>2. CASE long /\ k <= to
      <4>1. k > cut.from
        BY <1>4, <3>1
      <4>2. k - cut.from \in DOMAIN piece /\ piece[k - cut.from] = <<b, k>>
        BY <1>3, <1>4, <1>6, <1>7, <3>1, <3>2, <4>1
      <4>. QED  BY <1>8, <2>2, <3>2, <4>2
    <3>3. CASE k > to
      <4>1. to = cut.from + cut.size
        BY <1>3, <1>6, <3>1, <3>3
      <4>2. k > (cut.from + cut.size - Overlap) + Overlap
        BY <1>4, <3>1, <3>3, <4>1
      <4>3. cut' # Nil
        BY <1>5, NilAssumption
      <4>. QED  BY <1>5, <3>1, <4>2, <4>3 DEF LeftBy
    <3>4. CASE ~long /\ k <= to
      <4>1. (to - cut.from) * block.letters + (to - cut.from) - 1 <= MinChars
        <5>1. (to - cut.from) * block.letters \in Int /\ MinChars \in Nat
          BY <1>3, <1>6, SizesAssumption
        <5>. QED  BY <1>3, <1>6, <3>4, <5>1 DEF long, Chars
      <4>2. to - cut.from <= Overlap
        BY <1>3, <1>6, <4>1, LongerThanOverlap
      <4>3. to = block.words /\ block.words - cut.from <= Overlap
        BY <1>4, <1>6, <4>2
      <4>4. cut.from = 0
        BY <1>3, <1>4, <3>1, <4>3
      <4>5. Here.blocks = <<>> /\ block = Here.text
        BY <1>2, <1>3, <1>4, <4>3, <4>4
      <4>6. TooShort(Here)
        <5>1. Chars(block, block.words) <= MinChars
          BY <1>3, <4>1, <4>3, <4>4 DEF Chars
        <5>. QED  BY <4>5, <5>1 DEF TooShort
      <4>. QED  BY <2>2, <4>6 DEF Here
    <3>. QED  BY <1>3, <1>6, <3>1, <3>2, <3>3, <3>4
  <2>. QED  BY <1>1, <1>8, <2>1, <2>2
<1>. QED  BY <1>9, <1>10, <1>11, <1>12 DEF IInv

LEMMA EndSplitStep == IInv /\ EndSplit => IInv'
<1>. SUFFICES ASSUME IInv, EndSplit PROVE IInv'
  OBVIOUS
<1>1. /\ cut # Nil /\ Exhausted(cut)
      /\ cut' = Nil
      /\ document' = document /\ page' = page /\ next' = next
      /\ max_words' = max_words /\ raised' = raised
      /\ group' = group /\ ids' = ids /\ chunks' = chunks
  BY DEF EndSplit
<1>2. /\ document \in Seq(Page) /\ page \in DOMAIN document
      /\ cut.block \in DOMAIN BlocksOf(Here) /\ cut.from \in Nat
      /\ cut.size = Budget(page)
      /\ Here.blocks # <<>> => BlocksOf(Here)[cut.block].words > max_words
  BY <1>1 DEF IInv, TypeOK, Splitting, Cut
<1>3. BlocksOf(Here)[cut.block].words \in Nat
  BY <1>2, BlocksOfPage DEF Here
<1>4. TypeOK' /\ Splitting' /\ Grouping' /\ Fitting'
  BY <1>1 DEF IInv, TypeOK, Splitting, Grouping, Fitting, Here, Budget
<1>5. ASSUME ~Vanishes(Here, cut.block),
             NEW k \in 1 .. BlocksOf(Here)[cut.block].words
      PROVE  ~LeftBy(cut, cut.block, k)
  <2>1. Overlap \in Nat /\ ~(cut.size < Overlap)
    <3>1. CASE Here.blocks = <<>>
      BY <1>2, <3>1, Budgeted DEF IInv, Here
    <3>2. CASE Here.blocks # <<>>
      BY <1>2, <1>5, <3>2, Budgeted DEF IInv, Here, Vanishes, BlocksOf, Budget
    <3>. QED  BY <3>1, <3>2
  <2>2. cut.from >= BlocksOf(Here)[cut.block].words
    BY <1>1, <2>1 DEF Exhausted, Here
  <2>. QED  BY <1>2, <1>3, <2>1, <2>2 DEF LeftBy
<1>6. Covered'
  <2>. SUFFICES ASSUME NEW p \in DOMAIN document,
                       Embeddable(document[p]), ~TooShort(document[p]),
                       NEW b \in DOMAIN BlocksOf(document[p]),
                       ~Vanishes(document[p], b),
                       NEW k \in 1 .. BlocksOf(document[p])[b].words
                PROVE  /\ p < page => FoundIn(chunks, p, b, k)
                       /\ p = page /\ b < next =>
                            FoundIn(chunks, p, b, k) \/ GroupedIn(group, b, k)
    BY <1>1 DEF Covered, Embeddable, TooShort, BlocksOf, Chars, Vanishes
  <2>1. /\ p < page => FoundIn(chunks, p, b, k)
        /\ p = page /\ b < next =>
             \/ FoundIn(chunks, p, b, k) \/ GroupedIn(group, b, k)
             \/ LeftBy(cut, b, k)
    BY DEF IInv, Covered
  <2>2. p = page => ~LeftBy(cut, b, k)
    BY <1>5 DEF LeftBy, Here
  <2>. QED  BY <2>1, <2>2
<1>. QED  BY <1>4, <1>6 DEF IInv

LEMMA RaisesStep == IInv /\ SplitRaises => IInv'
<1>. SUFFICES ASSUME IInv, SplitRaises PROVE IInv'
  OBVIOUS
<1>1. /\ document' = document /\ page' = page /\ next' = next /\ cut' = cut
      /\ max_words' = max_words /\ raised' = TRUE
      /\ group' = group /\ ids' = ids /\ chunks' = chunks
  BY DEF SplitRaises
<1>2. raised' \in BOOLEAN
  BY <1>1
<1>3. TypeOK'
  BY <1>1, <1>2 DEF IInv, TypeOK
<1>4. (Splitting /\ Grouping /\ Fitting /\ Covered)'
  BY <1>1 DEF IInv, Splitting, Grouping, Fitting, Covered, Here, Budget,
              Embeddable, TooShort, BlocksOf, Chars, Vanishes
<1>. QED  BY <1>3, <1>4 DEF IInv

LEMMA ClosePageStep == IInv /\ ClosePage => IInv'
<1>. SUFFICES ASSUME IInv, ClosePage PROVE IInv'
  OBVIOUS
<1>1. /\ page \in DOMAIN document /\ cut = Nil
      /\ ~Embeddable(document[page]) \/ next > Len(BlocksOf(document[page]))
      /\ chunks' = Flushed /\ group' = <<>> /\ ids' = <<>>
      /\ page' = page + 1 /\ next' = 1
      /\ document' = document /\ cut' = cut
      /\ max_words' = max_words /\ raised' = raised
  BY DEF ClosePage, Reading, NoGroup
<1>2. /\ document \in Seq(Page) /\ page \in Nat \ {0}
      /\ DOMAIN document = 1 .. Len(document)
  BY LenProperties DEF IInv, TypeOK
<1>3. TypeOK'
  BY <1>1, <1>2, Flush DEF IInv, TypeOK
<1>4. Splitting' /\ Grouping' /\ Fitting'
  BY <1>1, Flush, Budgeted DEF Splitting, Grouping, Fitting, Budget, IInv
<1>5. Covered'
  <2>. SUFFICES ASSUME NEW p \in DOMAIN document,
                       Embeddable(document[p]), ~TooShort(document[p]),
                       NEW b \in DOMAIN BlocksOf(document[p]),
                       ~Vanishes(document[p], b),
                       NEW k \in 1 .. BlocksOf(document[p])[b].words
                PROVE  /\ p < page + 1 => FoundIn(Flushed, p, b, k)
                       /\ ~(p = page + 1 /\ b < 1)
    BY <1>1 DEF Covered, Embeddable, TooShort, BlocksOf, Chars, Vanishes
  <2>1. /\ b \in Nat \ {0} /\ b <= Len(BlocksOf(document[p]))
        /\ Len(BlocksOf(document[p])) \in Nat
    BY <1>2, BlocksOfPage
  <2>2. p \in Nat /\ next \in Nat
    BY <1>2 DEF IInv, TypeOK
  <2>3. CASE p < page
    <3>1. FoundIn(chunks, p, b, k)
      BY <2>3 DEF IInv, Covered
    <3>. QED  BY <2>1, <3>1, Flush
  <2>4. CASE p = page
    <3>1. b < next
      BY <1>1, <2>1, <2>2, <2>4
    <3>2. FoundIn(chunks, p, b, k) \/ GroupedIn(group, b, k)
      BY <1>1, <2>4, <3>1 DEF IInv, Covered, LeftBy
    <3>. QED  BY <2>1, <2>4, <3>2, Flush
  <2>. QED  BY <1>2, <2>1, <2>2, <2>3, <2>4
<1>. QED  BY <1>3, <1>4, <1>5 DEF IInv

LEMMA Inductive == IInv /\ [Next]_vars => IInv'
<1>1. IInv /\ UNCHANGED vars => IInv'
  BY DEF vars, IInv, TypeOK, Splitting, Grouping, Fitting, Covered, Here, Budget,
         Embeddable, TooShort, BlocksOf, Chars, Vanishes
<1>. QED
  BY <1>1, TakePageStep, TakeTableStep, TakeOversizedStep, TakeTextStep,
     SplitPieceStep, EndSplitStep, RaisesStep, ClosePageStep DEF Next

LEMMA Invariance == Spec => []IInv
  BY Initially, Inductive, PTL DEF Spec

-----------------------------------------------------------------------------
(* The variables of the chunker have their types, for documents of any      *)
(* length and pages of any blocks.                                          *)
THEOREM ChunkerTypeCorrect == Spec => []TypeOK
<1>1. IInv => TypeOK
  BY DEF IInv
<1>. QED  BY <1>1, Invariance, PTL

(* Whatever the document, and for every budget that the settings admit,     *)
(* chunking drops no text of an embedded page but that of a page without    *)
(* blocks and of MinChars or fewer characters and, below the overlap, that  *)
(* of blocks over the budget.                                               *)
THEOREM TextIsKept == Spec => []NothingIsDropped
<1>1. IInv => NothingIsDropped
  <2>1. \A p, b, k : FoundIn(chunks, p, b, k) => Found(p, b, k)
    BY DEF Found, FoundIn
  <2>. QED  BY <2>1 DEF IInv, Covered, NothingIsDropped
<1>. QED  BY <1>1, Invariance, PTL

(* No chunk exceeds its number of words, for every budget that the settings *)
(* admit.                                                                   *)
THEOREM ChunksFit == Spec => []ChunksFitTheBudget
<1>1. IInv => ChunksFitTheBudget
  BY DEF IInv, Fitting, ChunksFitTheBudget
<1>. QED  BY <1>1, Invariance, PTL

-----------------------------------------------------------------------------
(* Sections and their order.                                                *)

Opening(words) == words[1]
Closing(words) == words[Len(words)]

(* The words are of one section of the page, and of the blocks it names.    *)
Sectioned(p, named, words) ==
  LET blocks == BlocksOf(p)
      from == {words[i][1] : i \in DOMAIN words}
      cited == {named[i] : i \in DOMAIN named}
  IN  /\ \A b \in from : blocks[b].type = "heading" => b = words[1][1]
      /\ \A b \in from : blocks[b].type = "table" => from = {b}
      /\ p.blocks # <<>> => from = {b \in cited : blocks[b].words > 0}

Follows(one, two) ==
  IF one.page = two.page
  THEN /\ Before(one.words[1], two.words[1])
       /\ ~Before(two.words[Len(two.words)], one.words[Len(one.words)])
  ELSE one.page < two.page

Good(cs) ==
  /\ \A c \in DOMAIN cs :
       /\ cs[c].words # <<>>
       /\ Sectioned(document[cs[c].page], cs[c].blocks, cs[c].words)
  /\ \A c \in DOMAIN cs \ {1} : Follows(cs[c - 1], cs[c])

(* What words may come after those of cs.                                   *)
Leads(cs, words) ==
  cs # <<>> =>
    LET last == cs[Len(cs)] IN
    /\ last.page <= page
    /\ last.page = page =>
         /\ Before(Opening(last.words), Opening(words))
         /\ ~Before(Closing(words), Closing(last.words))

(* The last of the chunks ends before block b of the page.                  *)
UpTo(cs, b) ==
  cs # <<>> =>
    LET last == cs[Len(cs)] IN
    /\ last.page <= page
    /\ last.page = page =>
         Opening(last.words)[1] < b /\ Closing(last.words)[1] < b

(* What emit appends, in full.                                              *)
LEMMA Emits ==
  ASSUME NEW before \in Seq(Chunk), page \in Nat, NEW kind \in {"text", "table"},
         NEW named \in Seq(Nat), NEW words \in Seq(Word),
         NEW after, after = Emitted(before, kind, named, words)
  PROVE  /\ words = <<>> => after = before
         /\ words # <<>> =>
              /\ after \in Seq(Chunk) /\ after # <<>>
              /\ Len(after) = Len(before) + 1
              /\ DOMAIN after = 1 .. Len(before) + 1
              /\ DOMAIN before = 1 .. Len(before) /\ Len(before) \in Nat
              /\ \A c \in 1 .. Len(before) : after[c] = before[c]
              /\ after[Len(after)].page = page
              /\ after[Len(after)].blocks = named
              /\ after[Len(after)].words = words
<1>. SUFFICES ASSUME words # <<>>
              PROVE  /\ after \in Seq(Chunk) /\ after # <<>>
                     /\ Len(after) = Len(before) + 1
                     /\ DOMAIN after = 1 .. Len(before) + 1
                     /\ DOMAIN before = 1 .. Len(before) /\ Len(before) \in Nat
                     /\ \A c \in 1 .. Len(before) : after[c] = before[c]
                     /\ after[Len(after)].page = page
                     /\ after[Len(after)].blocks = named
                     /\ after[Len(after)].words = words
  BY DEF Emitted
<1>. DEFINE chunk == [page |-> page, kind |-> kind, blocks |-> named,
                      words |-> words]
<1>1. after = Append(before, chunk)
  BY DEF Emitted
<1>2. chunk \in Chunk
  BY DEF Chunk
<1>3. chunk.page = page /\ chunk.blocks = named /\ chunk.words = words
  OBVIOUS
<1>. HIDE DEF chunk
<1>4. /\ after \in Seq(Chunk) /\ Len(after) = Len(before) + 1
      /\ DOMAIN after = 1 .. Len(before) + 1
      /\ DOMAIN before = 1 .. Len(before) /\ Len(before) \in Nat
      /\ \A c \in 1 .. Len(before) : after[c] = before[c]
      /\ after[Len(before) + 1] = chunk
  BY <1>1, <1>2
<1>5. after # <<>>
  BY <1>4
<1>. QED  BY <1>3, <1>4, <1>5

LEMMA EmitsGood ==
  ASSUME NEW before \in Seq(Chunk), page \in Nat, NEW kind \in {"text", "table"},
         NEW named \in Seq(Nat), NEW words \in Seq(Word),
         NEW after, after = Emitted(before, kind, named, words),
         Good(before),
         words # <<>> => /\ Leads(before, words)
                         /\ Sectioned(document[page], named, words)
  PROVE  Good(after)
<1>. SUFFICES ASSUME words # <<>> PROVE Good(after)
  BY Emits
<1>. DEFINE n == Len(before)
<1>1. /\ DOMAIN after = 1 .. n + 1 /\ n \in Nat /\ DOMAIN before = 1 .. n
      /\ \A c \in 1 .. n : after[c] = before[c]
      /\ after[n + 1].page = page /\ after[n + 1].blocks = named
      /\ after[n + 1].words = words
  BY Emits
<1>. HIDE DEF n
<1>2. ASSUME NEW c \in DOMAIN after
      PROVE  /\ after[c].words # <<>>
             /\ Sectioned(document[after[c].page], after[c].blocks,
                          after[c].words)
  <2>1. CASE c = n + 1
    BY <1>1, <2>1
  <2>2. CASE c \in 1 .. n
    BY <1>1, <2>2 DEF Good
  <2>. QED  BY <1>1, <2>1, <2>2
<1>3. ASSUME NEW c \in DOMAIN after \ {1}
      PROVE  Follows(after[c - 1], after[c])
  <2>1. CASE c = n + 1
    <3>1. n \in 1 .. n /\ c - 1 = n
      BY <1>1, <2>1
    <3>2. after[c - 1] = before[n] /\ before # <<>>
      BY <1>1, <3>1
    <3>3. /\ before[n].page <= page
          /\ before[n].page = page =>
               /\ Before(Opening(before[n].words), Opening(words))
               /\ ~Before(Closing(words), Closing(before[n].words))
      BY <3>2 DEF Leads, n
    <3>4. before[n].page \in Nat
      <4>1. before[n] \in Chunk
        BY <1>1, <3>1
      <4>. QED  BY <4>1 DEF Chunk
    <3>. QED  BY <1>1, <2>1, <3>2, <3>3, <3>4 DEF Follows, Opening, Closing
  <2>2. CASE c \in 1 .. n
    <3>1. c \in DOMAIN before \ {1} /\ c - 1 \in 1 .. n
      BY <1>1, <2>2
    <3>. QED  BY <1>1, <2>2, <3>1 DEF Good
  <2>. QED  BY <1>1, <2>1, <2>2
<1>. QED  BY <1>2, <1>3 DEF Good

(* A chunk of the blocks from one up to another.                            *)
LEMMA EmitsUpTo ==
  ASSUME NEW before \in Seq(Chunk), page \in Nat, NEW kind \in {"text", "table"},
         NEW named \in Seq(Nat), NEW words \in Seq(Word),
         NEW after, after = Emitted(before, kind, named, words),
         Good(before), NEW b \in Nat, NEW e \in Nat, b <= e, UpTo(before, b),
         words # <<>> =>
           /\ Sectioned(document[page], named, words)
           /\ Opening(words)[1] \in b .. e - 1
           /\ Closing(words)[1] \in b .. e - 1
  PROVE  Good(after) /\ UpTo(after, e)
<1>. DEFINE last == before[Len(before)]
<1>1. before # <<>> => last \in Chunk /\ last.page \in Nat
  <2>. SUFFICES ASSUME before # <<>> PROVE last \in Chunk /\ last.page \in Nat
    OBVIOUS
  <2>1. last \in Chunk
    OBVIOUS
  <2>. QED  BY <2>1 DEF Chunk
<1>2. before # <<>> /\ last.page = page =>
        Opening(last.words)[1] \in Nat /\ Closing(last.words)[1] \in Nat
  <2>. SUFFICES ASSUME before # <<>>
                PROVE  Opening(last.words)[1] \in Nat /\ Closing(last.words)[1] \in Nat
    OBVIOUS
  <2>1. last.words \in Seq(Word) /\ last.words # <<>>
    <3>1. Len(before) \in DOMAIN before
      OBVIOUS
    <3>. QED  BY <1>1, <3>1 DEF Good, Chunk
  <2>2. last.words[1] \in Word /\ last.words[Len(last.words)] \in Word
    <3>. HIDE DEF last
    <3>. QED  BY <2>1
  <2>. QED  BY <2>2 DEF Opening, Closing, Word
<1>3. words # <<>> => Leads(before, words)
  <2>. SUFFICES ASSUME words # <<>>, before # <<>>
                PROVE  /\ last.page <= page
                       /\ last.page = page =>
                            /\ Before(Opening(last.words), Opening(words))
                            /\ ~Before(Closing(words), Closing(last.words))
    BY DEF Leads
  <2>1. /\ last.page <= page
        /\ last.page = page =>
             Opening(last.words)[1] < b /\ Closing(last.words)[1] < b
    BY DEF UpTo
  <2>. HIDE DEF last
  <2>. QED  BY <1>2, <2>1 DEF Before
<1>4. Good(after)
  BY <1>3, EmitsGood
<1>5. CASE words = <<>>
  <2>1. after = before
    BY <1>5 DEF Emitted
  <2>2. before # <<>> =>
          /\ last.page <= page
          /\ last.page = page =>
               Opening(last.words)[1] < e /\ Closing(last.words)[1] < e
    <3>1. before # <<>> =>
            /\ last.page <= page
            /\ last.page = page =>
                 Opening(last.words)[1] < b /\ Closing(last.words)[1] < b
      BY DEF UpTo
    <3>. HIDE DEF last
    <3>. QED  BY <1>2, <3>1
  <2>. QED  BY <1>4, <2>1, <2>2 DEF UpTo
<1>6. CASE words # <<>>
  <2>1. after[Len(after)].page = page /\ after[Len(after)].words = words
    BY <1>6, Emits
  <2>. QED  BY <1>4, <1>6, <2>1 DEF UpTo
<1>. QED  BY <1>5, <1>6

(* A group is of blocks that read on from its first, which alone may be a   *)
(* heading, and holds all their words.                                      *)
GroupInv ==
  LET blocks == BlocksOf(Here) IN
  /\ cut # Nil => ids = <<>>
  /\ ids # <<>> => page \in DOMAIN document /\ Here.blocks # <<>>
  /\ \A i \in DOMAIN ids :
       /\ ids[i] \in DOMAIN blocks /\ ids[1] <= ids[i] /\ ids[i] < next
       /\ blocks[ids[i]].type \in {"heading", "other"}
       /\ blocks[ids[i]].type = "heading" => i = 1
  /\ \A i \in DOMAIN group : group[1][1] <= group[i][1]
  /\ {group[i][1] : i \in DOMAIN group}
       = {b \in {ids[i] : i \in DOMAIN ids} : blocks[b].words > 0}

(* The last chunk is of what precedes the group, the cut or the next block; *)
(* it may reach into the next piece by the overlap.                         *)
OrderInv ==
  /\ cut = Nil => UpTo(chunks, IF group = <<>> THEN next ELSE group[1][1])
  /\ cut # Nil /\ chunks # <<>> =>
       LET last == chunks[Len(chunks)]
           words == BlocksOf(Here)[cut.block].words
       IN  /\ last.page <= page
           /\ last.page = page =>
                /\ Before(Opening(last.words), <<cut.block, cut.from + 1>>)
                /\ Closing(last.words)[1] <= cut.block
                /\ Closing(last.words)[1] = cut.block =>
                     /\ Closing(last.words)[2] <= cut.from + Overlap
                     /\ Closing(last.words)[2] <= words

RInv == IInv /\ Good(chunks) /\ GroupInv /\ OrderInv

LEMMA RInitially == Init => RInv
<1>. SUFFICES ASSUME Init PROVE RInv
  OBVIOUS
<1>1. /\ chunks = <<>> /\ group = <<>> /\ ids = <<>> /\ cut = Nil
      /\ DOMAIN chunks = {} /\ DOMAIN group = {} /\ DOMAIN ids = {}
  BY DEF Init
<1>2. Good(chunks)
  BY <1>1 DEF Good
<1>3. GroupInv
  BY <1>1 DEF GroupInv
<1>4. OrderInv
  BY <1>1 DEF OrderInv, UpTo
<1>. QED  BY <1>2, <1>3, <1>4, Initially DEF RInv

(* What the group is of.                                                    *)
LEMMA GroupIs ==
  ASSUME RInv, group # <<>>
  PROVE  /\ page \in DOMAIN document /\ next \in Nat /\ page \in Nat
         /\ group[1][1] \in Nat /\ group[1][1] < next
         /\ Opening(group)[1] = group[1][1]
         /\ Closing(group)[1] \in group[1][1] .. next - 1
         /\ Sectioned(document[page], ids, group)
<1>. DEFINE blocks == BlocksOf(Here)
            from == {group[i][1] : i \in DOMAIN group}
            cited == {ids[i] : i \in DOMAIN ids}
<1>1. /\ group \in Seq(Word) /\ ids \in Seq(Nat) /\ next \in Nat /\ page \in Nat
      /\ document \in Seq(Page) /\ page \in DOMAIN document
      /\ Here.blocks # <<>>
  BY DEF RInv, IInv, TypeOK, Grouping
<1>2. /\ \A i \in DOMAIN group : group[i][1] \in Nat
      /\ 1 \in DOMAIN group /\ Len(group) \in DOMAIN group
  BY <1>1 DEF Word
<1>3. /\ \A i \in DOMAIN ids :
           /\ ids[i] \in DOMAIN blocks /\ ids[1] <= ids[i] /\ ids[i] < next
           /\ blocks[ids[i]].type \in {"heading", "other"}
           /\ blocks[ids[i]].type = "heading" => i = 1
           /\ ids[i] \in Nat
      /\ \A i \in DOMAIN group : group[1][1] <= group[i][1]
      /\ from = {b \in cited : blocks[b].words > 0}
  <2>1. \A i \in DOMAIN ids : ids[i] \in Nat
    BY <1>1
  <2>. QED  BY <2>1 DEF RInv, GroupInv
<1>4. \A b \in from : \E i \in DOMAIN ids : b = ids[i]
  BY <1>3
<1>5. \A i \in DOMAIN group : group[i][1] \in from
  OBVIOUS
<1>. HIDE DEF from, blocks
<1>6. \A i \in DOMAIN group : group[i][1] \in group[1][1] .. next - 1
  <2>. SUFFICES ASSUME NEW i \in DOMAIN group
                PROVE  group[i][1] \in group[1][1] .. next - 1
    OBVIOUS
  <2>1. group[i][1] < next
    BY <1>3, <1>4, <1>5
  <2>. QED  BY <1>1, <1>2, <1>3, <2>1
<1>7. \A b \in from : blocks[b].type = "heading" => b = group[1][1]
  <2>. SUFFICES ASSUME NEW b \in from, blocks[b].type = "heading"
                PROVE  b = group[1][1]
    OBVIOUS
  <2>1. PICK i \in DOMAIN ids : b = ids[i]
    BY <1>4
  <2>2. b = ids[1]
    BY <1>3, <2>1
  <2>3. PICK j \in DOMAIN group : b = group[j][1]
    BY DEF from
  <2>4. PICK k \in DOMAIN ids : group[1][1] = ids[k]
    BY <1>2, <1>4, <1>5
  <2>5. group[1][1] <= b /\ b <= group[1][1]
    BY <1>3, <2>2, <2>3, <2>4
  <2>6. b \in Nat /\ group[1][1] \in Nat
    BY <1>2, <2>3
  <2>. QED  BY <2>5, <2>6
<1>8. \A b \in from : blocks[b].type # "table"
  BY <1>3, <1>4
<1>9. Sectioned(document[page], ids, group)
  BY <1>3, <1>7, <1>8 DEF Sectioned, Here, blocks, from
<1>. QED  BY <1>1, <1>2, <1>6, <1>9 DEF Opening, Closing

(* What flush_group leaves, between two blocks.                             *)
LEMMA FlushGood ==
  ASSUME RInv, cut = Nil
  PROVE  /\ Flushed \in Seq(Chunk) /\ Good(Flushed) /\ UpTo(Flushed, next)
<1>1. /\ chunks \in Seq(Chunk) /\ page \in Nat /\ group \in Seq(Word)
      /\ ids \in Seq(Nat) /\ next \in Nat /\ Good(chunks)
  BY DEF RInv, IInv, TypeOK
<1>2. Flushed \in Seq(Chunk)
  BY Flush DEF RInv
<1>3. CASE group = <<>>
  <2>1. Flushed = chunks
    BY <1>3 DEF Flushed, Emitted
  <2>2. UpTo(chunks, next)
    BY <1>3 DEF RInv, OrderInv
  <2>. QED  BY <1>1, <1>2, <2>1, <2>2
<1>4. CASE group # <<>>
  <2>. DEFINE b == group[1][1]
  <2>1. UpTo(chunks, b)
    BY <1>4 DEF RInv, OrderInv
  <2>2. /\ b \in Nat /\ b <= next
        /\ Sectioned(document[page], ids, group)
        /\ Opening(group)[1] \in b .. next - 1
        /\ Closing(group)[1] \in b .. next - 1
    BY <1>4, GroupIs
  <2>3. Flushed = Emitted(chunks, "text", ids, group)
    BY DEF Flushed
  <2>. HIDE DEF b
  <2>4. "text" \in {"text", "table"}
    OBVIOUS
  <2>. QED  BY <1>1, <1>2, <2>1, <2>2, <2>3, <2>4, EmitsUpTo
<1>. QED  BY <1>3, <1>4

(* The last chunk has words, of places in blocks.                           *)
LEMMA LastChunk ==
  ASSUME NEW cs \in Seq(Chunk), Good(cs), cs # <<>>
  PROVE  LET last == cs[Len(cs)] IN
         /\ last.page \in Nat
         /\ Opening(last.words)[1] \in Nat /\ Opening(last.words)[2] \in Nat
         /\ Closing(last.words)[1] \in Nat /\ Closing(last.words)[2] \in Nat
<1>. DEFINE last == cs[Len(cs)]
<1>1. last \in Chunk /\ Len(cs) \in DOMAIN cs
  OBVIOUS
<1>2. last.words # <<>>
  BY <1>1 DEF Good
<1>. HIDE DEF last
<1>3. last.words \in Seq(Word) /\ last.page \in Nat
  BY <1>1 DEF Chunk
<1>4. last.words[1] \in Word /\ last.words[Len(last.words)] \in Word
  BY <1>2, <1>3
<1>5. \A w \in Word : w[1] \in Nat /\ w[2] \in Nat
  BY DEF Word
<1>. QED  BY <1>3, <1>4, <1>5 DEF Opening, Closing, last

LEMMA UpToMore ==
  ASSUME NEW cs \in Seq(Chunk), Good(cs), NEW b \in Nat, NEW e \in Nat, b <= e,
         UpTo(cs, b)
  PROVE  UpTo(cs, e)
<1>. SUFFICES ASSUME cs # <<>> PROVE UpTo(cs, e)
  BY DEF UpTo
<1>. DEFINE last == cs[Len(cs)]
<1>1. /\ last.page \in Nat
      /\ Opening(last.words)[1] \in Nat /\ Closing(last.words)[1] \in Nat
  BY LastChunk
<1>2. /\ last.page <= page
      /\ last.page = page =>
           Opening(last.words)[1] < b /\ Closing(last.words)[1] < b
  BY DEF UpTo
<1>3. /\ last.page <= page
      /\ last.page = page =>
           Opening(last.words)[1] < e /\ Closing(last.words)[1] < e
  <2>. HIDE DEF last
  <2>. QED  BY <1>1, <1>2
<1>. QED  BY <1>3 DEF UpTo

(* Words of one block are of one section.                                   *)
LEMMA OneBlock ==
  ASSUME NEW p, NEW b, NEW words, NEW named,
         1 \in DOMAIN words, \A i \in DOMAIN words : words[i][1] = b,
         p.blocks # <<>> => named = <<b>> /\ BlocksOf(p)[b].words > 0
  PROVE  Sectioned(p, named, words)
<1>. DEFINE from == {words[i][1] : i \in DOMAIN words}
            cited == {named[i] : i \in DOMAIN named}
<1>1. from = {b}
  OBVIOUS
<1>2. ASSUME p.blocks # <<>> PROVE cited = {b} /\ BlocksOf(p)[b].words > 0
  <2>1. named = <<b>>
    BY <1>2
  <2>2. DOMAIN <<b>> = {1} /\ <<b>>[1] = b
    OBVIOUS
  <2>. QED  BY <1>2, <2>1, <2>2
<1>. HIDE DEF from, cited
<1>3. p.blocks # <<>> => from = {a \in cited : BlocksOf(p)[a].words > 0}
  BY <1>1, <1>2
<1>4. \A a \in from : BlocksOf(p)[a].type = "heading" => a = words[1][1]
  BY <1>1
<1>5. \A a \in from : BlocksOf(p)[a].type = "table" => from = {a}
  BY <1>1
<1>. QED  BY <1>3, <1>4, <1>5 DEF Sectioned, from, cited

(* Between two blocks with nothing grouped.                                 *)
LEMMA NothingGrouped ==
  ASSUME group' = <<>>, ids' = <<>>
  PROVE  GroupInv'
<1>1. DOMAIN <<>> = {}
  OBVIOUS
<1>2. DOMAIN group' = {} /\ DOMAIN ids' = {} /\ ids' = <<>>
  BY <1>1
<1>. QED  BY <1>2 DEF GroupInv

(* The chunks that precede a block precede its first piece.                 *)
LEMMA CutFollows ==
  ASSUME chunks' \in Seq(Chunk), Good(chunks'), UpTo(chunks', next),
         next \in Nat, page' = page, document' = document,
         cut' # Nil, cut'.block = next, cut'.from = 0
  PROVE  OrderInv'
<1>. SUFFICES ASSUME chunks' # <<>>
              PROVE  LET last == chunks'[Len(chunks')]
                         words == BlocksOf(Here)[next].words
                     IN  /\ last.page <= page
                         /\ last.page = page =>
                              /\ Before(Opening(last.words), <<next, 0 + 1>>)
                              /\ Closing(last.words)[1] <= next
                              /\ Closing(last.words)[1] = next =>
                                   /\ Closing(last.words)[2] <= 0 + Overlap
                                   /\ Closing(last.words)[2] <= words
  BY DEF OrderInv, Here
<1>. DEFINE last == chunks'[Len(chunks')]
<1>1. /\ last.page \in Nat
      /\ Opening(last.words)[1] \in Nat /\ Closing(last.words)[1] \in Nat
  BY LastChunk
<1>2. /\ last.page <= page
      /\ last.page = page =>
           Opening(last.words)[1] < next /\ Closing(last.words)[1] < next
  BY DEF UpTo
<1>. HIDE DEF last
<1>3. last.page = page => Before(Opening(last.words), <<next, 0 + 1>>)
  BY <1>2 DEF Before
<1>4. last.page = page =>
        Closing(last.words)[1] <= next /\ Closing(last.words)[1] # next
  BY <1>1, <1>2
<1>. QED  BY <1>2, <1>3, <1>4 DEF last

LEMMA PageStartsGood == RInv /\ TakePage => RInv'
<1>. SUFFICES ASSUME RInv, TakePage PROVE RInv'
  OBVIOUS
<1>1. /\ IInv /\ ReadBlock /\ Current.type = "page"
      /\ StartSplit(next, "text", FixedSize)
      /\ group' = group /\ ids' = ids /\ chunks' = chunks
  BY DEF TakePage, RInv
<1>2. IInv'
  BY <1>1, TakePageStep
<1>3. /\ Here.blocks = <<>> /\ group = <<>> /\ cut = Nil
      /\ document' = document /\ page' = page /\ next \in Nat
  BY <1>1, CurrentBlock DEF Here, IInv, Grouping
<1>4. ids = <<>>
  BY <1>3 DEF RInv, GroupInv
<1>5. GroupInv'
  BY <1>1, <1>3, <1>4, NothingGrouped
<1>6. chunks \in Seq(Chunk) /\ Good(chunks) /\ UpTo(chunks, next)
  BY <1>1, <1>3 DEF RInv, OrderInv, IInv, TypeOK
<1>7. Good(chunks)'
  BY <1>1, <1>3, <1>6 DEF Good
<1>8. cut' # Nil /\ cut'.block = next /\ cut'.from = 0
  <2>1. cut' = [block |-> next, kind |-> "text", size |-> FixedSize, from |-> 0]
    BY <1>1 DEF StartSplit
  <2>2. cut' \in Cut
    BY <1>1, <1>3, <2>1, Budgeted DEF Cut, IInv
  <2>. QED  BY <2>1, <2>2, NilAssumption
<1>9. OrderInv'
  BY <1>1, <1>3, <1>6, <1>8, CutFollows
<1>. QED  BY <1>2, <1>5, <1>7, <1>9 DEF RInv

LEMMA OversizedGood == RInv /\ TakeOversized => RInv'
<1>. SUFFICES ASSUME RInv, TakeOversized PROVE RInv'
  OBVIOUS
<1>. DEFINE kind == IF Current.type = "table" THEN "table" ELSE "text"
<1>1. /\ IInv /\ ReadBlock /\ chunks' = Flushed
      /\ StartSplit(next, kind, max_words)
      /\ group' = <<>> /\ ids' = <<>>
  BY DEF TakeOversized, NoGroup, RInv
<1>2. IInv'
  BY <1>1, TakeOversizedStep
<1>3. cut = Nil /\ document' = document /\ page' = page /\ next \in Nat
  BY <1>1, CurrentBlock
<1>4. GroupInv'
  BY <1>1, NothingGrouped
<1>5. Flushed \in Seq(Chunk) /\ Good(Flushed) /\ UpTo(Flushed, next)
  BY <1>3, FlushGood
<1>6. chunks' \in Seq(Chunk) /\ Good(chunks') /\ UpTo(chunks', next)
  <2>. DEFINE after == Flushed
  <2>1. chunks' = after
    BY <1>1
  <2>2. after \in Seq(Chunk) /\ Good(after) /\ UpTo(after, next)
    BY <1>5
  <2>. HIDE DEF after
  <2>. QED  BY <2>1, <2>2
<1>7. Good(chunks)'
  BY <1>3, <1>6 DEF Good
<1>8. cut' # Nil /\ cut'.block = next /\ cut'.from = 0
  <2>1. cut' = [block |-> next, kind |-> kind, size |-> max_words, from |-> 0]
    BY <1>1 DEF StartSplit
  <2>2. cut' \in Cut
    BY <1>1, <1>3, <2>1, Budgeted DEF Cut, IInv
  <2>. QED  BY <2>1, <2>2, NilAssumption
<1>9. OrderInv'
  BY <1>3, <1>6, <1>8, CutFollows
<1>. QED  BY <1>2, <1>4, <1>7, <1>9 DEF RInv

LEMMA TableGood == RInv /\ TakeTable => RInv'
<1>. SUFFICES ASSUME RInv, TakeTable PROVE RInv'
  OBVIOUS
<1>. DEFINE text == WordsOf(next, 0, Current.words)
<1>1. /\ IInv /\ ReadBlock /\ Current.type = "table"
      /\ chunks' = Emitted(Flushed, "table", <<next>>, text)
      /\ group' = <<>> /\ ids' = <<>> /\ cut' = cut
  BY DEF TakeTable, NoGroup, RInv
<1>2. IInv'
  BY <1>1, TakeTableStep
<1>3. /\ text \in Seq(Word) /\ Len(text) = Current.words
      /\ \A k \in 1 .. Current.words : text[k] = <<next, k>>
      /\ DOMAIN text = 1 .. Current.words /\ Current.words \in Nat
      /\ next \in Nat \ {0} /\ cut = Nil /\ next' = next + 1 /\ page \in Nat
      /\ document' = document /\ page' = page
  BY <1>1, CurrentBlock, LenProperties DEF IInv, TypeOK
<1>. HIDE DEF text
<1>4. GroupInv'
  BY <1>1, NothingGrouped
<1>5. Flushed \in Seq(Chunk) /\ Good(Flushed) /\ UpTo(Flushed, next)
  BY <1>3, FlushGood
<1>6. text # <<>> =>
        /\ Sectioned(document[page], <<next>>, text)
        /\ Opening(text)[1] \in next .. (next + 1) - 1
        /\ Closing(text)[1] \in next .. (next + 1) - 1
  <2>. SUFFICES ASSUME text # <<>>
                PROVE  /\ Sectioned(document[page], <<next>>, text)
                       /\ Opening(text)[1] \in next .. (next + 1) - 1
                       /\ Closing(text)[1] \in next .. (next + 1) - 1
    OBVIOUS
  <2>1. Current.words > 0
    BY <1>3
  <2>2. 1 \in DOMAIN text /\ Len(text) \in DOMAIN text
    BY <1>3, <2>1
  <2>3. \A i \in DOMAIN text : text[i][1] = next
    BY <1>3
  <2>4. BlocksOf(document[page])[next].words > 0
    BY <2>1 DEF Current
  <2>5. Sectioned(document[page], <<next>>, text)
    BY <2>2, <2>3, <2>4, OneBlock
  <2>. QED  BY <1>3, <2>2, <2>3, <2>5 DEF Opening, Closing
<1>7. Good(chunks') /\ UpTo(chunks', next + 1)
  <2>. DEFINE named == <<next>>
            e == next + 1
            after == Emitted(Flushed, "table", named, text)
  <2>1. /\ named \in Seq(Nat) /\ e \in Nat /\ next <= e
        /\ "table" \in {"text", "table"} /\ next \in Nat
    BY <1>3
  <2>2. text # <<>> =>
          /\ Sectioned(document[page], named, text)
          /\ Opening(text)[1] \in next .. e - 1
          /\ Closing(text)[1] \in next .. e - 1
    BY <1>6
  <2>3. chunks' = after
    BY <1>1
  <2>4. after = Emitted(Flushed, "table", named, text)
    OBVIOUS
  <2>. HIDE DEF named, e, after
  <2>5. Good(after) /\ UpTo(after, e)
    BY <1>3, <1>5, <2>1, <2>2, <2>4, EmitsUpTo
  <2>. QED  BY <2>3, <2>5 DEF e
<1>8. Good(chunks)'
  BY <1>3, <1>7 DEF Good
<1>9. OrderInv'
  BY <1>1, <1>3, <1>7 DEF OrderInv, UpTo
<1>. QED  BY <1>2, <1>4, <1>8, <1>9 DEF RInv

(* A text that joins the group, or starts the next.                         *)
LEMMA TextGood == RInv /\ TakeText => RInv'
<1>. SUFFICES ASSUME RInv, TakeText PROVE RInv'
  OBVIOUS
<1>. DEFINE text == WordsOf(next, 0, Current.words)
            blocks == BlocksOf(Here)
<1>1. /\ IInv /\ ReadBlock /\ Current.type \in {"heading", "other"}
      /\ cut' = cut
      /\ \/ chunks' = Flushed /\ group' = text /\ ids' = <<next>>
         \/ /\ Current.type = "heading" => ids = <<>>
            /\ group' = group \o text /\ ids' = Append(ids, next)
            /\ chunks' = chunks
  BY DEF TakeText, OpensSection, RInv
<1>2. IInv'
  BY <1>1, TakeTextStep
<1>3. /\ text \in Seq(Word) /\ Len(text) = Current.words
      /\ \A k \in 1 .. Current.words : text[k] = <<next, k>>
      /\ DOMAIN text = 1 .. Current.words /\ Current.words \in Nat
      /\ next \in Nat \ {0} /\ cut = Nil /\ next' = next + 1 /\ page \in Nat
      /\ document' = document /\ page' = page
      /\ page \in DOMAIN document /\ Here.blocks # <<>>
      /\ next \in DOMAIN blocks /\ Here' = Here
      /\ blocks[next] = Current
  BY <1>1, CurrentBlock, LenProperties DEF IInv, TypeOK, Here, Current
<1>4. /\ group \in Seq(Word) /\ ids \in Seq(Nat) /\ chunks \in Seq(Chunk)
      /\ Good(chunks)
  BY DEF RInv, IInv, TypeOK
<1>5. blocks' = blocks
  BY <1>3
<1>. HIDE DEF text, blocks
<1>6. /\ \A i \in DOMAIN text : text[i][1] = next
      /\ text # <<>> => Current.words > 0
      /\ Current.words > 0 => text # <<>> /\ 1 \in DOMAIN text
  BY <1>3
<1>7. CASE chunks' = Flushed /\ group' = text /\ ids' = <<next>>
  <2>1. Flushed \in Seq(Chunk) /\ Good(Flushed) /\ UpTo(Flushed, next)
    BY <1>3, FlushGood
  <2>2. UpTo(Flushed, next + 1)
    <3>. DEFINE e == next + 1
    <3>1. e \in Nat /\ next \in Nat /\ next <= e
      BY <1>3
    <3>. HIDE DEF e
    <3>2. UpTo(Flushed, e)
      BY <2>1, <3>1, UpToMore
    <3>. QED  BY <3>2 DEF e
  <2>3. Good(chunks') /\ UpTo(chunks', next) /\ UpTo(chunks', next + 1)
    <3>. DEFINE after == Flushed
    <3>1. chunks' = after
      BY <1>7
    <3>2. Good(after) /\ UpTo(after, next) /\ UpTo(after, next + 1)
      BY <2>1, <2>2
    <3>. HIDE DEF after
    <3>. QED  BY <3>1, <3>2
  <2>4. Good(chunks)'
    BY <1>3, <2>3 DEF Good
  <2>5. OrderInv'
    <3>1. group' # <<>> => group'[1][1] = next
      BY <1>6, <1>7
    <3>. QED  BY <1>1, <1>3, <2>3, <3>1 DEF OrderInv, UpTo
  <2>6. DOMAIN ids' = {1} /\ ids'[1] = next /\ ids' # <<>>
    BY <1>7
  <2>7. {text[i][1] : i \in DOMAIN text}
          = {b \in {next} : blocks[b].words > 0}
    BY <1>3, <1>6
  <2>8. /\ {group'[i][1] : i \in DOMAIN group'}
             = {b \in {ids'[i] : i \in DOMAIN ids'} : blocks[b].words > 0}
        /\ \A i \in DOMAIN group' : group'[1][1] <= group'[i][1]
    <3>1. {ids'[i] : i \in DOMAIN ids'} = {next}
      BY <2>6
    <3>2. \A i \in DOMAIN group' : 1 \in DOMAIN group'
      BY <1>3, <1>7
    <3>3. \A i \in DOMAIN group' : group'[1][1] = next /\ group'[i][1] = next
      BY <1>6, <1>7, <3>2
    <3>. QED  BY <1>3, <1>7, <2>7, <3>1, <3>3
  <2>9. \A i \in DOMAIN ids' :
          /\ ids'[i] \in DOMAIN blocks /\ ids'[1] <= ids'[i] /\ ids'[i] < next'
          /\ blocks[ids'[i]].type \in {"heading", "other"}
          /\ blocks[ids'[i]].type = "heading" => i = 1
    BY <1>1, <1>3, <2>6
  <2>10. GroupInv'
    BY <1>1, <1>3, <1>5, <2>8, <2>9 DEF GroupInv, blocks
  <2>. QED  BY <1>2, <2>4, <2>5, <2>10 DEF RInv
<1>8. CASE /\ Current.type = "heading" => ids = <<>>
           /\ group' = group \o text /\ ids' = Append(ids, next)
           /\ chunks' = chunks
  <2>. DEFINE n == Len(ids)
              m == Len(group)
              from == {group[i][1] : i \in DOMAIN group}
              cited == {ids[i] : i \in DOMAIN ids}
  <2>1. /\ \A i \in DOMAIN ids :
             /\ ids[i] \in DOMAIN blocks /\ ids[1] <= ids[i] /\ ids[i] < next
             /\ blocks[ids[i]].type \in {"heading", "other"}
             /\ blocks[ids[i]].type = "heading" => i = 1
        /\ \A i \in DOMAIN group : group[1][1] <= group[i][1]
        /\ from = {b \in cited : blocks[b].words > 0}
        /\ UpTo(chunks, IF group = <<>> THEN next ELSE group[1][1])
    BY <1>3 DEF RInv, GroupInv, OrderInv, blocks
  <2>2. /\ DOMAIN ids' = 1 .. n + 1 /\ DOMAIN ids = 1 .. n /\ n \in Nat
        /\ \A i \in 1 .. n : ids'[i] = ids[i]
        /\ ids'[n + 1] = next /\ ids' # <<>>
        /\ ids = <<>> <=> n = 0
    <3>1. next \in Nat /\ ids \in Seq(Nat) /\ ids' = Append(ids, next)
      BY <1>3, <1>4, <1>8
    <3>2. n \in Nat /\ DOMAIN ids = 1 .. n /\ (ids = <<>> <=> n = 0)
      BY <3>1, LenProperties
    <3>3. /\ ids' \in Seq(Nat) /\ Len(ids') = n + 1 /\ ids'[n + 1] = next
          /\ \A i \in 1 .. n : ids'[i] = ids[i]
      BY <3>1, AppendProperties
    <3>4. DOMAIN ids' = 1 .. n + 1
      BY <3>3, LenProperties
    <3>5. ids' # <<>>
      <4>1. n + 1 \in DOMAIN ids'
        BY <3>2, <3>4
      <4>. QED  BY <4>1
    <3>. QED  BY <3>2, <3>3, <3>4, <3>5
  <2>3. /\ DOMAIN group = 1 .. m /\ m \in Nat
        /\ DOMAIN group' = 1 .. m + Current.words
        /\ \A i \in 1 .. m : group'[i] = group[i]
        /\ \A i \in 1 .. Current.words : group'[m + i] = text[i]
        /\ group = <<>> <=> m = 0
    <3>1. /\ Len(group \o text) = m + Len(text)
          /\ \A i \in 1 .. m + Len(text) :
               (group \o text)[i] = IF i <= m THEN group[i] ELSE text[i - m]
          /\ group \o text \in Seq(Word)
      BY <1>3, <1>4, ConcatProperties
    <3>2. DOMAIN group = 1 .. m /\ m \in Nat /\ (group = <<>> <=> m = 0)
      BY <1>4, LenProperties
    <3>3. DOMAIN group' = 1 .. m + Current.words
      BY <1>3, <1>8, <3>1, LenProperties
    <3>. HIDE DEF m
    <3>4. \A i \in 1 .. m : group'[i] = group[i]
      BY <1>3, <1>8, <3>1, <3>2
    <3>5. ASSUME NEW i \in 1 .. Current.words
          PROVE  group'[m + i] = text[i]
      <4>1. m + i \in 1 .. m + Len(text) /\ ~(m + i <= m) /\ (m + i) - m = i
        BY <1>3, <3>2
      <4>. QED  BY <1>8, <3>1, <4>1
    <3>. QED  BY <3>2, <3>3, <3>4, <3>5
  <2>4. \A i \in 1 .. n : ids[i] \in Nat
    BY <1>4, <2>2
  <2>5. \A i \in 1 .. m : group[i][1] \in Nat
    BY <1>4, <2>3 DEF Word
  <2>. HIDE DEF n, m
  <2>6. ASSUME NEW i \in DOMAIN ids'
        PROVE  /\ ids'[i] \in DOMAIN blocks /\ ids'[1] <= ids'[i]
               /\ ids'[i] < next'
               /\ blocks[ids'[i]].type \in {"heading", "other"}
               /\ blocks[ids'[i]].type = "heading" => i = 1
    <3>1. CASE i \in 1 .. n
      <4>1. 1 \in 1 .. n /\ ids'[1] = ids[1] /\ ids'[i] = ids[i]
        BY <2>2, <3>1
      <4>2. ids[i] < next + 1
        BY <1>3, <2>1, <2>2, <2>4, <3>1
      <4>. QED  BY <1>3, <2>1, <2>2, <3>1, <4>1, <4>2
    <3>2. CASE i = n + 1
      <4>1. ids'[1] <= next
        <5>1. CASE n = 0
          BY <1>3, <2>2, <5>1
        <5>2. CASE n # 0
          <6>1. 1 \in 1 .. n
            BY <2>2, <5>2
          <6>. QED  BY <1>3, <2>1, <2>2, <2>4, <6>1
        <5>. QED  BY <5>1, <5>2
      <4>2. Current.type = "heading" => i = 1
        BY <1>8, <2>2, <3>2
      <4>. QED  BY <1>1, <1>3, <2>2, <3>2, <4>1, <4>2
    <3>. QED  BY <2>2, <3>1, <3>2
  <2>7. \A i \in DOMAIN group' :
          \/ i \in 1 .. m /\ group'[i] = group[i]
          \/ i \notin 1 .. m /\ group'[i][1] = next /\ Current.words > 0
    <3>. SUFFICES ASSUME NEW i \in DOMAIN group', i \notin 1 .. m
                  PROVE  group'[i][1] = next /\ Current.words > 0
      BY <2>3
    <3>1. PICK j \in 1 .. Current.words : i = m + j
      <4>1. i - m \in 1 .. Current.words /\ i = m + (i - m)
        BY <1>3, <2>3
      <4>. QED  BY <4>1
    <3>. QED  BY <1>3, <2>3, <3>1
  <2>8. group # <<>> => group[1][1] \in Nat /\ group[1][1] < next
    BY GroupIs
  <2>9. ASSUME group' # <<>>
        PROVE  group'[1][1] = IF group = <<>> THEN next ELSE group[1][1]
    <3>1. 1 \in DOMAIN group'
      <4>1. group' \in Seq(Word)
        BY <1>2 DEF IInv, TypeOK
      <4>. QED  BY <2>9, <4>1
    <3>. QED  BY <2>3, <2>7, <3>1
  <2>10. ASSUME NEW i \in DOMAIN group'
         PROVE  group'[1][1] <= group'[i][1]
    <3>1. group' # <<>>
      OBVIOUS
    <3>2. CASE i \in 1 .. m
      <4>1. group # <<>> /\ group'[i] = group[i]
        BY <2>3, <3>2
      <4>. QED  BY <2>1, <2>3, <2>9, <3>1, <3>2, <4>1
    <3>3. CASE i \notin 1 .. m
      <4>1. group'[i][1] = next
        BY <2>7, <3>3
      <4>. QED  BY <1>3, <2>8, <2>9, <3>1, <4>1
    <3>. QED  BY <3>2, <3>3
  <2>11. {group'[i][1] : i \in DOMAIN group'}
           = {b \in {ids'[i] : i \in DOMAIN ids'} : blocks[b].words > 0}
    <3>. DEFINE From == {group'[i][1] : i \in DOMAIN group'}
                Cited == {ids'[i] : i \in DOMAIN ids'}
    <3>1. Cited = cited \cup {next}
      BY <2>2
    <3>2. ASSUME NEW b \in From PROVE b \in Cited /\ blocks[b].words > 0
      <4>1. PICK i \in DOMAIN group' : b = group'[i][1]
        OBVIOUS
      <4>2. CASE i \in 1 .. m /\ group'[i] = group[i]
        <5>1. b \in from
          BY <2>3, <4>1, <4>2
        <5>. HIDE DEF from, cited, From, Cited
        <5>. QED  BY <2>1, <3>1, <5>1
      <4>3. CASE group'[i][1] = next /\ Current.words > 0
        <5>. HIDE DEF From, Cited, cited
        <5>. QED  BY <1>3, <3>1, <4>1, <4>3
      <4>. QED  BY <2>7, <4>2, <4>3
    <3>3. ASSUME NEW b \in Cited, blocks[b].words > 0 PROVE b \in From
      <4>1. CASE b \in cited
        <5>1. b \in from
          <6>. HIDE DEF from, cited
          <6>. QED  BY <2>1, <3>3, <4>1
        <5>2. PICK i \in DOMAIN group : b = group[i][1]
          BY <5>1
        <5>3. i \in DOMAIN group' /\ group'[i] = group[i]
          BY <1>3, <2>3
        <5>. QED  BY <5>2, <5>3
      <4>2. CASE b = next
        <5>1. Current.words > 0
          BY <1>3, <3>3, <4>2
        <5>2. m + 1 \in DOMAIN group' /\ group'[m + 1] = text[1]
          BY <1>3, <2>3, <5>1
        <5>3. text[1][1] = next
          BY <1>6, <5>1
        <5>. QED  BY <4>2, <5>2, <5>3
      <4>. HIDE DEF From, Cited, cited
      <4>. QED  BY <3>1, <3>3, <4>1, <4>2
    <3>. HIDE DEF From, Cited
    <3>4. From = {b \in Cited : blocks[b].words > 0}
      BY <3>2, <3>3
    <3>. QED  BY <3>4 DEF From, Cited
  <2>12. GroupInv'
    BY <1>1, <1>3, <1>5, <2>2, <2>6, <2>10, <2>11 DEF GroupInv, blocks
  <2>13. OrderInv'
    <3>1. CASE group' = <<>>
      <4>. DEFINE e == next + 1
      <4>1. group = <<>>
        <5>1. DOMAIN group' = {}
          BY <3>1
        <5>2. ~(1 \in 1 .. m + Current.words)
          BY <2>3, <5>1
        <5>3. m = 0
          BY <1>3, <2>3, <5>2
        <5>. QED  BY <2>3, <5>3
      <4>2. UpTo(chunks, next) /\ next \in Nat /\ e \in Nat /\ next <= e
        BY <1>3, <2>1, <4>1
      <4>. HIDE DEF e
      <4>3. UpTo(chunks, e)
        BY <1>4, <4>2, UpToMore
      <4>. QED  BY <1>1, <1>3, <1>8, <3>1, <4>3 DEF OrderInv, UpTo, e
    <3>2. CASE group' # <<>>
      <4>1. UpTo(chunks, group'[1][1])
        BY <2>1, <2>9, <3>2
      <4>. QED  BY <1>1, <1>3, <1>8, <3>2, <4>1 DEF OrderInv, UpTo
    <3>. QED  BY <3>1, <3>2
  <2>14. Good(chunks)'
    BY <1>3, <1>4, <1>8 DEF Good
  <2>. QED  BY <1>2, <2>12, <2>13, <2>14 DEF RInv
<1>. QED  BY <1>1, <1>7, <1>8

(* A piece starts after the one before and reaches no less far.             *)
LEMMA PieceGood == RInv /\ SplitPiece => RInv'
<1>. SUFFICES ASSUME RInv, SplitPiece PROVE RInv'
  OBVIOUS
<1>. DEFINE block == BlocksOf(Here)[cut.block]
            at == cut.block
            from == cut.from
            to == IF cut.from + cut.size < block.words THEN cut.from + cut.size
                  ELSE block.words
            named == IF block.type = "page" THEN <<>> ELSE <<at>>
            piece == WordsOf(at, from, to)
            kind == cut.kind
            after == Emitted(chunks, kind, named, piece)
            last == chunks[Len(chunks)]
<1>1. /\ cut # Nil /\ cut.size # Overlap /\ ~Exhausted(cut)
      /\ chunks' = after \/ chunks' = chunks
      /\ cut' = [cut EXCEPT !.from = NextStart(cut)]
      /\ document' = document /\ page' = page /\ next' = next
      /\ group' = group /\ ids' = ids
  BY DEF SplitPiece, Here
<1>2. IInv'
  BY SplitPieceStep DEF RInv
<1>3. /\ document \in Seq(Page) /\ page \in Nat /\ next \in Nat
      /\ cut \in Cut /\ chunks \in Seq(Chunk)
      /\ page \in DOMAIN document /\ at \in DOMAIN BlocksOf(Here)
      /\ cut.size = Budget(page) /\ group = <<>> /\ ids = <<>>
      /\ Good(chunks)
  BY <1>1 DEF RInv, IInv, TypeOK, Splitting, GroupInv
<1>4. /\ block.words \in Nat /\ at \in Nat
      /\ block.type = "page" <=> Here.blocks = <<>>
  BY <1>3, BlocksOfPage DEF Here
<1>5. /\ from \in Nat /\ cut.size \in Nat /\ kind \in {"text", "table"}
      /\ cut.size > Overlap /\ Overlap \in Nat /\ from < block.words
  <2>1. /\ from \in Nat /\ cut.size \in Nat /\ kind \in {"text", "table"}
        /\ Overlap \in Nat
    BY <1>3, SizesAssumption DEF Cut
  <2>. QED  BY <1>1, <1>4, <2>1 DEF Exhausted, Here
<1>6. /\ cut' # Nil /\ cut'.block = at
      /\ cut'.from = from + cut.size - Overlap
  <2>1. cut' = [block |-> at, kind |-> kind, size |-> cut.size,
                from |-> from + cut.size - Overlap]
    BY <1>1, <1>3 DEF Cut, NextStart
  <2>2. from + cut.size - Overlap \in Nat
    BY <1>5
  <2>3. cut' \in Cut
    <3>1. at \in Nat /\ kind \in {"text", "table"} /\ cut.size \in Nat
      BY <1>4, <1>5
    <3>. HIDE DEF at, kind, from
    <3>. QED  BY <2>1, <2>2, <3>1 DEF Cut
  <2>. QED  BY <2>1, <2>3, NilAssumption
<1>7. chunks # <<>> =>
        /\ last.page <= page
        /\ last.page = page =>
             /\ Before(Opening(last.words), <<at, from + 1>>)
             /\ Closing(last.words)[1] <= at
             /\ Closing(last.words)[1] = at =>
                  /\ Closing(last.words)[2] <= from + Overlap
                  /\ Closing(last.words)[2] <= block.words
  BY <1>1 DEF RInv, OrderInv
<1>8. chunks # <<>> =>
        /\ Opening(last.words)[1] \in Nat /\ Opening(last.words)[2] \in Nat
        /\ Closing(last.words)[1] \in Nat /\ Closing(last.words)[2] \in Nat
  BY <1>3, LastChunk
<1>9. Here' = Here /\ BlocksOf(Here)' = BlocksOf(Here)
  BY <1>1 DEF Here
<1>. DEFINE words == block.words
            size == cut.size
<1>10. /\ words \in Nat /\ from < words /\ size \in Nat /\ size > Overlap
       /\ BlocksOf(document[page])[at].words = words
  BY <1>1, <1>4, <1>5 DEF Here
<1>11. /\ to \in Nat /\ from < to /\ to <= words /\ to <= from + size
       /\ to = words \/ to = from + size
  BY <1>1, <1>4, <1>5
<1>12. /\ named \in Seq(Nat)
       /\ document[page].blocks # <<>> => named = <<at>>
  BY <1>4 DEF Here
<1>13. after = Emitted(chunks, kind, named, piece)
  OBVIOUS
<1>14. /\ piece \in Seq(Word) /\ Len(piece) = to - from
       /\ \A k \in 1 .. to - from : piece[k] = <<at, from + k>>
  <2>. HIDE DEF at, from, to
  <2>1. from <= to
    BY <1>5, <1>11
  <2>. QED  BY <1>4, <1>5, <1>11, <2>1, WordsOfBlock
<1>15. GroupInv'
  BY <1>1, <1>3, NothingGrouped
<1>. HIDE DEF at, from, to, named, piece, kind, after, last, words, size
<1>16. /\ DOMAIN piece = 1 .. to - from /\ piece # <<>>
       /\ Opening(piece) = <<at, from + 1>> /\ Closing(piece) = <<at, to>>
       /\ 1 \in DOMAIN piece
       /\ \A i \in DOMAIN piece : piece[i][1] = at
  <2>1. DOMAIN piece = 1 .. to - from
    BY <1>14, LenProperties
  <2>2. 1 \in 1 .. to - from /\ to - from \in 1 .. to - from
    BY <1>5, <1>11
  <2>3. piece[1] = <<at, from + 1>>
    BY <1>14, <2>2
  <2>4. piece[Len(piece)] = <<at, from + (to - from)>>
    BY <1>14, <2>2
  <2>5. from + (to - from) = to
    BY <1>5, <1>11
  <2>6. piece # <<>>
    BY <2>1, <2>2
  <2>. QED  BY <1>14, <2>1, <2>2, <2>3, <2>4, <2>5, <2>6 DEF Opening, Closing
<1>17. Leads(chunks, piece)
  <2>. SUFFICES ASSUME chunks # <<>>
                PROVE  /\ last.page <= page
                       /\ last.page = page =>
                            /\ Before(Opening(last.words), Opening(piece))
                            /\ ~Before(Closing(piece), Closing(last.words))
    BY DEF Leads, last
  <2>1. ASSUME last.page = page
        PROVE  ~Before(Closing(piece), Closing(last.words))
    <3>. DEFINE x == Closing(last.words)
    <3>1. /\ x[1] \in Nat /\ x[2] \in Nat /\ x[1] <= at
          /\ x[1] = at => x[2] <= from + Overlap /\ x[2] <= words
      BY <1>7, <1>8, <2>1 DEF words, at
    <3>. HIDE DEF x
    <3>2. x[1] = at => x[2] <= to
      BY <1>5, <1>10, <1>11, <3>1
    <3>3. ~Before(<<at, to>>, x)
      BY <1>4, <1>11, <3>1, <3>2 DEF Before
    <3>. QED  BY <1>16, <3>3 DEF x
  <2>. QED  BY <1>7, <1>16, <2>1
<1>18. Sectioned(document[page], named, piece)
  <2>1. words > 0
    BY <1>5, <1>10
  <2>2. document[page].blocks # <<>> =>
          named = <<at>> /\ BlocksOf(document[page])[at].words > 0
    BY <1>10, <1>12, <2>1
  <2>. QED  BY <1>16, <2>2, OneBlock
<1>19. Good(after)
  BY <1>3, <1>5, <1>12, <1>13, <1>14, <1>17, <1>18, EmitsGood
<1>20. Good(chunks)'
  BY <1>1, <1>3, <1>19 DEF Good
<1>. DEFINE start == from + size - Overlap
<1>21. start \in Nat /\ from < start /\ start + Overlap = from + size
  BY <1>5, <1>10
<1>22. cut'.from = start
  BY <1>6 DEF size
<1>. HIDE DEF start
<1>23. CASE chunks' = chunks
  <2>. SUFFICES ASSUME chunks # <<>>
                PROVE  /\ last.page <= page
                       /\ last.page = page =>
                            /\ Before(Opening(last.words), <<at, start + 1>>)
                            /\ Closing(last.words)[1] <= at
                            /\ Closing(last.words)[1] = at =>
                                 /\ Closing(last.words)[2] <= start + Overlap
                                 /\ Closing(last.words)[2] <= words
    <3>1. OrderInv'
      BY <1>1, <1>6, <1>9, <1>22, <1>23 DEF OrderInv, last, words, at
    <3>. QED  BY <1>2, <1>15, <1>20, <3>1 DEF RInv
  <2>. DEFINE x == Opening(last.words)
              y == Closing(last.words)
  <2>1. /\ last.page <= page
        /\ last.page = page =>
             /\ Before(x, <<at, from + 1>>)
             /\ y[1] <= at
             /\ y[1] = at => y[2] <= from + Overlap /\ y[2] <= words
    BY <1>7 DEF words, at
  <2>2. x[1] \in Nat /\ x[2] \in Nat /\ y[1] \in Nat /\ y[2] \in Nat
    BY <1>8
  <2>. HIDE DEF x, y
  <2>3. Before(x, <<at, from + 1>>) => Before(x, <<at, start + 1>>)
    BY <1>4, <1>5, <1>21, <2>2 DEF Before
  <2>4. y[2] <= from + Overlap => y[2] <= start + Overlap
    BY <1>5, <1>21, <2>2
  <2>5. /\ last.page <= page
        /\ last.page = page =>
             /\ Before(x, <<at, start + 1>>)
             /\ y[1] <= at
             /\ y[1] = at => y[2] <= start + Overlap /\ y[2] <= words
    BY <2>1, <2>3, <2>4
  <2>. QED  BY <2>5 DEF x, y
<1>24. CASE chunks' = after
  <2>. DEFINE new == after[Len(after)]
  <2>1. new.page = page /\ new.words = piece
    <3>1. /\ chunks \in Seq(Chunk) /\ page \in Nat /\ kind \in {"text", "table"}
          /\ named \in Seq(Nat) /\ piece \in Seq(Word) /\ piece # <<>>
      BY <1>3, <1>5, <1>12, <1>14, <1>16
    <3>2. /\ after[Len(after)].page = page
          /\ after[Len(after)].words = piece
      BY <1>13, <3>1, Emits
    <3>. QED  BY <3>2
  <2>2. new = chunks'[Len(chunks')]
    BY <1>24
  <2>. HIDE DEF new
  <2>3. Before(<<at, from + 1>>, <<at, start + 1>>)
    BY <1>4, <1>5, <1>21 DEF Before
  <2>4. to <= start + Overlap /\ to <= words
    BY <1>11, <1>21
  <2>5. OrderInv'
    <3>1. /\ new.page <= page
          /\ Before(Opening(new.words), <<at, start + 1>>)
          /\ Closing(new.words)[1] <= at
          /\ Closing(new.words)[2] <= start + Overlap
          /\ Closing(new.words)[2] <= words
      <4>1. Opening(new.words) = <<at, from + 1>> /\ Closing(new.words) = <<at, to>>
        BY <1>16, <2>1
      <4>2. <<at, to>>[1] = at /\ <<at, to>>[2] = to /\ at <= at /\ page <= page
        BY <1>3, <1>4
      <4>. QED  BY <2>1, <2>3, <2>4, <4>1, <4>2
    <3>2. BlocksOf(Here)'[cut'.block].words = words /\ cut'.block = at
      BY <1>6, <1>9 DEF words, at
    <3>3. cut' # Nil /\ page' = page /\ cut'.from = start
      BY <1>1, <1>6, <1>22
    <3>. SUFFICES /\ new.page <= page
                  /\ Before(Opening(new.words), <<at, start + 1>>)
                  /\ Closing(new.words)[1] <= at
                  /\ Closing(new.words)[2] <= start + Overlap
                  /\ Closing(new.words)[2] <= words
      BY <2>2, <3>2, <3>3 DEF OrderInv
    <3>. QED  BY <3>1
  <2>. QED  BY <1>2, <1>15, <1>20, <2>5 DEF RInv
<1>. QED  BY <1>1, <1>23, <1>24

LEMMA CutEndsGood == RInv /\ EndSplit => RInv'
<1>. SUFFICES ASSUME RInv, EndSplit PROVE RInv'
  OBVIOUS
<1>1. /\ cut # Nil /\ cut' = Nil
      /\ document' = document /\ page' = page /\ next' = next
      /\ group' = group /\ ids' = ids /\ chunks' = chunks
  BY DEF EndSplit
<1>2. IInv'
  BY EndSplitStep DEF RInv
<1>3. /\ document \in Seq(Page) /\ page \in DOMAIN document /\ next \in Nat
      /\ cut.block \in DOMAIN BlocksOf(Here) /\ cut.from \in Nat
      /\ cut.block < next /\ group = <<>> /\ ids = <<>>
      /\ chunks \in Seq(Chunk) /\ Good(chunks)
  BY <1>1 DEF RInv, IInv, TypeOK, Splitting, Cut, GroupInv
<1>4. cut.block \in Nat
  BY <1>3, BlocksOfPage DEF Here
<1>5. GroupInv'
  BY <1>1, <1>3, NothingGrouped
<1>6. Good(chunks)'
  BY <1>1, <1>3 DEF Good
<1>7. UpTo(chunks, next)
  <2>. SUFFICES ASSUME chunks # <<>> PROVE UpTo(chunks, next)
    BY DEF UpTo
  <2>. DEFINE last == chunks[Len(chunks)]
              x == Opening(last.words)
              y == Closing(last.words)
              at == cut.block
  <2>1. x[1] \in Nat /\ y[1] \in Nat
    BY <1>3, LastChunk
  <2>2. /\ last.page <= page
        /\ last.page = page => Before(x, <<at, cut.from + 1>>) /\ y[1] <= at
    BY <1>1 DEF RInv, OrderInv
  <2>3. at \in Nat /\ at < next
    BY <1>3, <1>4
  <2>. HIDE DEF x, y, at
  <2>4. last.page = page => x[1] < next /\ y[1] < next
    BY <1>3, <2>1, <2>2, <2>3 DEF Before
  <2>. QED  BY <2>2, <2>4 DEF UpTo, x, y
<1>8. OrderInv'
  BY <1>1, <1>3, <1>7 DEF OrderInv, UpTo
<1>. QED  BY <1>2, <1>5, <1>6, <1>8 DEF RInv

LEMMA RaisesGood == RInv /\ SplitRaises => RInv'
<1>. SUFFICES ASSUME RInv, SplitRaises PROVE RInv'
  OBVIOUS
<1>1. /\ document' = document /\ page' = page /\ next' = next
      /\ group' = group /\ ids' = ids /\ cut' = cut /\ chunks' = chunks
  BY DEF SplitRaises
<1>2. IInv'
  BY RaisesStep DEF RInv
<1>3. Good(chunks)'
  BY <1>1 DEF RInv, Good
<1>4. GroupInv'
  BY <1>1 DEF RInv, GroupInv, Here
<1>5. OrderInv'
  BY <1>1 DEF RInv, OrderInv, UpTo, Here
<1>. QED  BY <1>2, <1>3, <1>4, <1>5 DEF RInv

LEMMA PageEndsGood == RInv /\ ClosePage => RInv'
<1>. SUFFICES ASSUME RInv, ClosePage PROVE RInv'
  OBVIOUS
<1>1. /\ cut = Nil /\ chunks' = Flushed /\ group' = <<>> /\ ids' = <<>>
      /\ page' = page + 1 /\ next' = 1
      /\ document' = document /\ cut' = cut
  BY DEF ClosePage, Reading, NoGroup
<1>2. IInv'
  BY ClosePageStep DEF RInv
<1>3. page \in Nat
  BY DEF RInv, IInv, TypeOK
<1>4. Flushed \in Seq(Chunk) /\ Good(Flushed) /\ UpTo(Flushed, next)
  BY <1>1, FlushGood
<1>5. GroupInv'
  BY <1>1, NothingGrouped
<1>6. Good(chunks)'
  BY <1>1, <1>4 DEF Good
<1>7. OrderInv'
  <2>. DEFINE after == Flushed
              last == after[Len(after)]
  <2>1. after # <<>> => last.page \in Nat /\ last.page <= page
    BY <1>4, LastChunk DEF UpTo
  <2>. HIDE DEF last
  <2>2. after # <<>> => last.page <= page + 1 /\ last.page # page + 1
    BY <1>3, <2>1
  <2>3. chunks' = after
    BY <1>1
  <2>. HIDE DEF after
  <2>. QED  BY <1>1, <2>2, <2>3 DEF OrderInv, UpTo, last
<1>. QED  BY <1>2, <1>5, <1>6, <1>7 DEF RInv

LEMMA RInductive == RInv /\ [Next]_vars => RInv'
<1>1. ASSUME RInv, UNCHANGED vars PROVE RInv'
  <2>1. IInv'
    BY <1>1, Inductive DEF RInv
  <2>2. /\ document' = document /\ page' = page /\ next' = next
        /\ group' = group /\ ids' = ids /\ cut' = cut /\ chunks' = chunks
    BY <1>1 DEF vars
  <2>3. Good(chunks)'
    BY <1>1, <2>2 DEF RInv, Good
  <2>4. GroupInv'
    BY <1>1, <2>2 DEF RInv, GroupInv, Here
  <2>5. OrderInv'
    BY <1>1, <2>2 DEF RInv, OrderInv, UpTo, Here
  <2>. QED  BY <2>1, <2>3, <2>4, <2>5 DEF RInv
<1>. QED
  BY <1>1, PageStartsGood, TableGood, OversizedGood, TextGood, PieceGood,
     CutEndsGood, RaisesGood, PageEndsGood DEF Next

LEMMA RInvariance == Spec => []RInv
  BY RInitially, RInductive, PTL DEF Spec

(* Whatever the document, no chunk runs on into the next section or over a  *)
(* table, and each names the blocks its words are of and no other.          *)
THEOREM ChunksKeepToSections == Spec => []ChunksAreSections
<1>1. RInv => ChunksAreSections
  BY DEF RInv, Good, Sectioned, ChunksAreSections
<1>. QED  BY <1>1, RInvariance, PTL

(* Whatever the document and the budget, the chunks come in the order in    *)
(* which it is read, those of split_fixed included: each starts after the   *)
(* one before it and ends no earlier.                                       *)
THEOREM ChunksKeepTheOrder == Spec => []InReadingOrder
<1>1. RInv => InReadingOrder
  BY DEF RInv, Good, Follows, InReadingOrder
<1>. QED  BY <1>1, RInvariance, PTL

=============================================================================
