------------------------ MODULE RegionReadingProofs ------------------------
(***************************************************************************)
(* What RegionReading does with any words on a page of any size.            *)
(***************************************************************************)
EXTENDS RegionReading, DataLemmas

-----------------------------------------------------------------------------
(* Boxes.                                                                   *)

LEMMA LesserAndGreater ==
  ASSUME NEW a \in Int, NEW b \in Int
  PROVE  /\ Lesser(a, b) = Lesser(b, a) /\ Greater(a, b) = Greater(b, a)
         /\ Lesser(a, b) \in Int /\ Greater(a, b) \in Int
         /\ Lesser(a, b) <= a /\ Lesser(a, b) <= b
         /\ a <= Greater(a, b) /\ b <= Greater(a, b)
         /\ Lesser(a, b) \in {a, b} /\ Greater(a, b) \in {a, b}
BY DEF Lesser, Greater

LEMMA BoxFields ==
  ASSUME NEW b \in Box
  PROVE  /\ b.left \in Int /\ b.top \in Int /\ b.right \in Int /\ b.bottom \in Int
         /\ Width(b) \in Int /\ Height(b) \in Int
BY DEF Box, Width, Height

LEMMA PageIsNat == WIDTH \in Nat /\ HEIGHT \in Nat
BY PageAssumption

LEMMA ProperFields ==
  ASSUME NEW b \in Box, Proper(b)
  PROVE  /\ 0 <= b.left /\ b.left < b.right /\ b.right <= WIDTH
         /\ 0 <= b.top /\ b.top < b.bottom /\ b.bottom <= HEIGHT
         /\ Width(b) \in Nat \ {0} /\ Height(b) \in Nat \ {0}
<1>1. /\ 0 <= b.left /\ b.left < b.right /\ b.right <= WIDTH
      /\ 0 <= b.top /\ b.top < b.bottom /\ b.bottom <= HEIGHT
  BY DEF Proper
<1>2. Width(b) \in Nat \ {0}
  BY <1>1, BoxFields DEF Width
<1>3. Height(b) \in Nat \ {0}
  BY <1>1, BoxFields DEF Height
<1>. QED  BY <1>1, <1>2, <1>3

LEMMA InsideOfInside ==
  ASSUME NEW a \in Box, NEW b \in Box, NEW c \in Box, Inside(a, b), Inside(b, c)
  PROVE  Inside(a, c)
BY BoxFields DEF Inside

LEMMA InsideItself ==
  ASSUME NEW a \in Box
  PROVE  Inside(a, a)
BY BoxFields DEF Inside

LEMMA OverlapsBothWays ==
  ASSUME NEW a \in Box, NEW b \in Box
  PROVE  /\ HorizontalOverlap(a, b) = HorizontalOverlap(b, a)
         /\ VerticalOverlap(a, b) = VerticalOverlap(b, a)
         /\ Lesser(Width(a), Width(b)) = Lesser(Width(b), Width(a))
BY BoxFields, LesserAndGreater DEF HorizontalOverlap, VerticalOverlap

LEMMA MergesBothWays ==
  ASSUME NEW a \in Box, NEW b \in Box
  PROVE  ShouldMergeRegions(a, b) <=> ShouldMergeRegions(b, a)
BY OverlapsBothWays, Zenon DEF ShouldMergeRegions

LEMMA AroundBoth ==
  ASSUME NEW a \in Box, NEW b \in Box
  PROVE  /\ Around(a, b) \in Box
         /\ Inside(a, Around(a, b)) /\ Inside(b, Around(a, b))
         /\ Proper(a) /\ Proper(b) => Proper(Around(a, b))
         /\ Around(a, b).left \in {a.left, b.left}
         /\ Around(a, b).right \in {a.right, b.right}
         /\ Around(a, b).top \in {a.top, b.top}
         /\ Around(a, b).bottom \in {a.bottom, b.bottom}
<1>. DEFINE c == Around(a, b)
<1>1. /\ c.left = Lesser(a.left, b.left) /\ c.top = Lesser(a.top, b.top)
      /\ c.right = Greater(a.right, b.right)
      /\ c.bottom = Greater(a.bottom, b.bottom)
      /\ c = [left |-> c.left, top |-> c.top, right |-> c.right,
              bottom |-> c.bottom]
  BY DEF Around, B
<1>2. /\ a.left \in Int /\ a.top \in Int /\ a.right \in Int /\ a.bottom \in Int
      /\ b.left \in Int /\ b.top \in Int /\ b.right \in Int /\ b.bottom \in Int
  BY BoxFields
<1>. HIDE DEF c
<1>3. c \in Box
  <2>1. c.left \in Int /\ c.top \in Int /\ c.right \in Int /\ c.bottom \in Int
    BY <1>1, <1>2, LesserAndGreater
  <2>. QED  BY <1>1, <2>1 DEF Box
<1>4. Inside(a, c) /\ Inside(b, c)
  BY <1>1, <1>2, LesserAndGreater DEF Inside
<1>5. ASSUME Proper(a), Proper(b) PROVE Proper(c)
  <2>1. WIDTH \in Nat /\ HEIGHT \in Nat
    BY PageIsNat
  <2>2. 0 <= c.left /\ c.left < c.right /\ c.right <= WIDTH
    BY <1>1, <1>2, <1>5, <2>1 DEF Proper, Lesser, Greater
  <2>3. 0 <= c.top /\ c.top < c.bottom /\ c.bottom <= HEIGHT
    BY <1>1, <1>2, <1>5, <2>1 DEF Proper, Lesser, Greater
  <2>. QED  BY <2>2, <2>3 DEF Proper
<1>6. /\ c.left \in {a.left, b.left} /\ c.right \in {a.right, b.right}
      /\ c.top \in {a.top, b.top} /\ c.bottom \in {a.bottom, b.bottom}
  BY <1>1, <1>2, LesserAndGreater
<1>. QED  BY <1>3, <1>4, <1>5, <1>6 DEF c

(* h is the smallest box around the first n of s.                           *)
IsHull(h, s, n) ==
  /\ h \in Box
  /\ \A k \in 1 .. n : Inside(s[k], h)
  /\ (\A k \in 1 .. n : Proper(s[k])) => Proper(h)
  /\ \E k \in 1 .. n : h.left = s[k].left
  /\ \E k \in 1 .. n : h.right = s[k].right
  /\ \E k \in 1 .. n : h.top = s[k].top
  /\ \E k \in 1 .. n : h.bottom = s[k].bottom

LEMMA OneMoreInHull ==
  ASSUME NEW s \in Seq(Box), NEW n \in Nat \ {0}, n + 1 \in DOMAIN s,
         NEW h, IsHull(h, s, n)
  PROVE  IsHull(Around(h, s[n + 1]), s, n + 1)
<1>. DEFINE e == s[n + 1]
            g == Around(h, e)
<1>1. h \in Box /\ e \in Box /\ DOMAIN s = 1 .. Len(s) /\ Len(s) \in Nat
  BY LenProperties, ElementOfSeq DEF IsHull
<1>2. /\ g \in Box /\ Inside(h, g) /\ Inside(e, g)
      /\ Proper(h) /\ Proper(e) => Proper(g)
      /\ g.left \in {h.left, e.left} /\ g.right \in {h.right, e.right}
      /\ g.top \in {h.top, e.top} /\ g.bottom \in {h.bottom, e.bottom}
  BY <1>1, AroundBoth
<1>3. /\ n + 1 \in 1 .. n + 1
      /\ \A k \in 1 .. n : k \in 1 .. n + 1
      /\ \A k \in 1 .. n + 1 : k \in 1 .. n \/ k = n + 1
  OBVIOUS
<1>4. \A k \in 1 .. n : s[k] \in Box
  <2>1. \A k \in 1 .. n : k \in 1 .. Len(s)
    BY <1>1
  <2>. QED  BY <2>1, ElementOfSeq
<1>. HIDE DEF g
<1>5. \A k \in 1 .. n + 1 : Inside(s[k], g)
  BY <1>1, <1>2, <1>3, <1>4, InsideOfInside DEF IsHull
<1>6. (\A k \in 1 .. n + 1 : Proper(s[k])) => Proper(g)
  BY <1>2, <1>3 DEF IsHull
<1>7. /\ \E k \in 1 .. n + 1 : g.left = s[k].left
      /\ \E k \in 1 .. n + 1 : g.right = s[k].right
  BY <1>2, <1>3 DEF IsHull
<1>8. /\ \E k \in 1 .. n + 1 : g.top = s[k].top
      /\ \E k \in 1 .. n + 1 : g.bottom = s[k].bottom
  BY <1>2, <1>3 DEF IsHull
<1>9. IsHull(g, s, n + 1)
  BY <1>2, <1>5, <1>6, <1>7, <1>8 DEF IsHull
<1>. QED  BY <1>9 DEF g

LEMMA HullIsHull ==
  ASSUME NEW s \in Seq(Box), s # <<>>
  PROVE  IsHull(Hull(s), s, Len(s))
<1>. DEFINE len == Len(s)
            Body(g) == [k \in DOMAIN s |->
                          IF k = 1 THEN s[1] ELSE Around(g[k - 1], s[k])]
            around == CHOOSE g : g = Body(g)
            step == [x \in Box \X Int |->
                       IF x[2] \in 1 .. len THEN Around(x[1], s[x[2]]) ELSE x[1]]
<1>1. Hull(s) = around[len]
  BY DEF Hull
<1>2. /\ len \in Nat \ {0} /\ DOMAIN s = 1 .. len
      /\ \A n \in 1 .. len : s[n] \in Box
  BY LenProperties, EmptySeq, ElementOfSeq
<1>3. step \in [Box \X Int -> Box]
  <2>1. \A x \in Box \X Int : x[1] \in Box /\ x[2] \in Int
    OBVIOUS
  <2>. HIDE DEF len
  <2>. QED  BY <1>2, <2>1, AroundBoth
<1>4. PICK f : Steps(f, Box, 1, len, s[1], step)
  <2>1. s[1] \in Box /\ 1 \in Int /\ len \in Int /\ 1 <= len
    BY <1>2
  <2>. HIDE DEF step, len
  <2>. QED  BY <1>3, <2>1, StepsExist
<1>5. f \in [1 .. len -> Box] /\ f[1] = s[1]
  BY <1>4 DEF Steps
<1>6. \A n \in 2 .. len : f[n] = step[<<f[n - 1], n>>]
  <2>1. 1 + 1 = 2
    OBVIOUS
  <2>. QED  BY <1>4, <2>1 DEF Steps
<1>7. ASSUME NEW n \in 2 .. len PROVE f[n] = Around(f[n - 1], s[n])
  <2>1. <<f[n - 1], n>> \in Box \X Int /\ n \in 1 .. len
    <3>1. n - 1 \in 1 .. len /\ n \in 1 .. len /\ n \in Int
      BY <1>2
    <3>. HIDE DEF len
    <3>2. f[n - 1] \in Box
      BY <1>5, <3>1
    <3>. QED  BY <3>1, <3>2
  <2>. QED  BY <1>6, <2>1
<1>8. f = Body(f)
  <2>1. \A n \in 1 .. len : n = 1 \/ n \in 2 .. len
    BY <1>2
  <2>. HIDE DEF len
  <2>. QED  BY <1>2, <1>5, <1>7, <2>1
<1>9. around = Body(around)
  <2>. HIDE DEF Body
  <2>. QED  BY <1>8
<1>. HIDE DEF around, step
<1>10. around[1] = s[1]
  <2>1. 1 \in DOMAIN s
    BY <1>2
  <2>2. Body(around)[1] = s[1]
    BY <2>1
  <2>. HIDE DEF Body
  <2>. QED  BY <1>9, <2>2
<1>11. ASSUME NEW n \in Nat, n + 1 \in DOMAIN s, n # 0
       PROVE  around[n + 1] = Around(around[n], s[n + 1])
  <2>1. n + 1 # 1 /\ (n + 1) - 1 = n
    BY <1>11
  <2>2. Body(around)[n + 1] = Around(around[n], s[n + 1])
    BY <1>11, <2>1
  <2>. HIDE DEF Body
  <2>. QED  BY <1>9, <2>2
<1>. HIDE DEF Body, len
<1>. DEFINE N == {n \in Nat : n + 1 <= len => IsHull(around[n + 1], s, n + 1)}
<1>12. 0 \in N
  <2>1. 1 \in 1 .. 1 /\ \A k \in 1 .. 1 : k = 1
    OBVIOUS
  <2>2. s[1] \in Box
    BY <1>2
  <2>3. IsHull(s[1], s, 1)
    BY <2>1, <2>2, InsideItself DEF IsHull
  <2>4. 0 + 1 = 1
    OBVIOUS
  <2>. QED  BY <1>10, <2>3, <2>4
<1>13. ASSUME NEW n \in Nat, n \in N PROVE n + 1 \in N
  <2>. SUFFICES ASSUME (n + 1) + 1 <= len
                PROVE  IsHull(around[(n + 1) + 1], s, (n + 1) + 1)
    OBVIOUS
  <2>1. (n + 1) + 1 \in DOMAIN s /\ n + 1 \in Nat \ {0} /\ n + 1 <= len
    BY <1>2
  <2>2. IsHull(around[n + 1], s, n + 1)
    BY <1>13, <2>1
  <2>3. around[(n + 1) + 1] = Around(around[n + 1], s[(n + 1) + 1])
    BY <1>11, <2>1
  <2>. QED  BY <2>1, <2>2, <2>3, OneMoreInHull
<1>14. IsHull(around[len], s, len)
  <2>1. \A n \in Nat : n \in N
    <3>. HIDE DEF N
    <3>. QED  BY <1>12, <1>13, NumberInduction
  <2>2. len - 1 \in Nat /\ (len - 1) + 1 = len
    BY <1>2
  <2>. QED  BY <1>2, <2>1, <2>2
<1>. QED  BY <1>1, <1>14 DEF len

LEMMA PaddedBox ==
  ASSUME NEW b \in Box, Proper(b), NEW left \in Nat, NEW top \in Nat,
         NEW right \in Nat, NEW bottom \in Nat
  PROVE  LET p == Padded(b, left, top, right, bottom)
         IN  p \in Box /\ Proper(p) /\ Inside(b, p)
<1>. DEFINE p == Padded(b, left, top, right, bottom)
<1>1. p = [left |-> Greater(0, b.left - left), top |-> Greater(0, b.top - top),
           right |-> Lesser(WIDTH, b.right + right),
           bottom |-> Lesser(HEIGHT, b.bottom + bottom)]
  BY DEF Padded, B
<1>. HIDE DEF p
<1>2. /\ b.left \in Int /\ b.top \in Int /\ b.right \in Int /\ b.bottom \in Int
      /\ 0 <= b.left /\ b.left < b.right /\ b.right <= WIDTH
      /\ 0 <= b.top /\ b.top < b.bottom /\ b.bottom <= HEIGHT
  BY BoxFields, ProperFields
<1>3. WIDTH \in Nat /\ HEIGHT \in Nat
  BY PageIsNat
<1>4. p.left \in Int /\ 0 <= p.left /\ p.left <= b.left
  BY <1>1, <1>2 DEF Greater
<1>5. p.top \in Int /\ 0 <= p.top /\ p.top <= b.top
  BY <1>1, <1>2 DEF Greater
<1>6. p.right \in Int /\ b.right <= p.right /\ p.right <= WIDTH
  BY <1>1, <1>2, <1>3 DEF Lesser
<1>7. p.bottom \in Int /\ b.bottom <= p.bottom /\ p.bottom <= HEIGHT
  BY <1>1, <1>2, <1>3 DEF Lesser
<1>8. p \in Box
  BY <1>1, <1>4, <1>5, <1>6, <1>7 DEF Box
<1>9. Inside(b, p)
  BY <1>4, <1>5, <1>6, <1>7 DEF Inside
<1>10. 0 <= p.left /\ p.left < p.right /\ p.right <= WIDTH
  BY <1>2, <1>3, <1>4, <1>6
<1>11. 0 <= p.top /\ p.top < p.bottom /\ p.bottom <= HEIGHT
  BY <1>2, <1>3, <1>5, <1>7
<1>12. Proper(p)
  BY <1>10, <1>11 DEF Proper
<1>. QED  BY <1>8, <1>9, <1>12 DEF p

LEMMA ClampedBox ==
  ASSUME NEW b \in Box, Proper(b)
  PROVE  Clamped(b) = b
<1>1. /\ b.left \in Int /\ b.top \in Int /\ b.right \in Int /\ b.bottom \in Int
      /\ 0 <= b.left /\ b.left < b.right /\ b.right <= WIDTH
      /\ 0 <= b.top /\ b.top < b.bottom /\ b.bottom <= HEIGHT
  BY BoxFields, ProperFields
<1>2. WIDTH \in Nat /\ HEIGHT \in Nat
  BY PageIsNat
<1>3. /\ Within(0, b.left, WIDTH) = b.left /\ Within(0, b.right, WIDTH) = b.right
      /\ Within(0, b.top, HEIGHT) = b.top
      /\ Within(0, b.bottom, HEIGHT) = b.bottom
  BY <1>1, <1>2 DEF Within, Lesser, Greater
<1>. QED  BY <1>3 DEF Clamped, B, Box

LEMMA RoundedIsInt ==
  ASSUME NEW a \in Int, NEW b \in Nat \ {0}
  PROVE  RoundHalfEven(a, b) \in Int
<1>1. a \div b \in Int /\ a % b \in Int
  OBVIOUS
<1>. QED  BY <1>1 DEF RoundHalfEven

-----------------------------------------------------------------------------
(* Sequences.                                                               *)

LEMMA FunctionIsSeq ==
  ASSUME NEW S, NEW n \in Nat, NEW f \in [1 .. n -> S]
  PROVE  f \in Seq(S) /\ Len(f) = n /\ DOMAIN f = 1 .. n
BY SeqDef, LenProperties

LEMMA SeqFacts ==
  ASSUME NEW S, NEW s \in Seq(S)
  PROVE  /\ DOMAIN s = 1 .. Len(s) /\ Len(s) \in Nat
         /\ \A k \in DOMAIN s : s[k] \in S
         /\ s \in [1 .. Len(s) -> S]
         /\ s # <<>> <=> Len(s) # 0
         /\ s # <<>> => 1 \in DOMAIN s
BY LenProperties, ElementOfSeq, EmptySeq

LEMMA SingleKey ==
  ASSUME NEW a \in Int
  PROVE  <<a>> \in Keys(1)
BY DEF Keys

LEMMA PairKey ==
  ASSUME NEW a \in Int, NEW b \in Int
  PROVE  <<a, b>> \in Keys(2)
BY DEF Keys

LEMMA FourKeys ==
  ASSUME NEW a \in Int, NEW b \in Int, NEW c \in Int, NEW d \in Int
  PROVE  <<a, b, c, d>> \in Keys(4)
BY DEF Keys

(* t has the elements of s.                                                 *)
SameElements(t, s) ==
  /\ \A p \in DOMAIN t : \E i \in DOMAIN s : t[p] = s[i]
  /\ \A i \in DOMAIN s : \E p \in DOMAIN t : t[p] = s[i]

LEMMA SortedSame ==
  ASSUME NEW S, NEW s \in Seq(S), NEW m \in Nat, NEW key \in [DOMAIN s -> Keys(m)]
  PROVE  /\ Sorted(s, key) \in Seq(S) /\ Len(Sorted(s, key)) = Len(s)
         /\ SameElements(Sorted(s, key), s)
<1>. DEFINE t == Sorted(s, key)
<1>1. t \in Seq(S) /\ Len(t) = Len(s) /\ Permutes(t, s)
  BY SortedPermutes
<1>. HIDE DEF t
<1>2. SameElements(t, s)
  <2>1. PICK from \in [DOMAIN s -> DOMAIN s] :
          /\ \A p \in DOMAIN s : t[p] = s[from[p]]
          /\ \A i \in DOMAIN s : \E p \in DOMAIN s : from[p] = i
    BY <1>1 DEF Permutes
  <2>2. DOMAIN t = DOMAIN s
    BY <1>1 DEF Permutes
  <2>3. ASSUME NEW p \in DOMAIN t PROVE \E i \in DOMAIN s : t[p] = s[i]
    BY <2>1, <2>2
  <2>4. ASSUME NEW i \in DOMAIN s PROVE \E p \in DOMAIN t : t[p] = s[i]
    <3>1. PICK p \in DOMAIN s : from[p] = i
      BY <2>1
    <3>. QED  BY <2>1, <2>2, <3>1
  <2>. QED  BY <2>3, <2>4 DEF SameElements
<1>. QED  BY <1>1, <1>2 DEF t

-----------------------------------------------------------------------------
(* Detection.                                                               *)

(* Words that lie on the page.                                              *)
OnPage(some) ==
  /\ some \in Seq(Word)
  /\ \A k \in DOMAIN some : Inside(some[k].box, B(0, 0, WIDTH, HEIGHT))

LEMMA WordFields ==
  ASSUME NEW w \in Word
  PROVE  /\ w.text \in STRING /\ w.box \in Box
         /\ w.block \in Int /\ w.par \in Int /\ w.line \in Int
BY DEF Word

LEMMA CountedIsProper ==
  ASSUME NEW w \in Word, Counted(w), Inside(w.box, B(0, 0, WIDTH, HEIGHT))
  PROVE  Proper(w.box) /\ w.block \in Nat \ {0} /\ w.box \in Box
<1>1. w.box \in Box /\ w.block \in Int
  BY WordFields
<1>2. w.block > 0 /\ Width(w.box) > 0 /\ Height(w.box) > 0
  BY DEF Counted
<1>3. /\ w.box.left \in Int /\ w.box.top \in Int /\ w.box.right \in Int
      /\ w.box.bottom \in Int
  BY <1>1, BoxFields
<1>4. /\ 0 <= w.box.left /\ w.box.right <= WIDTH
      /\ 0 <= w.box.top /\ w.box.bottom <= HEIGHT
  BY DEF Inside, B
<1>5. w.box.left < w.box.right /\ w.box.top < w.box.bottom
  BY <1>2, <1>3 DEF Width, Height
<1>. QED  BY <1>1, <1>2, <1>4, <1>5 DEF Proper

LEMMA RegionFields ==
  ASSUME NEW r \in Region
  PROVE  /\ r.id \in Nat /\ r.block \in Nat /\ r.box \in Box
         /\ r.probe \in Seq(STRING)
BY DEF Region

LEMMA RegionKeyType ==
  ASSUME NEW b \in Box, NEW way
  PROVE  RegionKey(b, way) \in Keys(2) /\ Across(b, way) \in Int
<1>1. RowStep \in Nat \ {0}
  <2>1. HEIGHT \div 100 \in Int
    BY PageIsNat
  <2>. QED  BY <2>1 DEF RowStep, Greater
<1>2. b.top \in Int /\ Across(b, way) \in Int
  BY BoxFields DEF Across
<1>3. RoundHalfEven(b.top, RowStep) \in Int
  BY <1>1, <1>2, RoundedIsInt
<1>. QED  BY <1>2, <1>3, PairKey DEF RegionKey

(* Regions with the numbers of their places, that cover a part of the page. *)
Numbered(some) ==
  /\ some \in Seq(Region)
  /\ \A k \in DOMAIN some : some[k].id = k /\ Proper(some[k].box)

SameBoxes(some, others) ==
  /\ \A k \in DOMAIN some : \E l \in DOMAIN others : some[k].box = others[l].box
  /\ \A l \in DOMAIN others : \E k \in DOMAIN some : some[k].box = others[l].box

LEMMA InRowsNumbers ==
  ASSUME NEW some \in Seq(Region), NEW way,
         \A k \in DOMAIN some : Proper(some[k].box)
  PROVE  Numbered(InRows(some, way)) /\ SameBoxes(InRows(some, way), some)
<1>. DEFINE key == [k \in DOMAIN some |-> RegionKey(some[k].box, way)]
            t == Sorted(some, key)
            u == [k \in DOMAIN t |-> [t[k] EXCEPT !.id = k]]
<1>1. \A k \in DOMAIN some : some[k] \in Region /\ some[k].box \in Box
  BY SeqFacts, RegionFields
<1>2. key \in [DOMAIN some -> Keys(2)]
  BY <1>1, RegionKeyType
<1>. HIDE DEF key
<1>3. t \in Seq(Region) /\ SameElements(t, some)
  BY <1>2, SortedSame
<1>4. InRows(some, way) = u
  BY DEF InRows, Renumbered, key
<1>. HIDE DEF t
<1>5. /\ DOMAIN t = 1 .. Len(t) /\ Len(t) \in Nat
      /\ \A k \in DOMAIN t : t[k] \in Region
  BY <1>3, SeqFacts
<1>6. \A k \in DOMAIN t :
        u[k] \in Region /\ u[k].id = k /\ u[k].box = t[k].box
  <2>. SUFFICES ASSUME NEW k \in DOMAIN t
                PROVE  u[k] \in Region /\ u[k].id = k /\ u[k].box = t[k].box
    OBVIOUS
  <2>1. t[k] \in Region /\ k \in Nat /\ u[k] = [t[k] EXCEPT !.id = k]
    BY <1>5
  <2>. HIDE DEF u
  <2>. QED  BY <2>1 DEF Region
<1>7. DOMAIN u = DOMAIN t
  OBVIOUS
<1>. HIDE DEF u
<1>8. u \in Seq(Region)
  <2>1. u \in [1 .. Len(t) -> Region]
    <3>1. u = [k \in DOMAIN u |-> u[k]]
      BY <1>4 DEF InRows, Renumbered
    <3>. QED  BY <1>5, <1>6, <1>7, <3>1
  <2>. QED  BY <1>5, <2>1, FunctionIsSeq
<1>9. SameBoxes(u, some)
  <2>1. ASSUME NEW k \in DOMAIN u
        PROVE  \E l \in DOMAIN some : u[k].box = some[l].box
    <3>1. PICK l \in DOMAIN some : t[k] = some[l]
      BY <1>3, <1>7 DEF SameElements
    <3>. QED  BY <1>6, <1>7, <3>1
  <2>2. ASSUME NEW l \in DOMAIN some
        PROVE  \E k \in DOMAIN u : u[k].box = some[l].box
    <3>1. PICK k \in DOMAIN t : t[k] = some[l]
      BY <1>3 DEF SameElements
    <3>. QED  BY <1>6, <1>7, <3>1
  <2>. QED  BY <2>1, <2>2 DEF SameBoxes
<1>10. \A k \in DOMAIN u : Proper(u[k].box)
  BY <1>9 DEF SameBoxes
<1>11. Numbered(u)
  BY <1>6, <1>7, <1>8, <1>10 DEF Numbered
<1>. QED  BY <1>4, <1>9, <1>11

(* The words of a block that count.                                         *)
CountedOf(of, some, block) ==
  /\ of \in Seq(Word)
  /\ \A m \in DOMAIN of :
       Counted(of[m]) /\ of[m].block = block /\ Proper(of[m].box)
  /\ \A k \in DOMAIN some :
       Counted(some[k]) /\ some[k].block = block =>
         \E m \in DOMAIN of : of[m] = some[k]

LEMMA WordsOfBlock ==
  ASSUME NEW some, OnPage(some), NEW block
  PROVE  CountedOf(OfBlock(some, block), some, block)
<1>. DEFINE those == {w \in ToSet(some) : Counted(w) /\ w.block = block}
            of == Only(some, those)
<1>1. some \in Seq(Word) /\ OfBlock(some, block) = of
  BY DEF OnPage, OfBlock
<1>2. /\ of \in Seq(Word)
      /\ \A m \in DOMAIN of :
           of[m] \in those /\ \E k \in DOMAIN some : of[m] = some[k]
      /\ \A k \in DOMAIN some : some[k] \in those =>
           \E m \in DOMAIN of : of[m] = some[k]
  <2>. HIDE DEF those
  <2>. QED  BY <1>1, OnlySome
<1>3. \A k \in DOMAIN some : some[k] \in ToSet(some) /\ some[k] \in Word
  BY <1>1, SeqFacts DEF ToSet
<1>. HIDE DEF of
<1>4. \A m \in DOMAIN of :
        Counted(of[m]) /\ of[m].block = block /\ Proper(of[m].box)
  <2>. SUFFICES ASSUME NEW m \in DOMAIN of
                PROVE  Counted(of[m]) /\ of[m].block = block /\ Proper(of[m].box)
    OBVIOUS
  <2>1. Counted(of[m]) /\ of[m].block = block
    BY <1>2
  <2>2. PICK k \in DOMAIN some : of[m] = some[k]
    BY <1>2
  <2>3. some[k] \in Word /\ Inside(some[k].box, B(0, 0, WIDTH, HEIGHT))
    BY <1>3 DEF OnPage
  <2>. QED  BY <2>1, <2>2, <2>3, CountedIsProper
<1>5. \A k \in DOMAIN some : Counted(some[k]) /\ some[k].block = block =>
        \E m \in DOMAIN of : of[m] = some[k]
  BY <1>2, <1>3
<1>. QED  BY <1>1, <1>2, <1>4, <1>5 DEF CountedOf

LEMMA BlocksMet ==
  ASSUME NEW some, OnPage(some)
  PROVE  /\ Blocks(some) \in Seq(Nat)
         /\ \A b \in DOMAIN Blocks(some) :
              \E k \in DOMAIN some :
                Counted(some[k]) /\ some[k].block = Blocks(some)[b]
         /\ \A k \in DOMAIN some : Counted(some[k]) =>
              \E b \in DOMAIN Blocks(some) : Blocks(some)[b] = some[k].block
<1>. DEFINE those == {w \in ToSet(some) : Counted(w)}
            counted == Only(some, those)
            numbers == [k \in DOMAIN counted |-> counted[k].block]
            met == Once(numbers)
<1>1. some \in Seq(Word) /\ Blocks(some) = met
  BY DEF OnPage, Blocks
<1>2. /\ counted \in Seq(Word)
      /\ \A m \in DOMAIN counted :
           counted[m] \in those /\ \E k \in DOMAIN some : counted[m] = some[k]
      /\ \A k \in DOMAIN some : some[k] \in those =>
           \E m \in DOMAIN counted : counted[m] = some[k]
  <2>. HIDE DEF those
  <2>. QED  BY <1>1, OnlySome
<1>3. \A k \in DOMAIN some : some[k] \in ToSet(some) /\ some[k] \in Word
  BY <1>1, SeqFacts DEF ToSet
<1>. HIDE DEF counted
<1>4. ASSUME NEW m \in DOMAIN counted
      PROVE  \E k \in DOMAIN some : /\ Counted(some[k]) /\ some[k] = counted[m]
                                    /\ some[k].block \in Nat
  <2>1. PICK k \in DOMAIN some : counted[m] = some[k]
    BY <1>2
  <2>2. Counted(some[k])
    BY <1>2, <2>1
  <2>3. some[k] \in Word /\ Inside(some[k].box, B(0, 0, WIDTH, HEIGHT))
    BY <1>3 DEF OnPage
  <2>. QED  BY <2>1, <2>2, <2>3, CountedIsProper
<1>5. numbers \in Seq(Nat) /\ DOMAIN numbers = DOMAIN counted
  <2>1. DOMAIN counted = 1 .. Len(counted) /\ Len(counted) \in Nat
    BY <1>2, SeqFacts
  <2>2. numbers \in [1 .. Len(counted) -> Nat]
    BY <1>4, <2>1
  <2>. HIDE DEF numbers
  <2>. QED  BY <2>1, <2>2, FunctionIsSeq
<1>6. \A m \in DOMAIN counted : numbers[m] = counted[m].block
  OBVIOUS
<1>. HIDE DEF numbers
<1>7. /\ met \in Seq(Nat)
      /\ \A b \in DOMAIN met : \E m \in DOMAIN numbers : met[b] = numbers[m]
      /\ \A m \in DOMAIN numbers : \E b \in DOMAIN met : met[b] = numbers[m]
  BY <1>5, OnceEach
<1>. HIDE DEF met
<1>8. ASSUME NEW b \in DOMAIN met
      PROVE  \E k \in DOMAIN some : Counted(some[k]) /\ some[k].block = met[b]
  <2>1. PICK m \in DOMAIN counted : met[b] = counted[m].block
    BY <1>5, <1>6, <1>7
  <2>. QED  BY <1>4, <2>1
<1>9. ASSUME NEW k \in DOMAIN some, Counted(some[k])
      PROVE  \E b \in DOMAIN met : met[b] = some[k].block
  <2>1. PICK m \in DOMAIN counted : counted[m] = some[k]
    BY <1>2, <1>3, <1>9
  <2>. QED  BY <1>5, <1>6, <1>7, <2>1
<1>. QED  BY <1>1, <1>7, <1>8, <1>9

(* The box of a region lies around those of its words.                      *)
LEMMA RegionOfWords ==
  ASSUME NEW some \in Seq(Word), some # <<>>,
         \A m \in DOMAIN some : Proper(some[m].box),
         NEW block \in Nat, NEW padding \in Nat
  PROVE  LET r == RegionOf(block, some, padding)
         IN  /\ r \in Region /\ Proper(r.box)
             /\ \A m \in DOMAIN some : Inside(some[m].box, r.box)
<1>. DEFINE all == [k \in DOMAIN some |-> some[k].box]
            h == Extent(some)
            p == Padded(h, padding, padding, padding, padding)
            r == RegionOf(block, some, padding)
<1>1. /\ DOMAIN some = 1 .. Len(some) /\ Len(some) \in Nat \ {0}
      /\ \A k \in DOMAIN some : some[k] \in Word
  BY SeqFacts
<1>2. \A k \in DOMAIN some : some[k].box \in Box /\ some[k].text \in STRING
  BY <1>1, WordFields
<1>3. all \in Seq(Box) /\ Len(all) = Len(some) /\ DOMAIN all = DOMAIN some
  <2>1. all \in [1 .. Len(some) -> Box]
    BY <1>1, <1>2
  <2>. HIDE DEF all
  <2>. QED  BY <1>1, <2>1, FunctionIsSeq
<1>4. \A k \in DOMAIN some : all[k] = some[k].box
  OBVIOUS
<1>5. h = Hull(all)
  BY DEF Extent
<1>. HIDE DEF all, h
<1>6. IsHull(h, all, Len(some))
  <2>1. all # <<>>
    BY <1>1, <1>3, SeqFacts
  <2>. QED  BY <1>3, <1>5, <2>1, HullIsHull
<1>7. /\ h \in Box /\ Proper(h)
      /\ \A k \in DOMAIN some : Inside(some[k].box, h)
  BY <1>1, <1>4, <1>6 DEF IsHull
<1>8. p \in Box /\ Proper(p) /\ Inside(h, p)
  BY <1>7, PaddedBox
<1>9. r = [id |-> 0, block |-> block, probe |-> Texts(some), box |-> p]
  BY DEF RegionOf, h
<1>. HIDE DEF p, r
<1>10. Texts(some) \in Seq(STRING)
  <2>1. Texts(some) \in [1 .. Len(some) -> STRING]
    BY <1>1, <1>2 DEF Texts
  <2>. QED  BY <1>1, <2>1, FunctionIsSeq
<1>11. r \in Region /\ r.box = p
  BY <1>8, <1>9, <1>10 DEF Region
<1>12. \A m \in DOMAIN some : Inside(some[m].box, p)
  BY <1>2, <1>7, <1>8, InsideOfInside
<1>. QED  BY <1>8, <1>11, <1>12 DEF r

(* Every word that counts lies in a region, but for those that are alone    *)
(* and doubtful.                                                            *)
Covers(some, boxed) ==
  \A k \in DOMAIN some :
    Counted(some[k]) /\ ~Lone(OfBlock(some, some[k].block)) =>
      \E r \in DOMAIN boxed : Inside(some[k].box, boxed[r].box)

LEMMA DetectsAll ==
  ASSUME NEW some, OnPage(some), NEW padding \in Nat, NEW way
  PROVE  LET found == DetectTextRegions(some, padding, way)
         IN  Numbered(found) /\ Covers(some, found)
<1>. DEFINE met == Blocks(some)
            those == {b \in ToSet(met) : ~Lone(OfBlock(some, b))}
            blocks == Only(met, those)
            Of(k) == OfBlock(some, blocks[k])
            found == [k \in DOMAIN blocks |-> RegionOf(blocks[k], Of(k), padding)]
            rows == InRows(found, way)
<1>1. some \in Seq(Word) /\ DetectTextRegions(some, padding, way) = rows
  BY DEF OnPage, DetectTextRegions
<1>2. /\ met \in Seq(Nat)
      /\ \A b \in DOMAIN met : \E k \in DOMAIN some :
           Counted(some[k]) /\ some[k].block = met[b]
      /\ \A k \in DOMAIN some : Counted(some[k]) =>
           \E b \in DOMAIN met : met[b] = some[k].block
  BY BlocksMet
<1>3. \A b \in DOMAIN met : met[b] \in ToSet(met)
  BY DEF ToSet
<1>. HIDE DEF met
<1>4. /\ blocks \in Seq(Nat)
      /\ \A k \in DOMAIN blocks : \E b \in DOMAIN met : blocks[k] = met[b]
      /\ \A b \in DOMAIN met : met[b] \in those =>
           \E k \in DOMAIN blocks : blocks[k] = met[b]
  <2>1. met \in Seq(Nat)
    BY <1>2
  <2>. HIDE DEF those
  <2>2. /\ blocks \in Seq(Nat)
        /\ \A m \in DOMAIN blocks :
             blocks[m] \in those /\ \E k \in DOMAIN met : blocks[m] = met[k]
        /\ \A k \in DOMAIN met : met[k] \in those =>
             \E m \in DOMAIN blocks : blocks[m] = met[k]
    BY <2>1, OnlySome
  <2>. HIDE DEF blocks
  <2>. QED  BY <2>2
<1>. HIDE DEF blocks
<1>5. /\ DOMAIN blocks = 1 .. Len(blocks) /\ Len(blocks) \in Nat
      /\ \A k \in DOMAIN blocks : blocks[k] \in Nat
  BY <1>4, SeqFacts
<1>6. \A k \in DOMAIN blocks :
        /\ Of(k) \in Seq(Word)
        /\ \A m \in DOMAIN Of(k) : Proper(Of(k)[m].box)
        /\ \A n \in DOMAIN some : Counted(some[n]) /\ some[n].block = blocks[k] =>
             \E m \in DOMAIN Of(k) : Of(k)[m] = some[n]
  <2>1. \A b : CountedOf(OfBlock(some, b), some, b)
    BY WordsOfBlock
  <2>2. \A k \in DOMAIN blocks : CountedOf(Of(k), some, blocks[k])
    BY <2>1
  <2>. HIDE DEF Of
  <2>. QED  BY <2>2 DEF CountedOf
<1>7. \A k \in DOMAIN blocks : Of(k) # <<>>
  <2>. SUFFICES ASSUME NEW k \in DOMAIN blocks PROVE Of(k) # <<>>
    OBVIOUS
  <2>. HIDE DEF Of
  <2>0. PICK b \in DOMAIN met : blocks[k] = met[b]
    BY <1>4
  <2>1. PICK n \in DOMAIN some : Counted(some[n]) /\ some[n].block = blocks[k]
    BY <1>2, <2>0
  <2>2. PICK m \in DOMAIN Of(k) : TRUE
    BY <1>6, <2>1
  <2>3. \A l \in DOMAIN <<>> : FALSE
    OBVIOUS
  <2>. QED  BY <2>2, <2>3
<1>. HIDE DEF Of
<1>8. \A k \in DOMAIN blocks :
        /\ found[k] \in Region /\ Proper(found[k].box)
        /\ \A m \in DOMAIN Of(k) : Inside(Of(k)[m].box, found[k].box)
  <2>. SUFFICES ASSUME NEW k \in DOMAIN blocks
                PROVE  /\ found[k] \in Region /\ Proper(found[k].box)
                       /\ \A m \in DOMAIN Of(k) : Inside(Of(k)[m].box, found[k].box)
    OBVIOUS
  <2>1. /\ Of(k) \in Seq(Word) /\ Of(k) # <<>> /\ blocks[k] \in Nat
        /\ \A m \in DOMAIN Of(k) : Proper(Of(k)[m].box)
    BY <1>5, <1>6, <1>7
  <2>2. found[k] = RegionOf(blocks[k], Of(k), padding)
    OBVIOUS
  <2>. HIDE DEF found
  <2>. QED  BY <2>1, <2>2, RegionOfWords
<1>9. found \in Seq(Region) /\ DOMAIN found = DOMAIN blocks
  <2>1. found \in [1 .. Len(blocks) -> Region]
    <3>1. found = [k \in 1 .. Len(blocks) |-> found[k]]
      BY <1>5
    <3>. QED  BY <1>5, <1>8, <3>1
  <2>. HIDE DEF found
  <2>. QED  BY <1>5, <2>1, FunctionIsSeq
<1>. HIDE DEF found
<1>10. Numbered(rows) /\ SameBoxes(rows, found)
  BY <1>8, <1>9, InRowsNumbers
<1>. HIDE DEF rows
<1>11. ASSUME NEW n \in DOMAIN some, Counted(some[n]),
              ~Lone(OfBlock(some, some[n].block))
       PROVE  \E r \in DOMAIN rows : Inside(some[n].box, rows[r].box)
  <2>1. PICK b \in DOMAIN met : met[b] = some[n].block
    BY <1>2, <1>11
  <2>2. PICK k \in DOMAIN blocks : blocks[k] = some[n].block
    BY <1>3, <1>4, <1>11, <2>1
  <2>3. PICK m \in DOMAIN Of(k) : Of(k)[m] = some[n]
    BY <1>6, <1>11, <2>2
  <2>4. Inside(some[n].box, found[k].box)
    BY <1>8, <2>3
  <2>5. PICK r \in DOMAIN rows : rows[r].box = found[k].box
    BY <1>9, <1>10 DEF SameBoxes
  <2>. QED  BY <2>4, <2>5
<1>12. Covers(some, rows)
  BY <1>11 DEF Covers
<1>. QED  BY <1>1, <1>10, <1>12

-----------------------------------------------------------------------------
(* Union-find.                                                              *)

(* The parents make trees: top is the root of each region, which ranks       *)
(* above all below it, and a tree has more regions than its root has rank.   *)
Below(n, top, r) == {j \in 1 .. n : top[j] = r}

Forest(n, up, top, rank) ==
  /\ up \in [1 .. n -> 1 .. n] /\ top \in [1 .. n -> 1 .. n]
  /\ rank \in [1 .. n -> Nat]
  /\ \A i \in 1 .. n : up[top[i]] = top[i] /\ top[up[i]] = top[i]
  /\ \A i \in 1 .. n : up[i] = i => top[i] = i
  /\ \A i \in 1 .. n : up[i] # i => rank[i] < rank[up[i]]
  /\ \A i \in 1 .. n : rank[i] < Cardinality(Below(n, top, top[i]))

LEMMA BelowIsFinite ==
  ASSUME NEW n \in Nat, NEW top, NEW r
  PROVE  /\ IsFiniteSet(Below(n, top, r))
         /\ Cardinality(Below(n, top, r)) \in Nat
         /\ Cardinality(Below(n, top, r)) <= n
<1>1. Below(n, top, r) \in SUBSET (1 .. n)
  BY DEF Below
<1>2. 1 \in Int /\ n \in Int
  OBVIOUS
<1>3. IsFiniteSet(1 .. n) /\ Cardinality(1 .. n) = IF 1 > n THEN 0 ELSE n - 1 + 1
  BY <1>2, FS_Interval
<1>4. Cardinality(1 .. n) = n
  BY <1>3
<1>. HIDE DEF Below
<1>5. /\ IsFiniteSet(Below(n, top, r))
      /\ Cardinality(Below(n, top, r)) <= Cardinality(1 .. n)
  BY <1>1, <1>3, FS_Subset
<1>. QED  BY <1>4, <1>5, FS_CardinalityType

(* One halving leaves the trees as they are and goes up, or is at the root. *)
LEMMA HalvesUpwards ==
  ASSUME NEW n \in Nat, NEW up, NEW top, NEW rank, Forest(n, up, top, rank),
         NEW i \in 1 .. n
  PROVE  LET h == Halve([parents |-> up, at |-> i])
         IN  /\ Forest(n, h.parents, top, rank)
             /\ h.at \in 1 .. n /\ top[h.at] = top[i]
             /\ top[i] = i => h.at = i
             /\ top[i] # i => rank[i] < rank[h.at]
<1>. DEFINE p == up[i]
            g == up[p]
            new == [up EXCEPT ![i] = g]
<1>1. Halve([parents |-> up, at |-> i]) = [parents |-> new, at |-> g]
  BY DEF Halve
<1>2. /\ up \in [1 .. n -> 1 .. n] /\ top \in [1 .. n -> 1 .. n]
      /\ rank \in [1 .. n -> Nat]
  BY DEF Forest
<1>3. /\ \A j \in 1 .. n : up[top[j]] = top[j] /\ top[up[j]] = top[j]
      /\ \A j \in 1 .. n : up[j] = j => top[j] = j
      /\ \A j \in 1 .. n : up[j] # j => rank[j] < rank[up[j]]
      /\ \A j \in 1 .. n : rank[j] < Cardinality(Below(n, top, top[j]))
  BY DEF Forest
<1>4. p \in 1 .. n /\ g \in 1 .. n /\ top[p] = top[i] /\ top[g] = top[i]
  BY <1>2, <1>3
<1>5. new \in [1 .. n -> 1 .. n] /\ new[i] = g
      /\ \A j \in 1 .. n : j # i => new[j] = up[j]
  BY <1>2, <1>4
<1>6. CASE top[i] = i
  <2>1. p = i /\ g = i
    BY <1>3, <1>6
  <2>2. new = up
    BY <1>2, <2>1
  <2>3. Forest(n, new, top, rank)
    BY <2>2
  <2>. QED  BY <1>1, <1>4, <1>6, <2>1, <2>3
<1>7. CASE top[i] # i
  <2>1. p # i /\ rank[i] < rank[p]
    BY <1>3, <1>7
  <2>2. rank[p] <= rank[g]
    <3>1. g = p \/ rank[p] < rank[g]
      BY <1>3, <1>4
    <3>2. rank[p] \in Nat /\ rank[g] \in Nat
      BY <1>2, <1>4
    <3>. HIDE DEF g, p
    <3>. QED  BY <3>1, <3>2
  <2>3. rank[i] < rank[g]
    BY <1>2, <1>4, <2>1, <2>2
  <2>4. g # i
    BY <1>2, <2>3
  <2>. HIDE DEF new, g, p
  <2>5. \A j \in 1 .. n : top[j] # i
    BY <1>3, <1>7
  <2>6. \A j \in 1 .. n : new[top[j]] = top[j] /\ top[new[j]] = top[j]
    <3>1. \A j \in 1 .. n : top[j] \in 1 .. n
      BY <1>2
    <3>2. \A j \in 1 .. n : new[top[j]] = top[j]
      BY <1>3, <1>5, <2>5, <3>1
    <3>3. \A j \in 1 .. n : top[new[j]] = top[j]
      BY <1>3, <1>4, <1>5
    <3>. QED  BY <3>2, <3>3
  <2>7. \A j \in 1 .. n : new[j] = j => top[j] = j
    BY <1>3, <1>5, <2>4
  <2>8. \A j \in 1 .. n : new[j] # j => rank[j] < rank[new[j]]
    BY <1>3, <1>5, <2>3
  <2>9. Forest(n, new, top, rank)
    BY <1>2, <1>3, <1>5, <2>6, <2>7, <2>8 DEF Forest
  <2>. QED  BY <1>1, <1>4, <1>7, <2>3, <2>9 DEF g, p
<1>. QED  BY <1>6, <1>7


(* Where find has come to after k turns.                                    *)
GoesUp(n, walk, k, i, top, rank) ==
  /\ Forest(n, walk.parents, top, rank)
  /\ walk.at \in 1 .. n /\ top[walk.at] = top[i]
  /\ walk.at = top[i] \/ rank[walk.at] >= k

LEMMA OneTurn ==
  ASSUME NEW n \in Nat, NEW walk \in [parents : [1 .. n -> 1 .. n], at : 1 .. n],
         NEW k \in Nat, NEW i \in 1 .. n, NEW top, NEW rank,
         GoesUp(n, walk, k, i, top, rank)
  PROVE  GoesUp(n, Halve(walk), k + 1, i, top, rank)
<1>. DEFINE here == walk.at
            h == Halve(walk)
<1>1. /\ Forest(n, walk.parents, top, rank)
      /\ here \in 1 .. n /\ top[here] = top[i]
      /\ here = top[i] \/ rank[here] >= k
  BY DEF GoesUp
<1>2. walk = [parents |-> walk.parents, at |-> here]
  OBVIOUS
<1>. HIDE DEF here
<1>3. /\ Forest(n, h.parents, top, rank)
      /\ h.at \in 1 .. n /\ top[h.at] = top[here]
      /\ top[here] = here => h.at = here
      /\ top[here] # here => rank[here] < rank[h.at]
  BY <1>1, <1>2, HalvesUpwards
<1>. HIDE DEF h
<1>4. rank \in [1 .. n -> Nat]
  BY <1>1 DEF Forest
<1>5. h.at = top[i] \/ rank[h.at] >= k + 1
  <2>1. CASE here = top[i]
    BY <1>1, <1>3, <2>1
  <2>2. CASE here # top[i]
    <3>1. rank[here] >= k /\ rank[here] < rank[h.at]
      BY <1>1, <1>3, <2>2
    <3>2. rank[here] \in Nat /\ rank[h.at] \in Nat
      BY <1>1, <1>3, <1>4
    <3>3. \A l, m \in Nat : l >= k /\ l < m => m >= k + 1
      OBVIOUS
    <3>. QED  BY <3>1, <3>2, <3>3
  <2>. QED  BY <2>1, <2>2
<1>. QED  BY <1>1, <1>3, <1>5 DEF GoesUp, h

(* find comes to the root in the turns it is given.                         *)
LEMMA FindsTop ==
  ASSUME NEW n \in Nat, NEW up, NEW top, NEW rank, Forest(n, up, top, rank),
         NEW i \in 1 .. n
  PROVE  Find(up, i).at = top[i] /\ Forest(n, Find(up, i).parents, top, rank)
<1>. DEFINE V == [parents : [1 .. n -> 1 .. n], at : 1 .. n]
            base == [parents |-> up, at |-> i]
            len == Len(up)
            Body(g) == [k \in 0 .. Len(up) |->
                          IF k = 0 THEN base ELSE Halve(g[k - 1])]
            walk == CHOOSE g : g = Body(g)
            step == [x \in V \X Int |-> Halve(x[1])]
<1>1. Find(up, i) = walk[len]
  BY DEF Find
<1>2. up \in [1 .. n -> 1 .. n] /\ len = n /\ base \in V
  <2>1. up \in [1 .. n -> 1 .. n]
    BY DEF Forest
  <2>. QED  BY <2>1, FunctionIsSeq
<1>3. step \in [V \X Int -> V]
  <2>1. ASSUME NEW x \in V PROVE Halve(x) \in V
    <3>1. x.at \in 1 .. n /\ x.parents \in [1 .. n -> 1 .. n]
      OBVIOUS
    <3>2. x.parents[x.parents[x.at]] \in 1 .. n
      BY <3>1
    <3>. QED  BY <3>1, <3>2 DEF Halve
  <2>2. \A x \in V \X Int : x[1] \in V
    OBVIOUS
  <2>. HIDE DEF V
  <2>. QED  BY <2>1, <2>2
<1>. HIDE DEF V
<1>4. PICK f : Steps(f, V, 0, n, base, step)
  <2>1. 0 \in Int /\ n \in Int /\ 0 <= n
    OBVIOUS
  <2>. HIDE DEF step, base, len
  <2>. QED  BY <1>2, <1>3, <2>1, StepsExist
<1>5. /\ f \in [0 .. n -> V] /\ f[0] = base
      /\ \A k \in 1 .. n : f[k] = step[<<f[k - 1], k>>]
  <2>1. 0 + 1 = 1
    OBVIOUS
  <2>. QED  BY <1>4, <2>1 DEF Steps
<1>6. ASSUME NEW k \in 1 .. n PROVE f[k] = Halve(f[k - 1])
  <2>1. k - 1 \in 0 .. n /\ k \in Int
    OBVIOUS
  <2>2. f[k - 1] \in V
    BY <1>5, <2>1
  <2>3. <<f[k - 1], k>> \in V \X Int
    BY <2>1, <2>2
  <2>. QED  BY <1>5, <2>3
<1>7. f = Body(f)
  <2>1. \A k \in 0 .. n : k = 0 \/ k \in 1 .. n
    OBVIOUS
  <2>2. f = [k \in 0 .. n |-> f[k]]
    BY <1>5
  <2>3. \A k \in 0 .. n : f[k] = IF k = 0 THEN base ELSE Halve(f[k - 1])
    <3>. HIDE DEF base
    <3>. QED  BY <1>5, <1>6, <2>1
  <2>. HIDE DEF base, len
  <2>. QED  BY <1>2, <2>2, <2>3 DEF len
<1>8. walk = Body(walk)
  <2>. HIDE DEF Body
  <2>. QED  BY <1>7
<1>. HIDE DEF walk, step
<1>9. /\ walk[0] = base
      /\ \A k \in 1 .. n : walk[k] = Halve(walk[k - 1])
  <2>1. Body(walk)[0] = base
    BY <1>2
  <2>2. \A k \in 1 .. n : Body(walk)[k] = Halve(walk[k - 1])
    <3>. HIDE DEF base
    <3>. QED  BY <1>2
  <2>. HIDE DEF Body
  <2>. QED  BY <1>8, <2>1, <2>2
<1>. HIDE DEF Body, len
<1>. DEFINE N == {k \in Nat : k <= n => /\ walk[k] \in V
                                        /\ GoesUp(n, walk[k], k, i, top, rank)}
<1>10. 0 \in N
  <2>1. rank \in [1 .. n -> Nat]
    BY DEF Forest
  <2>2. rank[i] >= 0
    BY <2>1
  <2>3. GoesUp(n, base, 0, i, top, rank)
    BY <2>2 DEF GoesUp
  <2>. QED  BY <1>2, <1>9, <2>3
<1>11. ASSUME NEW k \in Nat, k \in N PROVE k + 1 \in N
  <2>. SUFFICES ASSUME k + 1 <= n
                PROVE  /\ walk[k + 1] \in V
                       /\ GoesUp(n, walk[k + 1], k + 1, i, top, rank)
    OBVIOUS
  <2>1. k + 1 \in 1 .. n /\ (k + 1) - 1 = k /\ k <= n
    OBVIOUS
  <2>2. walk[k] \in V /\ GoesUp(n, walk[k], k, i, top, rank)
    BY <1>11, <2>1
  <2>3. walk[k + 1] = Halve(walk[k])
    BY <1>9, <2>1
  <2>4. Halve(walk[k]) \in V
    <3>1. <<walk[k], 0>> \in V \X Int
      BY <2>2
    <3>. QED  BY <1>3, <3>1 DEF step
  <2>5. GoesUp(n, Halve(walk[k]), k + 1, i, top, rank)
    BY <2>2, OneTurn DEF V
  <2>. QED  BY <2>3, <2>4, <2>5
<1>12. GoesUp(n, walk[n], n, i, top, rank)
  <2>1. \A k \in Nat : k \in N
    <3>. HIDE DEF N
    <3>. QED  BY <1>10, <1>11, NumberInduction
  <2>. QED  BY <2>1
<1>. DEFINE w == walk[n]
<1>13. /\ Forest(n, w.parents, top, rank) /\ w.at \in 1 .. n
       /\ w.at = top[i] \/ rank[w.at] >= n
  BY <1>12 DEF GoesUp
<1>14. ~ (rank[w.at] >= n)
  <2>. HIDE DEF w
  <2>1. rank[w.at] \in Nat /\ rank[w.at] < Cardinality(Below(n, top, top[w.at]))
    BY <1>13 DEF Forest
  <2>2. \A r : /\ Cardinality(Below(n, top, r)) \in Nat
               /\ Cardinality(Below(n, top, r)) <= n
    BY BelowIsFinite
  <2>. QED  BY <2>1, <2>2
<1>. QED  BY <1>1, <1>2, <1>13, <1>14


(* t joins the trees of a and b, and leaves the others apart.               *)
TreesJoined(n, top, t, a, b) ==
  \A i, j \in 1 .. n :
    t[i] = t[j] <=>
      \/ top[i] = top[j]
      \/ top[i] \in {top[a], top[b]} /\ top[j] \in {top[a], top[b]}

(* Hanging the root s under the root r joins their trees.                   *)
LEMMA Hangs ==
  ASSUME NEW n \in Nat, NEW up, NEW top, NEW rank, Forest(n, up, top, rank),
         NEW a \in 1 .. n, NEW b \in 1 .. n, top[a] # top[b]
  PROVE  \E t, higher :
           /\ Forest(n, [up EXCEPT ![top[b]] = top[a]], t, higher)
           /\ TreesJoined(n, top, t, a, b)
<1>. DEFINE r == top[a]
            s == top[b]
            new == [up EXCEPT ![s] = r]
            t == [i \in 1 .. n |-> IF top[i] = s THEN r ELSE top[i]]
            high == Greater(rank[r], rank[s] + 1)
            higher == [rank EXCEPT ![r] = high]
<1>1. /\ up \in [1 .. n -> 1 .. n] /\ top \in [1 .. n -> 1 .. n]
      /\ rank \in [1 .. n -> Nat]
      /\ r \in 1 .. n /\ s \in 1 .. n /\ r # s
  BY DEF Forest
<1>2. /\ \A j \in 1 .. n : up[top[j]] = top[j] /\ top[up[j]] = top[j]
      /\ \A j \in 1 .. n : up[j] = j => top[j] = j
      /\ \A j \in 1 .. n : up[j] # j => rank[j] < rank[up[j]]
      /\ \A j \in 1 .. n : rank[j] < Cardinality(Below(n, top, top[j]))
  BY DEF Forest
<1>3. up[r] = r /\ up[s] = s /\ top[r] = r /\ top[s] = s
  BY <1>1, <1>2
<1>4. /\ new \in [1 .. n -> 1 .. n] /\ new[s] = r
      /\ \A i \in 1 .. n : i # s => new[i] = up[i]
  BY <1>1
<1>5. /\ t \in [1 .. n -> 1 .. n]
      /\ \A i \in 1 .. n : t[i] = IF top[i] = s THEN r ELSE top[i]
  BY <1>1
<1>6. high \in Nat /\ rank[r] <= high /\ rank[s] < high
      /\ high \in {rank[r], rank[s] + 1}
  <2>1. rank[r] \in Nat /\ rank[s] \in Nat
    BY <1>1
  <2>. QED  BY <2>1 DEF Greater
<1>. HIDE DEF high
<1>7. /\ higher \in [1 .. n -> Nat] /\ higher[r] = high
      /\ \A i \in 1 .. n : i # r => higher[i] = rank[i]
  BY <1>1, <1>6
<1>. HIDE DEF new, t, higher, r, s
<1>8. \A i \in 1 .. n : new[t[i]] = t[i] /\ t[new[i]] = t[i]
  <2>. SUFFICES ASSUME NEW i \in 1 .. n
                PROVE  new[t[i]] = t[i] /\ t[new[i]] = t[i]
    OBVIOUS
  <2>1. top[i] \in 1 .. n /\ up[top[i]] = top[i] /\ top[up[i]] = top[i]
        /\ up[i] \in 1 .. n
    BY <1>1, <1>2
  <2>2. new[t[i]] = t[i]
    <3>1. CASE top[i] = s
      BY <1>1, <1>3, <1>4, <1>5, <3>1
    <3>2. CASE top[i] # s
      BY <1>4, <1>5, <2>1, <3>2
    <3>. QED  BY <3>1, <3>2
  <2>3. t[new[i]] = t[i]
    <3>1. CASE i = s
      BY <1>1, <1>3, <1>4, <1>5, <3>1
    <3>2. CASE i # s
      BY <1>4, <1>5, <2>1, <3>2
    <3>. QED  BY <3>1, <3>2
  <2>. QED  BY <2>2, <2>3
<1>9. \A i \in 1 .. n : new[i] = i => t[i] = i
  BY <1>1, <1>2, <1>4, <1>5
<1>10. ASSUME NEW i \in 1 .. n, new[i] # i PROVE higher[i] < higher[new[i]]
  <2>1. CASE i = s
    BY <1>1, <1>4, <1>6, <1>7, <2>1
  <2>2. CASE i # s
    <3>1. new[i] = up[i] /\ i # r
      BY <1>3, <1>4, <1>10, <2>2
    <3>2. rank[i] < rank[up[i]] /\ higher[i] = rank[i] /\ up[i] \in 1 .. n
      BY <1>1, <1>2, <1>7, <1>10, <3>1
    <3>3. rank[up[i]] <= higher[up[i]]
      <4>1. up[i] = r \/ higher[up[i]] = rank[up[i]]
        BY <1>7, <3>2
      <4>2. rank[up[i]] \in Nat
        BY <1>1, <3>2
      <4>. QED  BY <1>6, <1>7, <4>1, <4>2
    <3>4. rank[i] \in Nat /\ rank[up[i]] \in Nat /\ higher[up[i]] \in Nat
      BY <1>1, <1>7, <3>2
    <3>5. \A x, y, z \in Nat : x < y /\ y <= z => x < z
      OBVIOUS
    <3>. QED  BY <3>1, <3>2, <3>3, <3>4, <3>5
  <2>. QED  BY <2>1, <2>2
<1>. DEFINE below(x) == Below(n, top, x)
            new_below(x) == Below(n, t, x)
<1>11. /\ \A x : Cardinality(below(x)) \in Nat /\ IsFiniteSet(below(x))
       /\ \A x : Cardinality(new_below(x)) \in Nat
  BY BelowIsFinite
<1>12. Cardinality(new_below(r)) = Cardinality(below(r)) + Cardinality(below(s))
  <2>1. new_below(r) = below(r) \cup below(s) /\ below(r) \cap below(s) = {}
    BY <1>1, <1>5 DEF Below
  <2>. HIDE DEF below
  <2>2. Cardinality(below(r) \cup below(s)) =
          Cardinality(below(r)) + Cardinality(below(s))
            - Cardinality(below(r) \cap below(s))
    BY <1>11, FS_Union
  <2>3. Cardinality({}) = 0
    BY FS_EmptySet
  <2>4. Cardinality(below(r)) \in Nat /\ Cardinality(below(s)) \in Nat
    BY <1>11
  <2>5. Cardinality(below(r) \cap below(s)) = 0
    BY <2>1, <2>3
  <2>. DEFINE cr == Cardinality(below(r))
              cs == Cardinality(below(s))
  <2>6. cr + cs - 0 = cr + cs
    <3>. HIDE DEF cr, cs
    <3>. QED  BY <2>4 DEF cr, cs
  <2>. QED  BY <2>1, <2>2, <2>5, <2>6
<1>13. \A x : x \notin {r, s} => new_below(x) = below(x)
  BY <1>5 DEF Below
<1>. HIDE DEF below, new_below
<1>14. /\ rank[r] < Cardinality(below(r)) /\ rank[s] < Cardinality(below(s))
       /\ rank[r] \in Nat /\ rank[s] \in Nat
  BY <1>1, <1>2, <1>3 DEF below
<1>15. ASSUME NEW i \in 1 .. n PROVE higher[i] < Cardinality(new_below(t[i]))
  <2>1. /\ rank[i] < Cardinality(below(top[i]))
        /\ rank[i] \in Nat
    BY <1>1, <1>2 DEF below
  <2>. DEFINE cr == Cardinality(below(r))
              cs == Cardinality(below(s))
  <2>2. cr \in Nat /\ cs \in Nat /\ Cardinality(new_below(r)) = cr + cs
    BY <1>11, <1>12
  <2>3. CASE i = r
    <3>1. t[i] = r /\ higher[i] = high
      BY <1>1, <1>3, <1>5, <1>7, <2>3
    <3>2. high < cr + cs
      <4>1. rank[r] < cr /\ rank[s] < cs
        BY <1>14
      <4>. HIDE DEF cr, cs
      <4>2. rank[r] < cr + cs /\ rank[s] + 1 < cr + cs
        BY <1>14, <2>2, <4>1
      <4>. QED  BY <1>6, <4>2
    <3>. QED  BY <2>2, <3>1, <3>2
  <2>4. CASE i # r /\ top[i] \in {r, s}
    <3>1. t[i] = r /\ higher[i] = rank[i]
      BY <1>5, <1>7, <2>4
    <3>2. rank[i] < cr \/ rank[i] < cs
      BY <2>1, <2>4
    <3>. HIDE DEF cr, cs
    <3>3. rank[i] < cr + cs
      BY <2>1, <2>2, <3>2
    <3>. QED  BY <2>2, <3>1, <3>3
  <2>5. CASE i # r /\ top[i] \notin {r, s}
    <3>1. t[i] = top[i] /\ higher[i] = rank[i]
      BY <1>5, <1>7, <2>5
    <3>2. new_below(t[i]) = below(top[i])
      BY <1>13, <2>5, <3>1
    <3>. QED  BY <2>1, <3>1, <3>2
  <2>. QED  BY <2>3, <2>4, <2>5
<1>16. Forest(n, new, t, higher)
  BY <1>4, <1>5, <1>7, <1>8, <1>9, <1>10, <1>15 DEF Forest, new_below
<1>17. TreesJoined(n, top, t, a, b)
  BY <1>1, <1>5 DEF TreesJoined, r, s
<1>. QED  BY <1>16, <1>17 DEF new, r, s

(* union joins the trees of the two regions and no others.                  *)
LEMMA UnionJoins ==
  ASSUME NEW n \in Nat, NEW up, NEW top, NEW rank, Forest(n, up, top, rank),
         NEW a \in 1 .. n, NEW b \in 1 .. n
  PROVE  \E t, higher : /\ Forest(n, Union(up, a, b), t, higher)
                        /\ TreesJoined(n, top, t, a, b)
<1>. DEFINE one == Find(up, a)
            two == Find(one.parents, b)
<1>1. one.at = top[a] /\ Forest(n, one.parents, top, rank)
  BY FindsTop
<1>2. two.at = top[b] /\ Forest(n, two.parents, top, rank)
  BY <1>1, FindsTop
<1>3. Union(up, a, b) = IF one.at = two.at THEN two.parents
                        ELSE [two.parents EXCEPT ![two.at] = one.at]
  BY DEF Union
<1>. HIDE DEF one, two
<1>4. CASE top[a] = top[b]
  <2>1. TreesJoined(n, top, top, a, b)
    BY <1>4 DEF TreesJoined
  <2>. QED  BY <1>1, <1>2, <1>3, <1>4, <2>1
<1>5. CASE top[a] # top[b]
  <2>1. Union(up, a, b) = [two.parents EXCEPT ![top[b]] = top[a]]
    BY <1>1, <1>2, <1>3, <1>5
  <2>2. \E t, higher :
          /\ Forest(n, [two.parents EXCEPT ![top[b]] = top[a]], t, higher)
          /\ TreesJoined(n, top, t, a, b)
    BY <1>2, <1>5, Hangs
  <2>. QED  BY <2>1, <2>2
<1>. QED  BY <1>4, <1>5


-----------------------------------------------------------------------------
(* Merging.                                                                 *)

(* The regions of a group make one around them all.                         *)
LEMMA GroupMerged ==
  ASSUME NEW group \in Seq(Region), group # <<>>,
         \A k \in DOMAIN group : Proper(group[k].box)
  PROVE  LET r == MergeRegionGroup(group)
         IN  /\ r \in Region /\ Proper(r.box)
             /\ \A m \in DOMAIN group : Inside(group[m].box, r.box)
<1>. DEFINE key == [k \in DOMAIN group |-> <<group[k].id>>]
            some == Sorted(group, key)
            numbers == {some[k].block : k \in DOMAIN some}
            least == CHOOSE b \in numbers : \A c \in numbers : b <= c
            all == [k \in DOMAIN some |-> some[k].box]
            probes == [k \in DOMAIN some |-> some[k].probe]
            h == Hull(all)
            r == MergeRegionGroup(group)
<1>1. r = [id |-> 0, block |-> least, box |-> h, probe |-> Flat(probes)]
  BY DEF MergeRegionGroup
<1>2. \A k \in DOMAIN group : group[k] \in Region /\ group[k].id \in Int
  BY SeqFacts, RegionFields
<1>3. key \in [DOMAIN group -> Keys(1)]
  BY <1>2, SingleKey
<1>. HIDE DEF key
<1>4. some \in Seq(Region) /\ Len(some) = Len(group) /\ SameElements(some, group)
  BY <1>3, SortedSame
<1>. HIDE DEF some
<1>5. /\ DOMAIN some = 1 .. Len(some) /\ Len(some) \in Nat \ {0}
      /\ \A k \in DOMAIN some : some[k] \in Region
  BY <1>4, SeqFacts
<1>6. \A k \in DOMAIN some :
        /\ some[k].block \in Nat /\ some[k].box \in Box
        /\ some[k].probe \in Seq(STRING) /\ Proper(some[k].box)
  BY <1>4, <1>5, RegionFields DEF SameElements
<1>7. least \in Nat
  <2>1. numbers \in SUBSET Nat /\ numbers # {}
    <3>1. 1 \in DOMAIN some
      BY <1>5
    <3>2. some[1].block \in numbers
      BY <3>1
    <3>3. numbers \in SUBSET Nat
      BY <1>6
    <3>. HIDE DEF numbers
    <3>. QED  BY <3>2, <3>3
  <2>2. \E m \in numbers : \A y \in numbers : m <= y
    <3>. HIDE DEF numbers
    <3>. QED  BY <2>1, LeastNatural
  <2>3. least \in numbers
    <3>. HIDE DEF numbers
    <3>. QED  BY <2>2
  <2>. QED  BY <2>1, <2>3
<1>8. all \in Seq(Box) /\ Len(all) = Len(some) /\ DOMAIN all = DOMAIN some
  <2>1. all \in [1 .. Len(some) -> Box]
    BY <1>5, <1>6
  <2>. HIDE DEF all
  <2>. QED  BY <1>5, <2>1, FunctionIsSeq
<1>9. \A k \in DOMAIN some : all[k] = some[k].box
  OBVIOUS
<1>10. probes \in Seq(Seq(STRING))
  <2>1. probes \in [1 .. Len(some) -> Seq(STRING)]
    BY <1>5, <1>6
  <2>. HIDE DEF probes
  <2>. QED  BY <1>5, <2>1, FunctionIsSeq
<1>. HIDE DEF all, probes, h, least
<1>11. IsHull(h, all, Len(some))
  <2>1. all # <<>>
    BY <1>5, <1>8, SeqFacts
  <2>. QED  BY <1>8, <2>1, HullIsHull DEF h
<1>12. /\ h \in Box /\ Proper(h)
       /\ \A k \in DOMAIN some : Inside(some[k].box, h)
  BY <1>5, <1>6, <1>9, <1>11 DEF IsHull
<1>13. Flat(probes) \in Seq(STRING)
  BY <1>10, FlatPlaces
<1>. HIDE DEF r
<1>14. r \in Region /\ r.box = h
  BY <1>1, <1>7, <1>12, <1>13 DEF Region
<1>15. \A m \in DOMAIN group : Inside(group[m].box, h)
  BY <1>4, <1>12 DEF SameElements
<1>. QED  BY <1>12, <1>14, <1>15 DEF r

(* Every box of some lies inside one of others.                             *)
Inner(some, others) ==
  \A k \in DOMAIN some : \E l \in DOMAIN others :
    Inside(some[k].box, others[l].box)

(* Merging takes every region into one.                                     *)
LEMMA MergesAll ==
  ASSUME NEW some, Numbered(some), NEW up, NEW top, NEW rank,
         Forest(Len(some), up, top, rank), NEW way
  PROVE  /\ Numbered(MergedRegions(some, up, way))
         /\ Inner(some, MergedRegions(some, up, way))
<1>. DEFINE n == Len(some)
            places == [k \in DOMAIN some |-> Root(up, k)]
            roots == Once(places)
            Those(g) == {r \in ToSet(some) : Root(up, r.id) = roots[g]}
            Of(g) == Only(some, Those(g))
            groups == [g \in DOMAIN roots |-> Of(g)]
            merged == [g \in DOMAIN groups |-> MergeRegionGroup(groups[g])]
            rows == InRows(merged, way)
<1>1. MergedRegions(some, up, way) = rows
  BY DEF MergedRegions, Groups
<1>2. /\ some \in Seq(Region) /\ DOMAIN some = 1 .. n /\ n \in Nat
      /\ \A k \in DOMAIN some : /\ some[k] \in Region /\ some[k].id = k
                                /\ Proper(some[k].box) /\ some[k].box \in Box
                                /\ some[k] \in ToSet(some)
  BY SeqFacts, RegionFields DEF Numbered, ToSet
<1>3. top \in [1 .. n -> 1 .. n]
  BY DEF Forest
<1>4. \A k \in DOMAIN some : Root(up, k) = top[k]
  BY <1>2, FindsTop DEF Root
<1>5. places \in Seq(1 .. n) /\ DOMAIN places = DOMAIN some
  <2>1. places \in [1 .. n -> 1 .. n]
    <3>. HIDE DEF n
    <3>. QED  BY <1>2, <1>3, <1>4
  <2>. HIDE DEF places
  <2>. QED  BY <1>2, <2>1, FunctionIsSeq
<1>6. \A k \in DOMAIN some : places[k] = Root(up, k)
  OBVIOUS
<1>. HIDE DEF places
<1>7. /\ roots \in Seq(1 .. n)
      /\ \A m \in DOMAIN roots : \E k \in DOMAIN some : roots[m] = Root(up, k)
      /\ \A k \in DOMAIN some : \E m \in DOMAIN roots : roots[m] = Root(up, k)
  <2>1. /\ roots \in Seq(1 .. n)
        /\ \A m \in DOMAIN roots : \E k \in DOMAIN places : roots[m] = places[k]
        /\ \A k \in DOMAIN places : \E m \in DOMAIN roots : roots[m] = places[k]
    BY <1>5, OnceEach
  <2>. HIDE DEF roots
  <2>. QED  BY <1>5, <1>6, <2>1
<1>. HIDE DEF roots
<1>8. DOMAIN roots = 1 .. Len(roots) /\ Len(roots) \in Nat
  BY <1>7, SeqFacts
<1>9. \A g \in DOMAIN roots :
        /\ Of(g) \in Seq(Region)
        /\ \A m \in DOMAIN Of(g) : \E k \in DOMAIN some : Of(g)[m] = some[k]
        /\ \A k \in DOMAIN some : some[k] \in Those(g) =>
             \E m \in DOMAIN Of(g) : Of(g)[m] = some[k]
  <2>. SUFFICES ASSUME NEW g \in DOMAIN roots
                PROVE  /\ Of(g) \in Seq(Region)
                       /\ \A m \in DOMAIN Of(g) :
                            \E k \in DOMAIN some : Of(g)[m] = some[k]
                       /\ \A k \in DOMAIN some : some[k] \in Those(g) =>
                            \E m \in DOMAIN Of(g) : Of(g)[m] = some[k]
    OBVIOUS
  <2>. DEFINE those == Those(g)
  <2>. HIDE DEF those
  <2>0. /\ Only(some, those) \in Seq(Region)
        /\ \A m \in DOMAIN Only(some, those) :
             /\ Only(some, those)[m] \in those
             /\ \E k \in DOMAIN some : Only(some, those)[m] = some[k]
        /\ \A k \in DOMAIN some : some[k] \in those =>
             \E m \in DOMAIN Only(some, those) : Only(some, those)[m] = some[k]
    <3>1. some \in Seq(Region)
      BY <1>2
    <3>. HIDE DEF n, Of
    <3>. QED  BY <3>1, OnlySome
  <2>. HIDE DEF Those
  <2>1. /\ Of(g) \in Seq(Region)
        /\ \A m \in DOMAIN Of(g) :
             Of(g)[m] \in Those(g) /\ \E k \in DOMAIN some : Of(g)[m] = some[k]
        /\ \A k \in DOMAIN some : some[k] \in Those(g) =>
             \E m \in DOMAIN Of(g) : Of(g)[m] = some[k]
    BY <2>0 DEF those
  <2>. HIDE DEF Of
  <2>. QED  BY <2>1
<1>10. \A g \in DOMAIN roots : \A k \in DOMAIN some :
         roots[g] = Root(up, k) => \E m \in DOMAIN Of(g) : Of(g)[m] = some[k]
  <2>1. \A g \in DOMAIN roots : \A k \in DOMAIN some :
          roots[g] = Root(up, k) => some[k] \in Those(g)
    BY <1>2
  <2>. HIDE DEF Those, Of
  <2>. QED  BY <1>9, <2>1
<1>. HIDE DEF Those, Of
<1>11. \A g \in DOMAIN roots :
         Of(g) # <<>> /\ \A m \in DOMAIN Of(g) : Proper(Of(g)[m].box)
  <2>1. \A m \in DOMAIN <<>> : FALSE
    OBVIOUS
  <2>2. \A g \in DOMAIN roots : Of(g) # <<>>
    BY <1>7, <1>10, <2>1
  <2>. QED  BY <1>2, <1>9, <2>2
<1>12. \A g \in DOMAIN roots :
         /\ merged[g] \in Region /\ Proper(merged[g].box)
         /\ \A m \in DOMAIN Of(g) : Inside(Of(g)[m].box, merged[g].box)
  <2>. SUFFICES ASSUME NEW g \in DOMAIN roots
                PROVE  /\ merged[g] \in Region /\ Proper(merged[g].box)
                       /\ \A m \in DOMAIN Of(g) :
                            Inside(Of(g)[m].box, merged[g].box)
    OBVIOUS
  <2>1. merged[g] = MergeRegionGroup(Of(g))
    OBVIOUS
  <2>2. /\ Of(g) \in Seq(Region) /\ Of(g) # <<>>
        /\ \A m \in DOMAIN Of(g) : Proper(Of(g)[m].box)
    BY <1>9, <1>11
  <2>. HIDE DEF merged
  <2>. QED  BY <2>1, <2>2, GroupMerged
<1>13. merged \in Seq(Region) /\ DOMAIN merged = DOMAIN roots
  <2>1. DOMAIN merged = DOMAIN roots
    OBVIOUS
  <2>2. merged \in [1 .. Len(roots) -> Region]
    <3>1. merged = [g \in DOMAIN merged |-> merged[g]]
      OBVIOUS
    <3>. HIDE DEF merged
    <3>. QED  BY <1>8, <1>12, <2>1, <3>1
  <2>. HIDE DEF merged
  <2>. QED  BY <1>8, <2>2, FunctionIsSeq
<1>. HIDE DEF merged, groups
<1>14. Numbered(rows) /\ SameBoxes(rows, merged)
  BY <1>12, <1>13, InRowsNumbers
<1>. HIDE DEF rows
<1>15. ASSUME NEW k \in DOMAIN some
       PROVE  \E l \in DOMAIN rows : Inside(some[k].box, rows[l].box)
  <2>1. PICK g \in DOMAIN roots : roots[g] = Root(up, k)
    BY <1>7
  <2>2. PICK m \in DOMAIN Of(g) : Of(g)[m] = some[k]
    BY <1>10, <2>1
  <2>3. Inside(some[k].box, merged[g].box)
    BY <1>12, <2>2
  <2>4. PICK l \in DOMAIN rows : rows[l].box = merged[g].box
    BY <1>13, <1>14 DEF SameBoxes
  <2>. QED  BY <2>3, <2>4
<1>16. Inner(some, rows)
  BY <1>15 DEF Inner
<1>. QED  BY <1>1, <1>14, <1>16


-----------------------------------------------------------------------------
(* The boxes to read.                                                       *)

ProperBoxes(some) ==
  some \in Seq(Box) /\ \A k \in DOMAIN some : Proper(some[k])

(* b lies in one of some.                                                   *)
Held(b, some) == \E k \in DOMAIN some : Inside(b, some[k])

LEMMA ExpandsAll ==
  ASSUME NEW some, Numbered(some)
  PROVE  LET all == [k \in DOMAIN Expanded(some) |-> Expanded(some)[k].box]
         IN  /\ ProperBoxes(all)
             /\ \A k \in DOMAIN some : Held(some[k].box, all)
<1>. DEFINE all == [k \in DOMAIN Expanded(some) |-> Expanded(some)[k].box]
            v == VerticalPadding
<1>1. /\ DOMAIN some = 1 .. Len(some) /\ Len(some) \in Nat
      /\ \A k \in DOMAIN some :
           some[k] \in Region /\ Proper(some[k].box) /\ some[k].box \in Box
  BY SeqFacts, RegionFields DEF Numbered
<1>2. v \in Nat
  <2>1. RoundHalfEven(25 * HEIGHT, 1000) \in Int
    BY PageIsNat, RoundedIsInt
  <2>. QED  BY <2>1 DEF VerticalPadding, Greater
<1>. HIDE DEF v
<1>3. /\ DOMAIN all = DOMAIN some
      /\ \A k \in DOMAIN some : all[k] = Padded(some[k].box, 0, v, 0, v)
  <2>1. DOMAIN Expanded(some) = DOMAIN some
    BY DEF Expanded
  <2>2. \A k \in DOMAIN some :
          Expanded(some)[k] =
            [some[k] EXCEPT !.box = Padded(some[k].box, 0, v, 0, v)]
    BY DEF Expanded, v
  <2>3. \A k \in DOMAIN some :
          Expanded(some)[k].box = Padded(some[k].box, 0, v, 0, v)
    BY <1>1, <2>2 DEF Region
  <2>. QED  BY <2>1, <2>3
<1>. HIDE DEF all
<1>4. \A k \in DOMAIN some :
        all[k] \in Box /\ Proper(all[k]) /\ Inside(some[k].box, all[k])
  BY <1>1, <1>2, <1>3, PaddedBox
<1>5. all \in Seq(Box)
  <2>1. all \in [1 .. Len(some) -> Box]
    <3>1. all = [k \in DOMAIN all |-> all[k]]
      BY DEF all
    <3>. QED  BY <1>1, <1>3, <1>4, <3>1
  <2>. QED  BY <1>1, <2>1, FunctionIsSeq
<1>6. ProperBoxes(all) /\ \A k \in DOMAIN some : Held(some[k].box, all)
  BY <1>3, <1>4, <1>5 DEF ProperBoxes, Held
<1>. QED  BY <1>6 DEF all

(* Clamping and merging duplicates leave every box within one.              *)
LEMMA SanitizedHolds ==
  ASSUME NEW valid, ProperBoxes(valid), NEW raw \in Box, Proper(raw)
  PROVE  /\ ProperBoxes(Sanitized(valid, raw))
         /\ Held(raw, Sanitized(valid, raw))
         /\ \A b \in Box : Held(b, valid) => Held(b, Sanitized(valid, raw))
<1>. DEFINE like == {k \in DOMAIN valid : Duplicates(valid[k], raw)}
            first == CHOOSE k \in like : \A l \in like : k <= l
            new == Sanitized(valid, raw)
<1>1. new = IF like = {} THEN Append(valid, raw)
            ELSE [valid EXCEPT ![first] = Around(valid[first], raw)]
  <2>1. Clamped(raw) = raw
    BY ClampedBox
  <2>. QED  BY <2>1 DEF Sanitized
<1>2. /\ valid \in Seq(Box) /\ DOMAIN valid = 1 .. Len(valid) /\ Len(valid) \in Nat
      /\ \A k \in DOMAIN valid : valid[k] \in Box /\ Proper(valid[k])
  BY SeqFacts DEF ProperBoxes
<1>. HIDE DEF new
<1>3. CASE like = {}
  <2>1. /\ new \in Seq(Box) /\ DOMAIN new = 1 .. Len(valid) + 1
        /\ \A k \in DOMAIN valid : new[k] = valid[k]
        /\ new[Len(valid) + 1] = raw
    BY <1>1, <1>2, <1>3, OneMore
  <2>2. /\ \A k \in DOMAIN new : k \in DOMAIN valid \/ k = Len(valid) + 1
        /\ \A k \in DOMAIN valid : k \in DOMAIN new
        /\ Len(valid) + 1 \in DOMAIN new
    BY <1>2, <2>1
  <2>3. ProperBoxes(new)
    BY <1>2, <2>1, <2>2 DEF ProperBoxes
  <2>4. Held(raw, new)
    BY <2>1, <2>2, InsideItself DEF Held
  <2>5. \A b \in Box : Held(b, valid) => Held(b, new)
    BY <2>1, <2>2 DEF Held
  <2>. QED  BY <2>3, <2>4, <2>5 DEF new
<1>4. CASE like # {}
  <2>1. first \in DOMAIN valid
    <3>1. like \in SUBSET Nat
      BY <1>2
    <3>2. \E m \in like : \A y \in like : m <= y
      <4>. HIDE DEF like
      <4>. QED  BY <1>4, <3>1, LeastNatural
    <3>3. first \in like
      <4>. HIDE DEF like
      <4>. QED  BY <3>2
    <3>. QED  BY <3>3
  <2>. DEFINE around == Around(valid[first], raw)
  <2>. HIDE DEF like, first
  <2>2. /\ around \in Box /\ Proper(around)
        /\ Inside(valid[first], around) /\ Inside(raw, around)
    BY <1>2, <2>1, AroundBoth
  <2>3. new = [valid EXCEPT ![first] = around]
    BY <1>1, <1>4
  <2>. HIDE DEF around
  <2>4. /\ DOMAIN new = DOMAIN valid /\ new[first] = around
        /\ \A k \in DOMAIN valid : k # first => new[k] = valid[k]
    BY <2>1, <2>3
  <2>5. new \in Seq(Box)
    <3>1. valid \in [1 .. Len(valid) -> Box]
      BY <1>2, SeqFacts
    <3>2. new \in [1 .. Len(valid) -> Box]
      BY <2>2, <2>3, <3>1
    <3>. QED  BY <1>2, <3>2, FunctionIsSeq
  <2>6. ProperBoxes(new)
    BY <1>2, <2>2, <2>4, <2>5 DEF ProperBoxes
  <2>7. Held(raw, new)
    BY <2>1, <2>2, <2>4 DEF Held
  <2>8. ASSUME NEW b \in Box, Held(b, valid) PROVE Held(b, new)
    <3>1. PICK k \in DOMAIN valid : Inside(b, valid[k])
      BY <2>8 DEF Held
    <3>2. Inside(b, new[k])
      <4>1. CASE k = first
        BY <1>2, <2>1, <2>2, <2>4, <3>1, <4>1, InsideOfInside
      <4>2. CASE k # first
        BY <2>4, <3>1, <4>2
      <4>. QED  BY <4>1, <4>2
    <3>. QED  BY <2>4, <3>2 DEF Held
  <2>. QED  BY <2>6, <2>7, <2>8 DEF new
<1>. QED  BY <1>3, <1>4

LEMMA SameAreHeld ==
  ASSUME NEW some, NEW others, ProperBoxes(some), others \in Seq(Box),
         SameElements(others, some)
  PROVE  /\ ProperBoxes(others)
         /\ \A b \in Box : Held(b, some) => Held(b, others)
<1>1. ProperBoxes(others)
  BY DEF ProperBoxes, SameElements
<1>2. \A b \in Box : Held(b, some) => Held(b, others)
  BY DEF Held, SameElements
<1>. QED  BY <1>1, <1>2

LEMMA DistinctSame ==
  ASSUME NEW some \in Seq(Box)
  PROVE  Distinct(some) \in Seq(Box) /\ SameElements(Distinct(some), some)
<1>. DEFINE once == Once(some)
            key == [k \in DOMAIN once |->
                      <<once[k].top, once[k].left, once[k].right,
                        once[k].bottom>>]
            t == Sorted(once, key)
<1>1. Distinct(some) = t
  BY DEF Distinct
<1>2. /\ once \in Seq(Box)
      /\ \A m \in DOMAIN once : \E k \in DOMAIN some : once[m] = some[k]
      /\ \A k \in DOMAIN some : \E m \in DOMAIN once : once[m] = some[k]
  BY OnceEach
<1>. HIDE DEF once
<1>3. key \in [DOMAIN once -> Keys(4)]
  <2>1. \A k \in DOMAIN once :
          /\ once[k].top \in Int /\ once[k].left \in Int
          /\ once[k].right \in Int /\ once[k].bottom \in Int
    BY <1>2, SeqFacts, BoxFields
  <2>. QED  BY <2>1, FourKeys
<1>. HIDE DEF key
<1>4. t \in Seq(Box) /\ SameElements(t, once)
  BY <1>2, <1>3, SortedSame
<1>. HIDE DEF t
<1>5. SameElements(t, some)
  BY <1>2, <1>4 DEF SameElements
<1>. QED  BY <1>1, <1>4, <1>5


-----------------------------------------------------------------------------
(* Columns.                                                                 *)

LEMMA SharesWidth ==
  ASSUME NEW a \in Box, Proper(a), NEW b \in Box, Proper(b)
  PROVE  /\ HorizontalOverlap(a, b) \in Nat
         /\ HorizontalOverlap(a, b) > 0 <=> a.left < b.right /\ b.left < a.right
         /\ SameColumn(a, b) => HorizontalOverlap(a, b) > 0
         /\ SameColumn(a, b) <=> SameColumn(b, a)
         /\ SameColumn(a, a)
<1>1. /\ a.left \in Int /\ a.right \in Int /\ b.left \in Int /\ b.right \in Int
      /\ a.left < a.right /\ b.left < b.right
      /\ Width(a) \in Nat \ {0} /\ Width(b) \in Nat \ {0}
  BY BoxFields, ProperFields
<1>2. HorizontalOverlap(a, b) \in Nat
  BY <1>1 DEF HorizontalOverlap, Lesser, Greater
<1>3. HorizontalOverlap(a, b) > 0 <=> a.left < b.right /\ b.left < a.right
  BY <1>1 DEF HorizontalOverlap, Lesser, Greater
<1>4. SameColumn(a, b) => HorizontalOverlap(a, b) > 0
  <2>1. Greater(1, Lesser(Width(a), Width(b))) >= 1
    BY <1>1 DEF Greater, Lesser
  <2>2. Greater(1, Lesser(Width(a), Width(b))) \in Int
    BY <1>1 DEF Greater, Lesser
  <2>3. \A o \in Nat, g \in Int : g >= 1 /\ 4 * o >= g => o > 0
    OBVIOUS
  <2>. QED  BY <1>2, <2>1, <2>2, <2>3 DEF SameColumn
<1>5. SameColumn(a, b) <=> SameColumn(b, a)
  BY OverlapsBothWays, Zenon DEF SameColumn
<1>6. SameColumn(a, a)
  <2>1. HorizontalOverlap(a, a) = Width(a)
    BY <1>1 DEF HorizontalOverlap, Width, Lesser, Greater
  <2>2. Greater(1, Lesser(Width(a), Width(a))) = Width(a)
    BY <1>1 DEF Greater, Lesser
  <2>3. \A w \in Nat : 4 * w >= w
    OBVIOUS
  <2>. QED  BY <1>1, <2>1, <2>2, <2>3 DEF SameColumn
<1>. QED  BY <1>2, <1>3, <1>4, <1>5, <1>6

(* A box next to the leftmost e of a column that goes from left to right.   *)
LEMMA NextToColumn ==
  ASSUME NEW left \in Int, NEW right \in Int, NEW e \in Int,
         NEW l \in Int, NEW r \in Int,
         left < e, e <= right, left <= l, l < r,
         4 * Greater(0, Lesser(e, r) - l)
           >= Greater(1, Lesser(e - left, r - l))
  PROVE  4 * Greater(0, Lesser(right, r) - l)
           >= Greater(1, Lesser(right - left, r - l))
BY DEF Greater, Lesser

(* Every box of the column shares a quarter of its width with b.            *)
Fits(column, b) == \A m \in DOMAIN column : SameColumn(column[m], b)

Misses(column, b) == \A m \in DOMAIN column : HorizontalOverlap(column[m], b) = 0

(* Comparing a box with the extent of a column is as good as comparing it    *)
(* with each box of the column, when boxes come from left to right.         *)
LEMMA ColumnIsItsBoxes ==
  ASSUME NEW column, ProperBoxes(column), column # <<>>,
         NEW b \in Box, Proper(b),
         \A m \in DOMAIN column : column[m].left <= b.left,
         \A m \in DOMAIN column :
           SameColumn(column[m], b) \/ HorizontalOverlap(column[m], b) = 0,
         \A m \in DOMAIN column : SameColumn(column[m], b) => Fits(column, b)
  PROVE  /\ InColumn(column, b) => Fits(column, b)
         /\ ~InColumn(column, b) => Misses(column, b)
<1>. DEFINE h == Hull(column)
<1>1. /\ column \in Seq(Box) /\ DOMAIN column = 1 .. Len(column)
      /\ \A m \in DOMAIN column : column[m] \in Box /\ Proper(column[m])
  BY SeqFacts DEF ProperBoxes
<1>2. IsHull(h, column, Len(column))
  BY <1>1, HullIsHull
<1>. HIDE DEF h
<1>3. h \in Box /\ \A m \in DOMAIN column : Inside(column[m], h)
  BY <1>1, <1>2 DEF IsHull
<1>4. PICK x \in DOMAIN column : h.left = column[x].left
  BY <1>1, <1>2 DEF IsHull
<1>5. PICK y \in DOMAIN column : h.right = column[y].right
  BY <1>1, <1>2 DEF IsHull
<1>. DEFINE e == column[x].right
            f == column[y].left
            l == b.left
            r == b.right
<1>6. /\ h.left \in Int /\ h.right \in Int /\ e \in Int /\ f \in Int
      /\ l \in Int /\ r \in Int
      /\ h.left < e /\ e <= h.right /\ h.left <= l /\ l < r
      /\ f <= l
  <2>1. column[x] \in Box /\ Proper(column[x]) /\ column[y] \in Box
    BY <1>1, <1>4, <1>5
  <2>2. h.left \in Int /\ h.right \in Int /\ l \in Int /\ r \in Int
    BY <1>3, BoxFields
  <2>3. e \in Int /\ f \in Int
    BY <2>1, BoxFields
  <2>4. h.left < e /\ l < r
    BY <1>4, <2>1, ProperFields
  <2>5. e <= h.right
    BY <1>3, <1>4 DEF Inside
  <2>6. h.left <= l /\ f <= l
    BY <1>4, <1>5
  <2>. QED  BY <2>2, <2>3, <2>4, <2>5, <2>6
<1>7. HorizontalOverlap(h, b) = Greater(0, Lesser(h.right, r) - l)
  BY <1>6 DEF HorizontalOverlap, Greater
<1>8. HorizontalOverlap(column[x], b) = Greater(0, Lesser(e, r) - l)
  BY <1>4, <1>6 DEF HorizontalOverlap, Greater
<1>9. HorizontalOverlap(column[y], b) = Greater(0, Lesser(h.right, r) - l)
  BY <1>5, <1>6 DEF HorizontalOverlap, Greater
<1>10. /\ Width(h) = h.right - h.left /\ Width(b) = r - l
       /\ Width(column[x]) = e - h.left
  BY <1>4 DEF Width
<1>11. InColumn(column, b) <=>
         4 * Greater(0, Lesser(h.right, r) - l)
           >= Greater(1, Lesser(h.right - h.left, r - l))
  BY <1>7, <1>10 DEF InColumn, h
<1>. HIDE DEF e, f, l, r
<1>12. ASSUME InColumn(column, b) PROVE Fits(column, b)
  <2>. DEFINE o == Greater(0, Lesser(h.right, r) - l)
              g == Greater(1, Lesser(h.right - h.left, r - l))
  <2>1. o \in Int /\ g \in Int /\ g >= 1
    BY <1>6 DEF Greater, Lesser
  <2>2. 4 * o >= g
    BY <1>11, <1>12
  <2>. HIDE DEF o, g
  <2>3. o # 0
    BY <2>1, <2>2
  <2>4. SameColumn(column[y], b)
    BY <1>5, <1>9, <2>3 DEF o
  <2>. QED  BY <1>5, <2>4
<1>13. ASSUME ~InColumn(column, b) PROVE Misses(column, b)
  <2>. SUFFICES ASSUME NEW m \in DOMAIN column, SameColumn(column[m], b)
                PROVE  FALSE
    BY DEF Misses
  <2>1. SameColumn(column[x], b)
    BY <1>4 DEF Fits
  <2>2. 4 * Greater(0, Lesser(e, r) - l)
          >= Greater(1, Lesser(e - h.left, r - l))
    BY <1>8, <1>10, <2>1 DEF SameColumn
  <2>3. 4 * Greater(0, Lesser(h.right, r) - l)
           >= Greater(1, Lesser(h.right - h.left, r - l))
    BY <1>6, <2>2, NextToColumn
  <2>. QED  BY <1>11, <1>13, <2>3
<1>. QED  BY <1>12, <1>13

(* In new the column first has taken b.                                     *)
Takes(columns, new, b, first) ==
  /\ new \in Seq(Seq(Box)) /\ first \in DOMAIN new
  /\ DOMAIN new = DOMAIN columns \cup {first}
  /\ IF first \in DOMAIN columns THEN InColumn(columns[first], b)
     ELSE \A c \in DOMAIN columns : ~InColumn(columns[c], b)
  /\ new[first] =
       Append(IF first \in DOMAIN columns THEN columns[first] ELSE <<>>, b)
  /\ \A c \in DOMAIN columns : c # first => new[c] = columns[c]

LEMMA JoinedTakes ==
  ASSUME NEW columns \in Seq(Seq(Box)), NEW b \in Box
  PROVE  \E first : Takes(columns, Joined(columns, b), b, first)
<1>. DEFINE fit == {c \in DOMAIN columns : InColumn(columns[c], b)}
            first == CHOOSE c \in fit : \A d \in fit : c <= d
            new == Joined(columns, b)
            n == Len(columns)
<1>1. new = IF fit = {} THEN Append(columns, <<b>>)
            ELSE [columns EXCEPT ![first] = Append(columns[first], b)]
  BY DEF Joined
<1>2. /\ DOMAIN columns = 1 .. n /\ n \in Nat
      /\ \A c \in DOMAIN columns : columns[c] \in Seq(Box)
      /\ columns \in [1 .. n -> Seq(Box)]
  BY SeqFacts
<1>. HIDE DEF new
<1>3. CASE fit = {}
  <2>1. <<b>> \in Seq(Box) /\ Append(<<>>, b) = <<b>>
    OBVIOUS
  <2>2. /\ new \in Seq(Seq(Box)) /\ DOMAIN new = 1 .. n + 1
        /\ \A c \in 1 .. n : new[c] = columns[c]
        /\ new[n + 1] = <<b>>
    BY <1>1, <1>3, <2>1, OneMore
  <2>3. /\ n + 1 \in 1 .. n + 1 /\ n + 1 \notin 1 .. n
        /\ 1 .. n + 1 = (1 .. n) \cup {n + 1}
    BY <1>2
  <2>. HIDE DEF n
  <2>4. Takes(columns, new, b, n + 1)
    BY <1>2, <1>3, <2>1, <2>2, <2>3 DEF Takes
  <2>. QED  BY <2>4 DEF new
<1>4. CASE fit # {}
  <2>1. first \in DOMAIN columns /\ InColumn(columns[first], b)
    <3>1. fit \in SUBSET Nat
      BY <1>2
    <3>2. \E m \in fit : \A y \in fit : m <= y
      <4>. HIDE DEF fit
      <4>. QED  BY <1>4, <3>1, LeastNatural
    <3>3. first \in fit
      <4>. HIDE DEF fit
      <4>. QED  BY <3>2
    <3>. QED  BY <3>3
  <2>. HIDE DEF fit, first
  <2>2. Append(columns[first], b) \in Seq(Box)
    BY <1>2, <2>1, OneMore
  <2>3. /\ new \in [1 .. n -> Seq(Box)]
        /\ new[first] = Append(columns[first], b)
        /\ \A c \in 1 .. n : c # first => new[c] = columns[c]
    BY <1>1, <1>2, <1>4, <2>1, <2>2
  <2>4. new \in Seq(Seq(Box)) /\ DOMAIN new = 1 .. n
    BY <1>2, <2>3, FunctionIsSeq
  <2>. HIDE DEF n
  <2>5. Takes(columns, new, b, first)
    BY <1>2, <2>1, <2>3, <2>4 DEF Takes
  <2>. QED  BY <2>5 DEF new
<1>. QED  BY <1>3, <1>4

(* Where the boxes of the columns are from.                                 *)
LEMMA TakenBoxes ==
  ASSUME NEW columns \in Seq(Seq(Box)), NEW b \in Box, NEW new, NEW first,
         Takes(columns, new, b, first)
  PROVE  /\ new[first] # <<>>
         /\ \E m \in DOMAIN new[first] : new[first][m] = b
         /\ \A c \in DOMAIN new : \A m \in DOMAIN new[c] :
              \/ c = first /\ new[c][m] = b
              \/ /\ c \in DOMAIN columns /\ m \in DOMAIN columns[c]
                 /\ new[c][m] = columns[c][m]
         /\ \A c \in DOMAIN columns : \A m \in DOMAIN columns[c] :
              c \in DOMAIN new /\ m \in DOMAIN new[c] /\ new[c][m] = columns[c][m]
<1>. DEFINE old == IF first \in DOMAIN columns THEN columns[first] ELSE <<>>
<1>1. /\ old \in Seq(Box) /\ new[first] = Append(old, b) /\ first \in DOMAIN new
      /\ DOMAIN new = DOMAIN columns \cup {first}
      /\ \A c \in DOMAIN columns : c # first => new[c] = columns[c]
  <2>1. <<>> \in Seq(Box)
    BY EmptySeq
  <2>. QED  BY <2>1, SeqFacts DEF Takes
<1>2. /\ first \in DOMAIN columns => old = columns[first]
      /\ first \notin DOMAIN columns => old = <<>>
  OBVIOUS
<1>. HIDE DEF old
<1>3. /\ DOMAIN old = 1 .. Len(old) /\ Len(old) \in Nat
      /\ DOMAIN new[first] = 1 .. Len(old) + 1
      /\ \A i \in 1 .. Len(old) : new[first][i] = old[i]
      /\ new[first][Len(old) + 1] = b
  BY <1>1, OneMore
<1>4. /\ \A i \in 1 .. Len(old) + 1 : i \in 1 .. Len(old) \/ i = Len(old) + 1
      /\ \A i \in 1 .. Len(old) : i \in 1 .. Len(old) + 1
      /\ Len(old) + 1 \in 1 .. Len(old) + 1
  BY <1>3
<1>5. \A i \in DOMAIN <<>> : FALSE
  OBVIOUS
<1>6. \E m \in DOMAIN new[first] : new[first][m] = b
  BY <1>3, <1>4
<1>7. new[first] # <<>>
  BY <1>5, <1>6
<1>8. ASSUME NEW c \in DOMAIN new, NEW m \in DOMAIN new[c]
      PROVE  \/ c = first /\ new[c][m] = b
             \/ /\ c \in DOMAIN columns /\ m \in DOMAIN columns[c]
                /\ new[c][m] = columns[c][m]
  <2>1. CASE c = first
    BY <1>2, <1>3, <1>4, <1>5, <2>1
  <2>2. CASE c # first
    BY <1>1, <2>2
  <2>. QED  BY <2>1, <2>2
<1>9. ASSUME NEW c \in DOMAIN columns, NEW m \in DOMAIN columns[c]
      PROVE  c \in DOMAIN new /\ m \in DOMAIN new[c] /\ new[c][m] = columns[c][m]
  <2>1. CASE c = first
    BY <1>1, <1>2, <1>3, <1>4, <2>1
  <2>2. CASE c # first
    BY <1>1, <2>2
  <2>. QED  BY <2>1, <2>2
<1>. QED  BY <1>6, <1>7, <1>8, <1>9


ByLeft(some) ==
  Sorted(some, [k \in DOMAIN some |-> <<some[k].left, some[k].top>>])

RightKeys(columns, way) ==
  [c \in DOMAIN columns |->
     <<IF way = "rtl" THEN -Hull(columns[c]).right ELSE Hull(columns[c]).right>>]

(* The columns after each box.                                              *)
Growing(joined, across) ==
  /\ joined \in [0 .. Len(across) -> Seq(Seq(Box))] /\ joined[0] = <<>>
  /\ \A k \in 1 .. Len(across) : joined[k] = Joined(joined[k - 1], across[k])

LEMMA JoinedType ==
  ASSUME NEW columns \in Seq(Seq(Box)), NEW b \in Box
  PROVE  Joined(columns, b) \in Seq(Seq(Box))
<1>1. PICK first : Takes(columns, Joined(columns, b), b, first)
  BY JoinedTakes
<1>. QED  BY <1>1 DEF Takes

LEMMA ColumnsUnfold ==
  ASSUME NEW some \in Seq(Box), ByLeft(some) \in Seq(Box), NEW way
  PROVE  \E joined :
           /\ Growing(joined, ByLeft(some))
           /\ Columns(some, way) =
                Sorted(joined[Len(ByLeft(some))],
                       RightKeys(joined[Len(ByLeft(some))], way))
<1>. DEFINE across == ByLeft(some)
            len == Len(across)
            Body(g) == [k \in 0 .. len |->
                          IF k = 0 THEN <<>> ELSE Joined(g[k - 1], across[k])]
            joined == CHOOSE g : g = Body(g)
            V == Seq(Seq(Box))
            step == [x \in V \X Int |->
                       IF x[2] \in 1 .. len THEN Joined(x[1], across[x[2]])
                       ELSE x[1]]
<1>1. Columns(some, way) = Sorted(joined[len], RightKeys(joined[len], way))
  BY DEF Columns, ByLeft, RightKeys
<1>2. len \in Nat /\ \A n \in 1 .. len : across[n] \in Box
  BY LenProperties, ElementOfSeq
<1>. HIDE DEF across, len
<1>3. step \in [V \X Int -> V]
  <2>1. \A x \in V \X Int : x[1] \in V /\ x[2] \in Int
    OBVIOUS
  <2>2. \A columns \in V, b \in Box : Joined(columns, b) \in V
    BY JoinedType
  <2>. HIDE DEF V
  <2>. QED  BY <1>2, <2>1, <2>2
<1>4. <<>> \in V
  BY EmptySeq
<1>. HIDE DEF V
<1>5. PICK f : Steps(f, V, 0, len, <<>>, step)
  <2>1. 0 \in Int /\ len \in Int /\ 0 <= len
    BY <1>2
  <2>. HIDE DEF step
  <2>. QED  BY <1>3, <1>4, <2>1, StepsExist
<1>6. /\ f \in [0 .. len -> V] /\ f[0] = <<>>
      /\ \A k \in 1 .. len : f[k] = step[<<f[k - 1], k>>]
  <2>1. 0 + 1 = 1
    OBVIOUS
  <2>. QED  BY <1>5, <2>1 DEF Steps
<1>7. ASSUME NEW k \in 1 .. len PROVE f[k] = Joined(f[k - 1], across[k])
  <2>1. k - 1 \in 0 .. len /\ k \in Int
    BY <1>2
  <2>2. f[k - 1] \in V
    BY <1>6, <2>1
  <2>3. <<f[k - 1], k>> \in V \X Int
    BY <2>1, <2>2
  <2>. QED  BY <1>6, <2>3
<1>8. f = Body(f)
  <2>1. \A k \in 0 .. len : k = 0 \/ k \in 1 .. len
    BY <1>2
  <2>2. f = [k \in 0 .. len |-> f[k]]
    BY <1>6
  <2>3. \A k \in 0 .. len :
          f[k] = IF k = 0 THEN <<>> ELSE Joined(f[k - 1], across[k])
    BY <1>6, <1>7, <2>1
  <2>. QED  BY <2>2, <2>3
<1>9. joined = Body(joined)
  <2>. HIDE DEF Body
  <2>. QED  BY <1>8
<1>. HIDE DEF joined, step
<1>10. /\ DOMAIN joined = 0 .. len /\ joined = [k \in 0 .. len |-> joined[k]]
       /\ joined[0] = <<>>
       /\ \A k \in 1 .. len : joined[k] = Joined(joined[k - 1], across[k])
  <2>1. /\ DOMAIN Body(joined) = 0 .. len
        /\ Body(joined) = [k \in 0 .. len |-> Body(joined)[k]]
        /\ Body(joined)[0] = <<>>
    BY <1>2
  <2>2. \A k \in 1 .. len : Body(joined)[k] = Joined(joined[k - 1], across[k])
    BY <1>2
  <2>. HIDE DEF Body
  <2>. QED  BY <1>9, <2>1, <2>2
<1>. HIDE DEF Body
<1>. DEFINE N == {n \in Nat : n <= len => joined[n] \in V}
<1>11. 0 \in N
  BY <1>4, <1>10
<1>12. ASSUME NEW n \in Nat, n \in N PROVE n + 1 \in N
  <2>. SUFFICES ASSUME n + 1 <= len PROVE joined[n + 1] \in V
    OBVIOUS
  <2>1. n + 1 \in 1 .. len /\ (n + 1) - 1 = n /\ n <= len
    BY <1>2
  <2>2. joined[n + 1] = Joined(joined[n], across[n + 1])
    BY <1>10, <2>1
  <2>3. joined[n] \in V
    BY <1>12, <2>1
  <2>. QED  BY <1>2, <2>1, <2>2, <2>3, JoinedType DEF V
<1>13. joined \in [0 .. len -> V]
  <2>1. \A n \in Nat : n \in N
    <3>. HIDE DEF N
    <3>. QED  BY <1>11, <1>12, NumberInduction
  <2>2. \A n \in 0 .. len : joined[n] \in V
    BY <1>2, <2>1
  <2>. QED  BY <1>10, <2>2
<1>14. Growing(joined, across)
  BY <1>10, <1>13 DEF Growing, len, V
<1>. QED  BY <1>1, <1>14 DEF across, len


(* The columns have the first k boxes and no others.                        *)
Grown(columns, across, k) ==
  /\ columns \in Seq(Seq(Box))
  /\ \A c \in DOMAIN columns : columns[c] # <<>>
  /\ \A c \in DOMAIN columns : \A m \in DOMAIN columns[c] :
       \E i \in 1 .. k : columns[c][m] = across[i]
  /\ \A i \in 1 .. k : \E c \in DOMAIN columns : \E m \in DOMAIN columns[c] :
       columns[c][m] = across[i]

LEMMA OneMoreGrown ==
  ASSUME NEW across \in Seq(Box), NEW k \in Nat, k + 1 \in DOMAIN across,
         NEW columns, Grown(columns, across, k)
  PROVE  Grown(Joined(columns, across[k + 1]), across, k + 1)
<1>. DEFINE b == across[k + 1]
            new == Joined(columns, b)
<1>1. b \in Box /\ columns \in Seq(Seq(Box))
  BY SeqFacts DEF Grown
<1>2. PICK first : Takes(columns, new, b, first)
  BY <1>1, JoinedTakes
<1>. HIDE DEF new
<1>3. /\ new[first] # <<>>
      /\ \E m \in DOMAIN new[first] : new[first][m] = b
      /\ \A c \in DOMAIN new : \A m \in DOMAIN new[c] :
           \/ c = first /\ new[c][m] = b
           \/ /\ c \in DOMAIN columns /\ m \in DOMAIN columns[c]
              /\ new[c][m] = columns[c][m]
      /\ \A c \in DOMAIN columns : \A m \in DOMAIN columns[c] :
           c \in DOMAIN new /\ m \in DOMAIN new[c] /\ new[c][m] = columns[c][m]
  BY <1>1, <1>2, TakenBoxes
<1>4. /\ new \in Seq(Seq(Box)) /\ first \in DOMAIN new
      /\ DOMAIN new = DOMAIN columns \cup {first}
      /\ \A c \in DOMAIN columns : c # first => new[c] = columns[c]
  BY <1>2 DEF Takes
<1>5. /\ \A i \in 1 .. k : i \in 1 .. k + 1
      /\ \A i \in 1 .. k + 1 : i \in 1 .. k \/ i = k + 1
      /\ k + 1 \in 1 .. k + 1
  OBVIOUS
<1>6. /\ \A c \in DOMAIN columns : columns[c] # <<>>
      /\ \A c \in DOMAIN columns : \A m \in DOMAIN columns[c] :
           \E i \in 1 .. k : columns[c][m] = across[i]
      /\ \A i \in 1 .. k : \E c \in DOMAIN columns : \E m \in DOMAIN columns[c] :
           columns[c][m] = across[i]
  BY DEF Grown
<1>7. \A c \in DOMAIN new : new[c] # <<>>
  BY <1>3, <1>4, <1>6
<1>8. ASSUME NEW c \in DOMAIN new, NEW m \in DOMAIN new[c]
      PROVE  \E i \in 1 .. k + 1 : new[c][m] = across[i]
  <2>1. CASE new[c][m] = b
    BY <1>5, <2>1
  <2>2. CASE new[c][m] # b
    <3>1. /\ c \in DOMAIN columns /\ m \in DOMAIN columns[c]
          /\ new[c][m] = columns[c][m]
      BY <1>3, <2>2
    <3>2. PICK i \in 1 .. k : columns[c][m] = across[i]
      BY <1>6, <3>1
    <3>. QED  BY <1>5, <3>1, <3>2
  <2>. QED  BY <2>1, <2>2
<1>9. ASSUME NEW i \in 1 .. k + 1
      PROVE  \E c \in DOMAIN new : \E m \in DOMAIN new[c] : new[c][m] = across[i]
  <2>1. CASE i = k + 1
    BY <1>3, <1>4, <2>1
  <2>2. CASE i \in 1 .. k
    <3>1. PICK c \in DOMAIN columns : \E m \in DOMAIN columns[c] :
                                        columns[c][m] = across[i]
      BY <1>6, <2>2
    <3>2. PICK m \in DOMAIN columns[c] : columns[c][m] = across[i]
      BY <3>1
    <3>. QED  BY <1>3, <3>1, <3>2
  <2>. QED  BY <1>5, <2>1, <2>2
<1>10. Grown(new, across, k + 1)
  BY <1>4, <1>7, <1>8, <1>9 DEF Grown
<1>. QED  BY <1>10 DEF new

LEMMA NothingGrown ==
  ASSUME NEW across
  PROVE  Grown(<<>>, across, 0)
<1>1. <<>> \in Seq(Seq(Box))
  BY EmptySeq
<1>2. \A c \in DOMAIN <<>> : FALSE
  OBVIOUS
<1>3. \A i \in 1 .. 0 : FALSE
  OBVIOUS
<1>. QED  BY <1>1, <1>2, <1>3 DEF Grown

(* Boxes of a column are in it with each other, and boxes of two columns    *)
(* share no width.                                                          *)
Splits(columns) ==
  /\ \A c \in DOMAIN columns : \A m, l \in DOMAIN columns[c] :
       SameColumn(columns[c][m], columns[c][l])
  /\ \A c, d \in DOMAIN columns : c # d =>
       \A m \in DOMAIN columns[c], l \in DOMAIN columns[d] :
         HorizontalOverlap(columns[c][m], columns[d][l]) = 0

(* Boxes from left to right, in columns.                                    *)
LeftToRight(across) ==
  /\ ProperBoxes(across)
  /\ \A i, j \in DOMAIN across : i < j => across[i].left <= across[j].left
  /\ \A i, j \in DOMAIN across :
       \/ SameColumn(across[i], across[j])
       \/ HorizontalOverlap(across[i], across[j]) = 0
  /\ \A i, j, k \in DOMAIN across :
       SameColumn(across[i], across[j]) /\ SameColumn(across[j], across[k])
         => SameColumn(across[i], across[k])

LEMMA OneMoreSplits ==
  ASSUME NEW across, LeftToRight(across), NEW k \in Nat, k + 1 \in DOMAIN across,
         NEW columns, Grown(columns, across, k), Splits(columns)
  PROVE  Splits(Joined(columns, across[k + 1]))
<1>. DEFINE b == across[k + 1]
            new == Joined(columns, b)
            All == {across[i] : i \in DOMAIN across}
<1>1. /\ across \in Seq(Box) /\ DOMAIN across = 1 .. Len(across)
      /\ Len(across) \in Nat
      /\ \A i \in DOMAIN across : across[i] \in Box /\ Proper(across[i])
  BY SeqFacts DEF LeftToRight, ProperBoxes
<1>2. /\ b \in All /\ b \in Box /\ Proper(b)
      /\ \A x \in All : x \in Box /\ Proper(x)
  BY <1>1
<1>3. /\ \A x, y \in All : SameColumn(x, y) \/ HorizontalOverlap(x, y) = 0
      /\ \A x, y, z \in All :
           SameColumn(x, y) /\ SameColumn(y, z) => SameColumn(x, z)
  BY DEF LeftToRight
<1>4. /\ \A x, y \in All : SameColumn(x, y) => HorizontalOverlap(x, y) # 0
      /\ \A x, y \in All : SameColumn(x, y) => SameColumn(y, x)
      /\ \A x \in All : SameColumn(x, x)
      /\ \A x, y \in All : HorizontalOverlap(x, y) = HorizontalOverlap(y, x)
  <2>1. ASSUME NEW x \in All, NEW y \in All
        PROVE  /\ SameColumn(x, y) => HorizontalOverlap(x, y) # 0
               /\ SameColumn(x, y) => SameColumn(y, x)
               /\ SameColumn(x, x)
               /\ HorizontalOverlap(x, y) = HorizontalOverlap(y, x)
    <3>1. x \in Box /\ Proper(x) /\ y \in Box /\ Proper(y)
      BY <1>2
    <3>2. /\ HorizontalOverlap(x, y) \in Nat
          /\ SameColumn(x, y) => HorizontalOverlap(x, y) > 0
          /\ SameColumn(x, y) <=> SameColumn(y, x)
          /\ SameColumn(x, x)
      BY <3>1, SharesWidth
    <3>3. HorizontalOverlap(x, y) = HorizontalOverlap(y, x)
      BY <3>1, OverlapsBothWays
    <3>4. SameColumn(x, y) => HorizontalOverlap(x, y) # 0
      BY <3>2
    <3>. QED  BY <3>2, <3>3, <3>4
  <2>. QED  BY <2>1
<1>5. /\ columns \in Seq(Seq(Box))
      /\ \A c \in DOMAIN columns : columns[c] # <<>> /\ columns[c] \in Seq(Box)
      /\ \A c \in DOMAIN columns : \A m \in DOMAIN columns[c] :
           \E i \in 1 .. k : columns[c][m] = across[i]
  BY SeqFacts DEF Grown
<1>6. ASSUME NEW c \in DOMAIN columns, NEW m \in DOMAIN columns[c]
      PROVE  columns[c][m] \in All /\ columns[c][m].left <= b.left
  <2>1. PICK i \in 1 .. k : columns[c][m] = across[i]
    BY <1>5
  <2>2. i \in DOMAIN across /\ i < k + 1
    BY <1>1
  <2>3. across[i].left <= across[k + 1].left
    BY <2>2 DEF LeftToRight
  <2>. QED  BY <2>1, <2>2, <2>3
<1>. HIDE DEF All, b
<1>7. /\ \A c \in DOMAIN columns : \A m, l \in DOMAIN columns[c] :
           SameColumn(columns[c][m], columns[c][l])
      /\ \A c, d \in DOMAIN columns : c # d =>
           \A m \in DOMAIN columns[c], l \in DOMAIN columns[d] :
             HorizontalOverlap(columns[c][m], columns[d][l]) = 0
  BY DEF Splits
<1>8. ASSUME NEW c \in DOMAIN columns
      PROVE  /\ InColumn(columns[c], b) => Fits(columns[c], b)
             /\ ~InColumn(columns[c], b) => Misses(columns[c], b)
  <2>. DEFINE column == columns[c]
  <2>1. ProperBoxes(column) /\ column # <<>>
    BY <1>2, <1>5, <1>6 DEF ProperBoxes
  <2>2. \A m \in DOMAIN column : column[m].left <= b.left
    BY <1>6
  <2>3. \A m \in DOMAIN column :
          SameColumn(column[m], b) \/ HorizontalOverlap(column[m], b) = 0
    BY <1>2, <1>3, <1>6
  <2>4. \A m \in DOMAIN column : SameColumn(column[m], b) => Fits(column, b)
    <3>. SUFFICES ASSUME NEW m \in DOMAIN column, SameColumn(column[m], b),
                         NEW l \in DOMAIN column
                  PROVE  SameColumn(column[l], b)
      BY DEF Fits
    <3>1. column[m] \in All /\ column[l] \in All /\ b \in All
      BY <1>2, <1>6
    <3>2. SameColumn(column[l], column[m])
      BY <1>7
    <3>. QED  BY <1>3, <3>1, <3>2
  <2>. HIDE DEF column
  <2>5. /\ InColumn(column, b) => Fits(column, b)
        /\ ~InColumn(column, b) => Misses(column, b)
    BY <1>2, <2>1, <2>2, <2>3, <2>4, ColumnIsItsBoxes
  <2>. QED  BY <2>5 DEF column
<1>9. PICK first : Takes(columns, new, b, first)
  BY <1>2, <1>5, JoinedTakes
<1>. HIDE DEF new
<1>10. \A c \in DOMAIN new : \A m \in DOMAIN new[c] :
         \/ c = first /\ new[c][m] = b
         \/ /\ c \in DOMAIN columns /\ m \in DOMAIN columns[c]
            /\ new[c][m] = columns[c][m]
  BY <1>2, <1>5, <1>9, TakenBoxes
(* The first column fits b, if it is no new one.                            *)
<1>11. first \in DOMAIN columns => Fits(columns[first], b)
  BY <1>8, <1>9 DEF Takes
<1>12. ASSUME NEW c \in DOMAIN columns, c # first
       PROVE  Misses(columns[c], b)
  <2>1. CASE first \notin DOMAIN columns
    BY <1>8, <1>9, <2>1 DEF Takes
  <2>2. CASE first \in DOMAIN columns
    <3>. SUFFICES ASSUME NEW m \in DOMAIN columns[c], SameColumn(columns[c][m], b)
                  PROVE  FALSE
      BY <1>2, <1>3, <1>6 DEF Misses
    <3>1. PICK l \in DOMAIN columns[first] : TRUE
      <4>1. 1 \in DOMAIN columns[first]
        BY <1>5, <2>2, SeqFacts
      <4>. QED  BY <4>1
    <3>2. SameColumn(columns[first][l], b)
      BY <1>11, <2>2, <3>1 DEF Fits
    <3>3. columns[c][m] \in All /\ columns[first][l] \in All
      BY <1>6, <2>2, <3>1
    <3>4. SameColumn(columns[c][m], columns[first][l])
      BY <1>2, <1>3, <1>4, <3>2, <3>3
    <3>5. HorizontalOverlap(columns[c][m], columns[first][l]) = 0
      BY <1>7, <1>12, <2>2, <3>1
    <3>. QED  BY <1>4, <3>3, <3>4, <3>5
  <2>. QED  BY <2>1, <2>2
<1>13. ASSUME NEW c \in DOMAIN new, NEW m \in DOMAIN new[c], NEW l \in DOMAIN new[c]
       PROVE  SameColumn(new[c][m], new[c][l])
  <2>1. CASE c = first
    <3>1. \A p \in DOMAIN new[c] :
            new[c][p] = b \/ /\ c \in DOMAIN columns /\ p \in DOMAIN columns[c]
                             /\ new[c][p] = columns[c][p]
      BY <1>10
    <3>2. \A p \in DOMAIN new[c] : new[c][p] \in All /\ SameColumn(new[c][p], b)
      BY <1>2, <1>4, <1>6, <1>11, <2>1, <3>1 DEF Fits
    <3>. QED  BY <1>2, <1>3, <1>4, <3>2
  <2>2. CASE c # first
    BY <1>7, <1>10, <2>2
  <2>. QED  BY <2>1, <2>2
<1>14. ASSUME NEW c \in DOMAIN new, NEW d \in DOMAIN new, c # d,
              NEW m \in DOMAIN new[c], NEW l \in DOMAIN new[d]
       PROVE  HorizontalOverlap(new[c][m], new[d][l]) = 0
  <2>1. CASE c = first /\ new[c][m] = b
    <3>1. /\ d \in DOMAIN columns /\ l \in DOMAIN columns[d] /\ d # first
          /\ new[d][l] = columns[d][l]
      BY <1>10, <1>14, <2>1
    <3>. QED  BY <1>2, <1>4, <1>6, <1>12, <2>1, <3>1 DEF Misses
  <2>2. CASE d = first /\ new[d][l] = b
    <3>1. /\ c \in DOMAIN columns /\ m \in DOMAIN columns[c] /\ c # first
          /\ new[c][m] = columns[c][m]
      BY <1>10, <1>14, <2>2
    <3>. QED  BY <1>12, <2>2, <3>1 DEF Misses
  <2>3. CASE ~(c = first /\ new[c][m] = b) /\ ~(d = first /\ new[d][l] = b)
    BY <1>7, <1>10, <1>14, <2>3
  <2>. QED  BY <2>1, <2>2, <2>3
<1>15. Splits(new)
  BY <1>13, <1>14 DEF Splits
<1>. QED  BY <1>15 DEF new, b


(* The first parts of the keys, of the elements as they are sorted.         *)
FirstsRise(t, s, key) ==
  \E from \in [DOMAIN s -> DOMAIN s] :
    /\ \A p \in DOMAIN s : t[p] = s[from[p]]
    /\ \A p, q \in DOMAIN s : p < q => key[from[p]][1] <= key[from[q]][1]

LEMMA SortedRises ==
  ASSUME NEW S, NEW s \in Seq(S), NEW m \in Nat \ {0},
         NEW key \in [DOMAIN s -> Keys(m)]
  PROVE  FirstsRise(Sorted(s, key), s, key)
<1>. DEFINE t == Sorted(s, key)
<1>1. Follows(t, s, key)
  BY SortedPermutes
<1>. HIDE DEF t
<1>2. PICK from \in [DOMAIN s -> DOMAIN s] :
        /\ \A p \in DOMAIN s : t[p] = s[from[p]]
        /\ \A p, q \in DOMAIN s : p < q => ~Precedes(key[from[q]], key[from[p]])
  BY <1>1 DEF Follows
<1>3. ASSUME NEW k \in Keys(m), NEW l \in Keys(m), ~Precedes(k, l)
      PROVE  l[1] <= k[1]
  <2>1. /\ DOMAIN k = 1 .. m /\ 1 \in 1 .. m /\ k[1] \in Int /\ l[1] \in Int
        /\ \A i \in 1 .. 1 - 1 : FALSE
    BY DEF Keys
  <2>2. ~ (k[1] < l[1])
    BY <1>3, <2>1 DEF Precedes
  <2>. QED  BY <2>1, <2>2
<1>4. ASSUME NEW p \in DOMAIN s, NEW q \in DOMAIN s, p < q
      PROVE  key[from[p]][1] <= key[from[q]][1]
  <2>1. key[from[p]] \in Keys(m) /\ key[from[q]] \in Keys(m)
    BY <1>2
  <2>2. ~Precedes(key[from[q]], key[from[p]])
    BY <1>2, <1>4
  <2>. QED  BY <1>3, <2>1, <2>2
<1>5. FirstsRise(t, s, key)
  BY <1>2, <1>4 DEF FirstsRise
<1>. QED  BY <1>5 DEF t

LEMMA ByLeftRises ==
  ASSUME NEW some, ProperBoxes(some)
  PROVE  LET t == ByLeft(some)
         IN  /\ ProperBoxes(t) /\ SameElements(t, some)
             /\ \A i, j \in DOMAIN t : i < j => t[i].left <= t[j].left
<1>. DEFINE key == [k \in DOMAIN some |-> <<some[k].left, some[k].top>>]
            t == ByLeft(some)
<1>1. some \in Seq(Box) /\ \A k \in DOMAIN some : some[k] \in Box
  BY SeqFacts DEF ProperBoxes
<1>2. key \in [DOMAIN some -> Keys(2)]
  BY <1>1, BoxFields, PairKey
<1>3. \A k \in DOMAIN some : key[k][1] = some[k].left
  OBVIOUS
<1>4. t = Sorted(some, key)
  BY DEF ByLeft
<1>. HIDE DEF key, t
<1>5. t \in Seq(Box) /\ Len(t) = Len(some) /\ SameElements(t, some)
  BY <1>1, <1>2, <1>4, SortedSame
<1>6. ProperBoxes(t)
  BY <1>5, SameAreHeld
<1>7. FirstsRise(t, some, key)
  BY <1>1, <1>2, <1>4, SortedRises
<1>8. DOMAIN t = DOMAIN some
  BY <1>1, <1>5, SeqFacts
<1>9. PICK from \in [DOMAIN some -> DOMAIN some] :
        /\ \A p \in DOMAIN some : t[p] = some[from[p]]
        /\ \A p, q \in DOMAIN some : p < q => key[from[p]][1] <= key[from[q]][1]
  BY <1>7 DEF FirstsRise
<1>10. \A i, j \in DOMAIN t : i < j => t[i].left <= t[j].left
  BY <1>3, <1>8, <1>9
<1>. QED  BY <1>5, <1>6, <1>10 DEF t

LEMMA DownwardsRises ==
  ASSUME NEW some, ProperBoxes(some), NEW way
  PROVE  LET t == Downwards(some, way)
         IN  /\ ProperBoxes(t) /\ SameElements(t, some)
             /\ \A i, j \in DOMAIN t : i < j => t[i].top <= t[j].top
<1>. DEFINE key == [k \in DOMAIN some |-> <<some[k].top, Across(some[k], way)>>]
            t == Downwards(some, way)
<1>1. some \in Seq(Box) /\ \A k \in DOMAIN some : some[k] \in Box
  BY SeqFacts DEF ProperBoxes
<1>2. key \in [DOMAIN some -> Keys(2)]
  BY <1>1, BoxFields, RegionKeyType, PairKey
<1>3. \A k \in DOMAIN some : key[k][1] = some[k].top
  OBVIOUS
<1>4. t = Sorted(some, key)
  BY DEF Downwards
<1>. HIDE DEF key, t
<1>5. t \in Seq(Box) /\ Len(t) = Len(some) /\ SameElements(t, some)
  BY <1>1, <1>2, <1>4, SortedSame
<1>6. ProperBoxes(t)
  BY <1>5, SameAreHeld
<1>7. FirstsRise(t, some, key)
  BY <1>1, <1>2, <1>4, SortedRises
<1>8. DOMAIN t = DOMAIN some
  BY <1>1, <1>5, SeqFacts
<1>9. PICK from \in [DOMAIN some -> DOMAIN some] :
        /\ \A p \in DOMAIN some : t[p] = some[from[p]]
        /\ \A p, q \in DOMAIN some : p < q => key[from[p]][1] <= key[from[q]][1]
  BY <1>7 DEF FirstsRise
<1>10. \A i, j \in DOMAIN t : i < j => t[i].top <= t[j].top
  BY <1>3, <1>8, <1>9
<1>. QED  BY <1>5, <1>6, <1>10 DEF t

LEMMA ByTopSame ==
  ASSUME NEW some, ProperBoxes(some)
  PROVE  ProperBoxes(ByTop(some)) /\ SameElements(ByTop(some), some)
<1>. DEFINE key == [k \in DOMAIN some |-> <<some[k].top>>]
<1>1. some \in Seq(Box) /\ \A k \in DOMAIN some : some[k] \in Box
  BY SeqFacts DEF ProperBoxes
<1>2. key \in [DOMAIN some -> Keys(1)]
  BY <1>1, BoxFields, SingleKey
<1>3. ByTop(some) = Sorted(some, key)
  BY DEF ByTop
<1>. HIDE DEF key
<1>4. ByTop(some) \in Seq(Box) /\ SameElements(ByTop(some), some)
  BY <1>1, <1>2, <1>3, SortedSame
<1>. QED  BY <1>4, SameAreHeld

(* Of two columns that share no width, the one that ends first on the right *)
(* lies on the left.                                                        *)
LEMMA LeftOf ==
  ASSUME NEW p, ProperBoxes(p), p # <<>>, NEW q, ProperBoxes(q), q # <<>>,
         Hull(p).right <= Hull(q).right,
         \A m, l \in DOMAIN q : SameColumn(q[m], q[l]),
         \A m \in DOMAIN p, l \in DOMAIN q : HorizontalOverlap(p[m], q[l]) = 0,
         NEW m \in DOMAIN p, NEW l \in DOMAIN q
  PROVE  p[m].right <= q[l].left
<1>. DEFINE a == p[m]
            b == q[l]
<1>1. /\ p \in Seq(Box) /\ DOMAIN p = 1 .. Len(p)
      /\ q \in Seq(Box) /\ DOMAIN q = 1 .. Len(q)
      /\ \A k \in DOMAIN p : p[k] \in Box /\ Proper(p[k])
      /\ \A k \in DOMAIN q : q[k] \in Box /\ Proper(q[k])
  BY SeqFacts DEF ProperBoxes
<1>2. IsHull(Hull(p), p, Len(p)) /\ IsHull(Hull(q), q, Len(q))
  BY <1>1, HullIsHull
<1>3. PICK y \in DOMAIN q : Hull(q).right = q[y].right
  BY <1>1, <1>2 DEF IsHull
<1>4. a.right <= Hull(p).right /\ Hull(p) \in Box
  BY <1>1, <1>2 DEF IsHull, Inside
<1>. DEFINE e == q[y]
<1>5. /\ a \in Box /\ Proper(a) /\ b \in Box /\ Proper(b) /\ e \in Box /\ Proper(e)
      /\ HorizontalOverlap(a, b) = 0 /\ HorizontalOverlap(a, e) = 0
      /\ SameColumn(b, e)
  BY <1>1, <1>3
<1>6. Hull(p).right \in Int /\ Hull(p).right <= e.right
  BY <1>3, <1>4, BoxFields
<1>. HIDE DEF a, b, e
<1>7. /\ a.left \in Int /\ a.right \in Int /\ a.left < a.right
      /\ b.left \in Int /\ b.right \in Int /\ b.left < b.right
      /\ e.left \in Int /\ e.right \in Int /\ e.left < e.right
  BY <1>5, BoxFields, ProperFields
<1>8. ~ (a.left < b.right /\ b.left < a.right)
  <2>1. ~ (HorizontalOverlap(a, b) > 0)
    BY <1>5
  <2>. QED  BY <1>5, <2>1, SharesWidth
<1>9. ~ (a.left < e.right /\ e.left < a.right)
  <2>1. ~ (HorizontalOverlap(a, e) > 0)
    BY <1>5
  <2>. QED  BY <1>5, <2>1, SharesWidth
<1>10. b.left < e.right /\ e.left < b.right
  BY <1>5, SharesWidth
<1>11. a.right <= e.right
  BY <1>4, <1>6, <1>7 DEF a
<1>12. a.right <= b.left
  BY <1>7, <1>8, <1>9, <1>10, <1>11
<1>. QED  BY <1>12 DEF a, b

(* FirstColumn, for either direction                                        *)
FirstOf(a, b, way) ==
  IF way = "rtl" THEN a.left >= b.right ELSE a.right <= b.left

(* Columns from the side where the direction starts.                        *)
SideBySide(columns, way) ==
  /\ Splits(columns)
  /\ \A c, d \in DOMAIN columns : c < d =>
       \A m \in DOMAIN columns[c], l \in DOMAIN columns[d] :
         FirstOf(columns[c][m], columns[d][l], way)


LEMMA JoinedAll ==
  ASSUME NEW across, ProperBoxes(across), NEW joined, Growing(joined, across)
  PROVE  /\ Grown(joined[Len(across)], across, Len(across))
         /\ LeftToRight(across) => Splits(joined[Len(across)])
<1>. DEFINE len == Len(across)
            N == {n \in Nat : n <= len =>
                    /\ Grown(joined[n], across, n)
                    /\ LeftToRight(across) => Splits(joined[n])}
<1>1. across \in Seq(Box) /\ len \in Nat /\ DOMAIN across = 1 .. len
  BY SeqFacts DEF ProperBoxes
<1>2. /\ joined[0] = <<>>
      /\ \A k \in 1 .. len : joined[k] = Joined(joined[k - 1], across[k])
  BY DEF Growing
<1>. HIDE DEF len
<1>3. 0 \in N
  <2>1. Splits(<<>>)
    <3>1. \A c \in DOMAIN <<>> : FALSE
      OBVIOUS
    <3>. QED  BY <3>1 DEF Splits
  <2>. QED  BY <1>2, <2>1, NothingGrown
<1>4. ASSUME NEW n \in Nat, n \in N PROVE n + 1 \in N
  <2>. SUFFICES ASSUME n + 1 <= len
                PROVE  /\ Grown(joined[n + 1], across, n + 1)
                       /\ LeftToRight(across) => Splits(joined[n + 1])
    OBVIOUS
  <2>1. n + 1 \in 1 .. len /\ (n + 1) - 1 = n /\ n <= len
    BY <1>1
  <2>2. /\ joined[n + 1] = Joined(joined[n], across[n + 1])
        /\ n + 1 \in DOMAIN across
    BY <1>1, <1>2, <2>1
  <2>3. /\ Grown(joined[n], across, n)
        /\ LeftToRight(across) => Splits(joined[n])
    BY <1>4, <2>1
  <2>4. Grown(Joined(joined[n], across[n + 1]), across, n + 1)
    BY <1>1, <2>2, <2>3, OneMoreGrown
  <2>5. LeftToRight(across) => Splits(Joined(joined[n], across[n + 1]))
    BY <2>2, <2>3, OneMoreSplits
  <2>. QED  BY <2>2, <2>4, <2>5
<1>5. \A n \in Nat : n \in N
  <2>. HIDE DEF N
  <2>. QED  BY <1>3, <1>4, NumberInduction
<1>6. len \in N
  <2>. HIDE DEF N
  <2>. QED  BY <1>1, <1>5
<1>7. len <= len
  BY <1>1
<1>. QED  BY <1>6, <1>7 DEF len

(* What sorting its columns from one side to the other makes of them.       *)
LEMMA SortedColumns ==
  ASSUME NEW some, ProperBoxes(some), NEW columns,
         Grown(columns, some, Len(some)), NEW way
  PROVE  LET t == Sorted(columns, RightKeys(columns, way))
         IN  /\ Grown(t, some, Len(some))
             /\ Splits(columns) => SideBySide(t, way)
<1>. DEFINE n == Len(some)
            key == RightKeys(columns, way)
            t == Sorted(columns, key)
            Right(c) == Hull(columns[c]).right
<1>1. /\ some \in Seq(Box) /\ DOMAIN some = 1 .. n
      /\ \A k \in DOMAIN some : Proper(some[k])
  BY SeqFacts DEF ProperBoxes
<1>2. /\ columns \in Seq(Seq(Box))
      /\ \A c \in DOMAIN columns : columns[c] # <<>>
      /\ \A c \in DOMAIN columns : \A m \in DOMAIN columns[c] :
           \E i \in 1 .. n : columns[c][m] = some[i]
      /\ \A i \in 1 .. n : \E c \in DOMAIN columns : \E m \in DOMAIN columns[c] :
           columns[c][m] = some[i]
  BY DEF Grown
<1>3. \A c \in DOMAIN columns : ProperBoxes(columns[c]) /\ columns[c] # <<>>
  <2>1. \A c \in DOMAIN columns : columns[c] \in Seq(Box)
    BY <1>2, SeqFacts
  <2>2. \A c \in DOMAIN columns : \A m \in DOMAIN columns[c] :
          Proper(columns[c][m])
    <3>1. \A i \in 1 .. n : Proper(some[i])
      BY <1>1
    <3>. HIDE DEF n
    <3>. QED  BY <1>2, <3>1
  <2>. QED  BY <1>2, <2>1, <2>2 DEF ProperBoxes
<1>4. \A c \in DOMAIN columns : Right(c) \in Int /\ -Right(c) \in Int
  <2>. SUFFICES ASSUME NEW c \in DOMAIN columns
                PROVE  Right(c) \in Int /\ -Right(c) \in Int
    OBVIOUS
  <2>1. Hull(columns[c]) \in Box
    BY <1>3, HullIsHull DEF ProperBoxes, IsHull
  <2>. QED  BY <2>1, BoxFields
<1>5. /\ DOMAIN key = DOMAIN columns
      /\ \A c \in DOMAIN columns :
           key[c] = <<IF way = "rtl" THEN -Right(c) ELSE Right(c)>>
  BY DEF RightKeys
<1>. HIDE DEF n
<1>6. key \in [DOMAIN columns -> Keys(1)]
  <2>1. \A c \in DOMAIN columns : key[c] \in Keys(1)
    <3>. SUFFICES ASSUME NEW c \in DOMAIN columns PROVE key[c] \in Keys(1)
      OBVIOUS
    <3>. DEFINE side == IF way = "rtl" THEN -Right(c) ELSE Right(c)
    <3>1. side \in Int
      BY <1>4
    <3>2. key[c] = <<side>>
      BY <1>5
    <3>. HIDE DEF side, key
    <3>. QED  BY <3>1, <3>2, SingleKey
  <2>2. key = [c \in DOMAIN columns |-> key[c]]
    BY DEF RightKeys
  <2>. HIDE DEF key
  <2>. QED  BY <1>5, <2>1, <2>2
<1>. HIDE DEF key
<1>7. /\ t \in Seq(Seq(Box)) /\ Len(t) = Len(columns)
      /\ SameElements(t, columns) /\ Permutes(t, columns)
  BY <1>2, <1>6, SortedSame, SortedPermutes
<1>8. FirstsRise(t, columns, key)
  BY <1>2, <1>6, SortedRises
<1>. HIDE DEF t
<1>9. DOMAIN t = DOMAIN columns
  BY <1>2, <1>7, SeqFacts
<1>10. Grown(t, some, n)
  <2>1. \A c \in DOMAIN t : t[c] # <<>>
    BY <1>2, <1>7 DEF SameElements
  <2>2. ASSUME NEW c \in DOMAIN t, NEW m \in DOMAIN t[c]
        PROVE  \E i \in 1 .. n : t[c][m] = some[i]
    <3>1. PICK d \in DOMAIN columns : t[c] = columns[d]
      BY <1>7 DEF SameElements
    <3>. QED  BY <1>2, <3>1
  <2>3. ASSUME NEW i \in 1 .. n
        PROVE  \E c \in DOMAIN t : \E m \in DOMAIN t[c] : t[c][m] = some[i]
    <3>1. PICK d \in DOMAIN columns :
            \E m \in DOMAIN columns[d] : columns[d][m] = some[i]
      BY <1>2
    <3>2. PICK c \in DOMAIN t : t[c] = columns[d]
      BY <1>7 DEF SameElements
    <3>. QED  BY <3>1, <3>2
  <2>. QED  BY <1>7, <2>1, <2>2, <2>3 DEF Grown
<1>11. ASSUME Splits(columns) PROVE Splits(t)
  <2>1. PICK from \in [DOMAIN columns -> DOMAIN columns] :
          /\ \A p \in DOMAIN columns : t[p] = columns[from[p]]
          /\ \A p, q \in DOMAIN columns : from[p] = from[q] => p = q
    BY <1>7 DEF Permutes
  <2>2. ASSUME NEW c \in DOMAIN t, NEW m \in DOMAIN t[c], NEW l \in DOMAIN t[c]
        PROVE  SameColumn(t[c][m], t[c][l])
    <3>1. t[c] = columns[from[c]] /\ from[c] \in DOMAIN columns
      BY <1>9, <2>1
    <3>. QED  BY <1>11, <3>1 DEF Splits
  <2>3. ASSUME NEW c \in DOMAIN t, NEW d \in DOMAIN t, c # d,
               NEW m \in DOMAIN t[c], NEW l \in DOMAIN t[d]
        PROVE  HorizontalOverlap(t[c][m], t[d][l]) = 0
    <3>1. /\ t[c] = columns[from[c]] /\ from[c] \in DOMAIN columns
          /\ t[d] = columns[from[d]] /\ from[d] \in DOMAIN columns
          /\ from[c] # from[d]
      BY <1>9, <2>1, <2>3
    <3>. QED  BY <1>11, <3>1 DEF Splits
  <2>. QED  BY <2>2, <2>3 DEF Splits
<1>12. ASSUME Splits(columns), NEW c \in DOMAIN t, NEW d \in DOMAIN t, c < d,
              NEW m \in DOMAIN t[c], NEW l \in DOMAIN t[d]
       PROVE  FirstOf(t[c][m], t[d][l], way)
  <2>1. Splits(t) /\ c # d
    <3>1. c \in Int /\ d \in Int
      BY <1>7, SeqFacts
    <3>. QED  BY <1>11, <1>12, <3>1
  <2>2. PICK from \in [DOMAIN columns -> DOMAIN columns] :
          /\ \A p \in DOMAIN columns : t[p] = columns[from[p]]
          /\ \A p, q \in DOMAIN columns : p < q =>
               key[from[p]][1] <= key[from[q]][1]
    BY <1>8 DEF FirstsRise
  <2>. DEFINE x == from[c]
              y == from[d]
  <2>3. /\ x \in DOMAIN columns /\ t[c] = columns[x]
        /\ y \in DOMAIN columns /\ t[d] = columns[y]
        /\ key[x][1] <= key[y][1]
    BY <1>9, <1>12, <2>2
  <2>. HIDE DEF x, y
  <2>4. /\ \A k, j \in DOMAIN t[c] : SameColumn(t[c][k], t[c][j])
        /\ \A k, j \in DOMAIN t[d] : SameColumn(t[d][k], t[d][j])
        /\ \A k \in DOMAIN t[c], j \in DOMAIN t[d] :
             HorizontalOverlap(t[c][k], t[d][j]) = 0
        /\ \A k \in DOMAIN t[d], j \in DOMAIN t[c] :
             HorizontalOverlap(t[d][k], t[c][j]) = 0
    BY <2>1 DEF Splits
  <2>5. /\ ProperBoxes(t[c]) /\ t[c] # <<>>
        /\ ProperBoxes(t[d]) /\ t[d] # <<>>
    BY <1>3, <2>3
  <2>6. CASE way = "rtl"
    <3>1. key[x][1] = -Right(x) /\ key[y][1] = -Right(y)
      BY <1>5, <2>3, <2>6
    <3>2. Right(y) <= Right(x)
      <4>1. Right(x) \in Int /\ Right(y) \in Int
        BY <1>4, <2>3
      <4>. HIDE DEF Right
      <4>2. -Right(x) <= -Right(y)
        BY <2>3, <3>1
      <4>. QED  BY <4>1, <4>2
    <3>3. Hull(t[d]).right <= Hull(t[c]).right
      BY <2>3, <3>2
    <3>4. t[d][l].right <= t[c][m].left
      BY <2>4, <2>5, <3>3, <1>12, LeftOf
    <3>5. t[d][l].right \in Int /\ t[c][m].left \in Int
      <4>1. t[d][l] \in Box /\ t[c][m] \in Box
        BY <1>12, <2>5, SeqFacts DEF ProperBoxes
      <4>. QED  BY <4>1, BoxFields
    <3>6. t[c][m].left >= t[d][l].right
      BY <3>4, <3>5
    <3>. QED  BY <2>6, <3>6 DEF FirstOf
  <2>7. CASE way # "rtl"
    <3>1. key[x][1] = Right(x) /\ key[y][1] = Right(y)
      BY <1>5, <2>3, <2>7
    <3>2. Hull(t[c]).right <= Hull(t[d]).right
      BY <2>3, <3>1
    <3>3. t[c][m].right <= t[d][l].left
      BY <2>4, <2>5, <3>2, <1>12, LeftOf
    <3>. QED  BY <2>7, <3>3 DEF FirstOf
  <2>. QED  BY <2>6, <2>7
<1>13. Splits(columns) => SideBySide(t, way)
  BY <1>11, <1>12 DEF SideBySide
<1>. QED  BY <1>10, <1>13 DEF t, key, n


(* Grown, when all boxes are in columns.                                    *)
LEMMA AllGrown ==
  ASSUME NEW some \in Seq(Box), NEW columns
  PROVE  Grown(columns, some, Len(some)) <=>
           /\ columns \in Seq(Seq(Box))
           /\ \A c \in DOMAIN columns : columns[c] # <<>>
           /\ \A c \in DOMAIN columns : \A m \in DOMAIN columns[c] :
                \E i \in DOMAIN some : columns[c][m] = some[i]
           /\ \A i \in DOMAIN some : \E c \in DOMAIN columns :
                \E m \in DOMAIN columns[c] : columns[c][m] = some[i]
<1>. DEFINE All(D) ==
              /\ columns \in Seq(Seq(Box))
              /\ \A c \in DOMAIN columns : columns[c] # <<>>
              /\ \A c \in DOMAIN columns : \A m \in DOMAIN columns[c] :
                   \E i \in D : columns[c][m] = some[i]
              /\ \A i \in D : \E c \in DOMAIN columns :
                   \E m \in DOMAIN columns[c] : columns[c][m] = some[i]
<1>1. DOMAIN some = 1 .. Len(some)
  BY SeqFacts
<1>2. Grown(columns, some, Len(some)) <=> All(1 .. Len(some))
  BY Zenon DEF Grown
<1>3. All(1 .. Len(some)) <=> All(DOMAIN some)
  <2>. HIDE DEF All
  <2>. QED  BY <1>1
<1>. QED  BY <1>2, <1>3, Zenon

LEMMA ColumnsHold ==
  ASSUME NEW some, ProperBoxes(some), NEW way
  PROVE  /\ Grown(Columns(some, way), some, Len(some))
         /\ InColumns(ToSet(some)) => SideBySide(Columns(some, way), way)
<1>. DEFINE across == ByLeft(some)
<1>1. /\ ProperBoxes(across) /\ SameElements(across, some)
      /\ \A i, j \in DOMAIN across : i < j => across[i].left <= across[j].left
  BY ByLeftRises
<1>2. some \in Seq(Box) /\ across \in Seq(Box)
  BY <1>1 DEF ProperBoxes
<1>3. PICK joined :
        /\ Growing(joined, across)
        /\ Columns(some, way) = Sorted(joined[Len(across)],
                                       RightKeys(joined[Len(across)], way))
  BY <1>2, ColumnsUnfold
<1>. HIDE DEF across
<1>. DEFINE columns == joined[Len(across)]
<1>4. /\ Grown(columns, across, Len(across))
      /\ LeftToRight(across) => Splits(columns)
  BY <1>1, <1>3, JoinedAll
<1>. HIDE DEF columns
<1>6. Grown(columns, some, Len(some))
  <2>1. /\ columns \in Seq(Seq(Box))
        /\ \A c \in DOMAIN columns : columns[c] # <<>>
        /\ \A c \in DOMAIN columns : \A m \in DOMAIN columns[c] :
             \E i \in DOMAIN across : columns[c][m] = across[i]
        /\ \A i \in DOMAIN across : \E c \in DOMAIN columns :
             \E m \in DOMAIN columns[c] : columns[c][m] = across[i]
    BY <1>2, <1>4, AllGrown
  <2>2. ASSUME NEW c \in DOMAIN columns, NEW m \in DOMAIN columns[c]
        PROVE  \E i \in DOMAIN some : columns[c][m] = some[i]
    <3>1. PICK i \in DOMAIN across : columns[c][m] = across[i]
      BY <2>1
    <3>. QED  BY <1>1, <3>1 DEF SameElements
  <2>3. ASSUME NEW i \in DOMAIN some
        PROVE  \E c \in DOMAIN columns : \E m \in DOMAIN columns[c] :
                 columns[c][m] = some[i]
    <3>1. PICK j \in DOMAIN across : across[j] = some[i]
      BY <1>1 DEF SameElements
    <3>. QED  BY <2>1, <3>1
  <2>. QED  BY <1>2, <2>1, <2>2, <2>3, AllGrown
<1>7. ASSUME InColumns(ToSet(some)) PROVE LeftToRight(across)
  <2>1. \A i \in DOMAIN across : across[i] \in ToSet(some)
    BY <1>1 DEF SameElements, ToSet
  <2>2. \A i, j \in DOMAIN across :
          \/ SameColumn(across[i], across[j])
          \/ HorizontalOverlap(across[i], across[j]) = 0
    BY <1>7, <2>1 DEF InColumns
  <2>3. \A i, j, k \in DOMAIN across :
          SameColumn(across[i], across[j]) /\ SameColumn(across[j], across[k])
            => SameColumn(across[i], across[k])
    BY <1>7, <2>1 DEF InColumns
  <2>. QED  BY <1>1, <2>2, <2>3 DEF LeftToRight
<1>8. /\ Grown(Sorted(columns, RightKeys(columns, way)), some, Len(some))
      /\ Splits(columns) =>
           SideBySide(Sorted(columns, RightKeys(columns, way)), way)
  BY <1>6, SortedColumns
<1>9. Columns(some, way) = Sorted(columns, RightKeys(columns, way))
  BY <1>3 DEF columns
<1>. QED  BY <1>4, <1>7, <1>8, <1>9

(* Downwards in a column, and column by column.                             *)
InTurn(a, b, way) ==
  IF SameColumn(a, b) THEN a.top <= b.top ELSE FirstOf(a, b, way)

LEMMA ColumnsRead ==
  ASSUME NEW some, ProperBoxes(some), NEW way
  PROVE  LET columns == Columns(some, way)
             all == Flat([c \in DOMAIN columns |-> Downwards(columns[c], way)])
         IN  /\ ProperBoxes(all) /\ SameElements(all, some)
             /\ InColumns(ToSet(some)) =>
                  \A i, j \in DOMAIN all : i < j => InTurn(all[i], all[j], way)
<1>. DEFINE columns == Columns(some, way)
            down == [c \in DOMAIN columns |-> Downwards(columns[c], way)]
            all == Flat(down)
            n == Len(some)
<1>1. /\ Grown(columns, some, n)
      /\ InColumns(ToSet(some)) => SideBySide(columns, way)
  BY ColumnsHold
<1>2. /\ some \in Seq(Box) /\ DOMAIN some = 1 .. n
      /\ \A k \in DOMAIN some : Proper(some[k])
  BY SeqFacts DEF ProperBoxes
<1>. HIDE DEF columns
<1>0. /\ columns \in Seq(Seq(Box))
      /\ \A c \in DOMAIN columns : \A m \in DOMAIN columns[c] :
           \E i \in DOMAIN some : columns[c][m] = some[i]
      /\ \A i \in DOMAIN some : \E c \in DOMAIN columns :
           \E m \in DOMAIN columns[c] : columns[c][m] = some[i]
  <2>1. some \in Seq(Box) /\ Grown(columns, some, Len(some))
    BY <1>1, <1>2
  <2>. HIDE DEF n
  <2>. QED  BY <2>1, AllGrown
<1>. HIDE DEF n
<1>3. /\ columns \in Seq(Seq(Box))
      /\ DOMAIN columns = 1 .. Len(columns) /\ Len(columns) \in Nat
      /\ \A c \in DOMAIN columns : columns[c] \in Seq(Box)
      /\ \A c \in DOMAIN columns : \A m \in DOMAIN columns[c] :
           \E i \in DOMAIN some : columns[c][m] = some[i]
      /\ \A i \in DOMAIN some : \E c \in DOMAIN columns :
           \E m \in DOMAIN columns[c] : columns[c][m] = some[i]
  BY <1>0, SeqFacts
<1>4. \A c \in DOMAIN columns : ProperBoxes(columns[c])
  <2>1. \A c \in DOMAIN columns : \A m \in DOMAIN columns[c] :
          Proper(columns[c][m])
    BY <1>2, <1>3
  <2>. QED  BY <1>3, <2>1 DEF ProperBoxes
<1>5. \A c \in DOMAIN columns : down[c] = Downwards(columns[c], way)
  OBVIOUS
<1>6. DOMAIN down = DOMAIN columns /\ down = [c \in DOMAIN columns |-> down[c]]
  OBVIOUS
<1>. HIDE DEF down
<1>7. \A c \in DOMAIN columns :
        /\ ProperBoxes(down[c]) /\ SameElements(down[c], columns[c])
        /\ \A i, j \in DOMAIN down[c] : i < j => down[c][i].top <= down[c][j].top
  <2>. SUFFICES ASSUME NEW c \in DOMAIN columns
                PROVE  /\ ProperBoxes(down[c]) /\ SameElements(down[c], columns[c])
                       /\ \A i, j \in DOMAIN down[c] :
                            i < j => down[c][i].top <= down[c][j].top
    OBVIOUS
  <2>1. ProperBoxes(columns[c])
    BY <1>4
  <2>. QED  BY <1>5, <2>1, DownwardsRises
<1>8. down \in Seq(Seq(Box))
  <2>1. \A c \in DOMAIN columns : down[c] \in Seq(Box)
    BY <1>7 DEF ProperBoxes
  <2>2. down \in [1 .. Len(columns) -> Seq(Box)]
    BY <1>3, <1>6, <2>1
  <2>. QED  BY <1>3, <2>2, FunctionIsSeq
<1>9. /\ all \in Seq(Box)
      /\ \A i \in DOMAIN all :
           \E c \in DOMAIN down : \E m \in DOMAIN down[c] : all[i] = down[c][m]
      /\ \A i, j \in DOMAIN all : i < j =>
           \E c, d \in DOMAIN down : \E m \in DOMAIN down[c], l \in DOMAIN down[d] :
             /\ all[i] = down[c][m] /\ all[j] = down[d][l]
             /\ c < d \/ (c = d /\ m < l)
      /\ \A c \in DOMAIN down : \A m \in DOMAIN down[c] :
           \E i \in DOMAIN all : all[i] = down[c][m]
  BY <1>8, FlatPlaces
<1>. HIDE DEF all
<1>10. SameElements(all, some)
  <2>1. ASSUME NEW i \in DOMAIN all PROVE \E k \in DOMAIN some : all[i] = some[k]
    <3>1. PICK c \in DOMAIN columns : \E m \in DOMAIN down[c] : all[i] = down[c][m]
      BY <1>6, <1>9
    <3>2. PICK m \in DOMAIN down[c] : all[i] = down[c][m]
      BY <3>1
    <3>3. PICK l \in DOMAIN columns[c] : down[c][m] = columns[c][l]
      BY <1>7 DEF SameElements
    <3>. QED  BY <1>3, <3>2, <3>3
  <2>2. ASSUME NEW k \in DOMAIN some PROVE \E i \in DOMAIN all : all[i] = some[k]
    <3>1. PICK c \in DOMAIN columns :
            \E m \in DOMAIN columns[c] : columns[c][m] = some[k]
      BY <1>3
    <3>2. PICK m \in DOMAIN columns[c] : columns[c][m] = some[k]
      BY <3>1
    <3>3. PICK l \in DOMAIN down[c] : down[c][l] = columns[c][m]
      BY <1>7 DEF SameElements
    <3>. QED  BY <1>6, <1>9, <3>2, <3>3
  <2>. QED  BY <2>1, <2>2 DEF SameElements
<1>11. ProperBoxes(all)
  BY <1>9, <1>10, SameAreHeld
<1>12. ASSUME InColumns(ToSet(some)), NEW i \in DOMAIN all, NEW j \in DOMAIN all,
              i < j
       PROVE  InTurn(all[i], all[j], way)
  <2>1. SideBySide(columns, way) /\ Splits(columns)
    BY <1>1, <1>12 DEF SideBySide
  <2>2. PICK c \in DOMAIN columns, d \in DOMAIN columns :
          \E m \in DOMAIN down[c], l \in DOMAIN down[d] :
            /\ all[i] = down[c][m] /\ all[j] = down[d][l]
            /\ c < d \/ (c = d /\ m < l)
    BY <1>6, <1>9, <1>12
  <2>3. PICK m \in DOMAIN down[c], l \in DOMAIN down[d] :
          /\ all[i] = down[c][m] /\ all[j] = down[d][l]
          /\ c < d \/ (c = d /\ m < l)
    BY <2>2
  <2>4. PICK p \in DOMAIN columns[c] : down[c][m] = columns[c][p]
    BY <1>7, <2>3 DEF SameElements
  <2>5. PICK q \in DOMAIN columns[d] : down[d][l] = columns[d][q]
    BY <1>7, <2>3 DEF SameElements
  <2>6. CASE c = d /\ m < l
    <3>1. SameColumn(all[i], all[j])
      BY <2>1, <2>3, <2>4, <2>5, <2>6 DEF Splits
    <3>2. all[i].top <= all[j].top
      BY <1>7, <2>3, <2>6
    <3>. QED  BY <3>1, <3>2 DEF InTurn
  <2>7. CASE c < d
    <3>1. c # d
      BY <1>3, <2>7
    <3>2. HorizontalOverlap(all[i], all[j]) = 0
      BY <2>1, <2>3, <2>4, <2>5, <3>1 DEF Splits
    <3>3. FirstOf(all[i], all[j], way)
      BY <2>1, <2>3, <2>4, <2>5, <2>7 DEF SideBySide
    <3>4. ~SameColumn(all[i], all[j])
      <4>1. all[i] \in Box /\ Proper(all[i]) /\ all[j] \in Box /\ Proper(all[j])
        BY <1>11, <1>12, SeqFacts DEF ProperBoxes
      <4>2. ~ (HorizontalOverlap(all[i], all[j]) > 0)
        BY <3>2
      <4>. QED  BY <4>1, <4>2, SharesWidth
    <3>. QED  BY <3>3, <3>4 DEF InTurn
  <2>. QED  BY <2>3, <2>6, <2>7
<1>. QED  BY <1>10, <1>11, <1>12 DEF all, down, columns


-----------------------------------------------------------------------------
(* The order of a page.                                                     *)

(* a has a place in s before one of b.                                      *)
Earlier(s, a, b) == \E i, j \in DOMAIN s : i < j /\ s[i] = a /\ s[j] = b

LEMMA OneAfterTheOther ==
  ASSUME NEW S, NEW s \in Seq(S), NEW t \in Seq(S)
  PROVE  /\ s \o t \in Seq(S)
         /\ ToSet(s \o t) = ToSet(s) \cup ToSet(t)
         /\ \A a, b : Earlier(s \o t, a, b) =>
              \/ Earlier(s, a, b) \/ Earlier(t, a, b)
              \/ a \in ToSet(s) /\ b \in ToSet(t)
<1>. DEFINE u == s \o t
            m == Len(s)
            n == Len(t)
<1>1. /\ u \in Seq(S) /\ m \in Nat /\ n \in Nat /\ DOMAIN u = 1 .. m + n
      /\ DOMAIN s = 1 .. m /\ DOMAIN t = 1 .. n
      /\ \A i \in 1 .. m + n : u[i] = IF i <= m THEN s[i] ELSE t[i - m]
  BY ConcatProperties, SeqFacts
<1>. HIDE DEF u, m, n
<1>2. \A i \in DOMAIN u :
        \/ i \in DOMAIN s /\ u[i] = s[i] /\ i <= m
        \/ i - m \in DOMAIN t /\ u[i] = t[i - m] /\ i > m
  BY <1>1
<1>3. \A i \in DOMAIN s : i \in DOMAIN u /\ u[i] = s[i]
  BY <1>1
<1>4. \A i \in DOMAIN t : i + m \in DOMAIN u /\ u[i + m] = t[i]
  <2>. SUFFICES ASSUME NEW i \in DOMAIN t
                PROVE  i + m \in DOMAIN u /\ u[i + m] = t[i]
    OBVIOUS
  <2>1. i + m \in 1 .. m + n /\ ~ (i + m <= m) /\ (i + m) - m = i
    BY <1>1
  <2>. QED  BY <1>1, <2>1
<1>5. ToSet(u) = ToSet(s) \cup ToSet(t)
  <2>1. ASSUME NEW e \in ToSet(u) PROVE e \in ToSet(s) \cup ToSet(t)
    BY <1>2 DEF ToSet
  <2>2. ASSUME NEW e \in ToSet(s) PROVE e \in ToSet(u)
    BY <1>3 DEF ToSet
  <2>3. ASSUME NEW e \in ToSet(t) PROVE e \in ToSet(u)
    BY <1>4 DEF ToSet
  <2>. QED  BY <2>1, <2>2, <2>3
<1>6. ASSUME NEW a, NEW b, Earlier(u, a, b)
      PROVE  \/ Earlier(s, a, b) \/ Earlier(t, a, b)
             \/ a \in ToSet(s) /\ b \in ToSet(t)
  <2>1. PICK i \in DOMAIN u, j \in DOMAIN u : i < j /\ u[i] = a /\ u[j] = b
    BY <1>6 DEF Earlier
  <2>2. i \in Int /\ j \in Int
    BY <1>1
  <2>3. CASE i <= m /\ j <= m
    <3>1. i \in DOMAIN s /\ j \in DOMAIN s /\ s[i] = a /\ s[j] = b
      BY <1>1, <1>2, <2>1, <2>2, <2>3
    <3>. QED  BY <2>1, <3>1 DEF Earlier
  <2>4. CASE i > m /\ j > m
    <3>1. /\ i - m \in DOMAIN t /\ j - m \in DOMAIN t
          /\ t[i - m] = a /\ t[j - m] = b
      BY <1>1, <1>2, <2>1, <2>2, <2>4
    <3>2. i - m < j - m
      BY <1>1, <2>1, <2>2
    <3>. QED  BY <3>1, <3>2 DEF Earlier
  <2>5. CASE i <= m /\ j > m
    <3>1. i \in DOMAIN s /\ s[i] = a /\ j - m \in DOMAIN t /\ t[j - m] = b
      BY <1>1, <1>2, <2>1, <2>2, <2>5
    <3>. QED  BY <3>1 DEF ToSet
  <2>6. ~ (i > m /\ j <= m)
    BY <1>1, <2>1, <2>2
  <2>. QED  BY <1>1, <2>2, <2>3, <2>4, <2>5, <2>6
<1>. QED  BY <1>1, <1>5, <1>6 DEF u

LEMMA EarlierIsIn ==
  ASSUME NEW s, NEW a, NEW b, Earlier(s, a, b)
  PROVE  a \in ToSet(s) /\ b \in ToSet(s)
BY DEF Earlier, ToSet

LEMMA SameSets ==
  ASSUME NEW s, NEW t
  PROVE  SameElements(t, s) <=> ToSet(t) = ToSet(s)
BY DEF SameElements, ToSet

LEMMA OnlyTheSet ==
  ASSUME NEW s, ProperBoxes(s), NEW those
  PROVE  ProperBoxes(Only(s, those)) /\ ToSet(Only(s, those)) = ToSet(s) \cap those
<1>. DEFINE t == Only(s, those)
<1>1. s \in Seq(Box) /\ \A k \in DOMAIN s : Proper(s[k])
  BY DEF ProperBoxes
<1>2. /\ t \in Seq(Box)
      /\ \A m \in DOMAIN t : t[m] \in those /\ \E k \in DOMAIN s : t[m] = s[k]
      /\ \A k \in DOMAIN s : s[k] \in those => \E m \in DOMAIN t : t[m] = s[k]
  BY <1>1, OnlySome
<1>. HIDE DEF t
<1>3. ProperBoxes(t)
  BY <1>1, <1>2 DEF ProperBoxes
<1>4. ToSet(t) = ToSet(s) \cap those
  BY <1>2 DEF ToSet
<1>. QED  BY <1>3, <1>4 DEF t

(* What ColumnsInOrder says of a box and one that comes after it.           *)
InPlace(narrow, a, b, way) ==
  /\ a \in narrow /\ b \in narrow => InTurn(a, b, way)
  /\ a \in narrow /\ b \notin narrow => \E c \in narrow : b.bottom > c.top
  /\ a \notin narrow /\ b \in narrow => \E c \in narrow : a.top < c.bottom

LEMMA OrderHolds ==
  ASSUME NEW some, ProperBoxes(some), NEW way
  PROVE  LET o == OrderRegionBoxes(some, way)
             narrow == {b \in ToSet(some) : ~Spanning(b)}
         IN  /\ ProperBoxes(o) /\ ToSet(o) = ToSet(some)
             /\ InColumns(narrow) =>
                  \A a, b : Earlier(o, a, b) => InPlace(narrow, a, b, way)
<1>. DEFINE W == {b \in ToSet(some) : Spanning(b)}
            N == {b \in ToSet(some) : ~Spanning(b)}
            wide == Only(some, W)
            narrow == Only(some, ToSet(some) \ ToSet(wide))
            columns == Columns(narrow, way)
            headers == {b \in ToSet(wide) : b.bottom <= Hull(narrow).top}
            footers == {b \in ToSet(wide) : b.top >= Hull(narrow).bottom}
            H == ByTop(Only(wide, headers))
            F == Flat([c \in DOMAIN columns |-> Downwards(columns[c], way)])
            M == ByTop(Only(wide, ToSet(wide) \ (headers \cup footers)))
            T == ByTop(Only(wide, footers))
            o == OrderRegionBoxes(some, way)
<1>1. o = IF narrow = <<>> THEN Downwards(wide, way)
          ELSE H \o F \o M \o T
  BY DEF OrderRegionBoxes
<1>2. ProperBoxes(wide) /\ ToSet(wide) = W
  <2>1. ToSet(some) \cap W = W
    OBVIOUS
  <2>. HIDE DEF W
  <2>. QED  BY <2>1, OnlyTheSet
<1>3. ProperBoxes(narrow) /\ ToSet(narrow) = N
  <2>1. ToSet(some) \cap (ToSet(some) \ W) = N
    OBVIOUS
  <2>. HIDE DEF W, N, wide
  <2>. QED  BY <1>2, <2>1, OnlyTheSet
<1>4. W \cup N = ToSet(some) /\ W \cap N = {}
  OBVIOUS
<1>. HIDE DEF o, wide, narrow
<1>5. CASE narrow = <<>>
  <2>1. N = {}
    <3>1. ToSet(<<>>) = {}
      BY DEF ToSet
    <3>. QED  BY <1>3, <1>5, <3>1
  <2>2. ProperBoxes(o) /\ SameElements(o, wide)
    BY <1>1, <1>2, <1>5, DownwardsRises
  <2>3. ToSet(o) = ToSet(some)
    BY <1>2, <1>4, <2>1, <2>2, SameSets
  <2>4. \A a, b : InPlace(N, a, b, way)
    <3>. HIDE DEF N
    <3>. QED  BY <2>1 DEF InPlace
  <2>. QED  BY <2>2, <2>3, <2>4 DEF o
<1>6. CASE narrow # <<>>
  <2>. DEFINE h == Hull(narrow)
  <2>1. IsHull(h, narrow, Len(narrow))
    BY <1>3, <1>6, HullIsHull DEF ProperBoxes
  <2>2. /\ narrow \in Seq(Box) /\ DOMAIN narrow = 1 .. Len(narrow)
        /\ \A k \in DOMAIN narrow : Proper(narrow[k])
    BY <1>3, SeqFacts DEF ProperBoxes
  <2>3. h \in Box /\ Proper(h)
    BY <2>1, <2>2 DEF IsHull
  <2>4. /\ \E c \in N : h.top = c.top
        /\ \E c \in N : h.bottom = c.bottom
    <3>. HIDE DEF h, N
    <3>1. \A k \in 1 .. Len(narrow) : narrow[k] \in N
      BY <1>3, <2>2 DEF ToSet
    <3>. QED  BY <2>1, <3>1 DEF IsHull
  <2>5. /\ h.top \in Int /\ h.bottom \in Int /\ h.top < h.bottom
    BY <2>3, BoxFields, ProperFields
  <2>. HIDE DEF h
  <2>6. /\ ProperBoxes(H) /\ ToSet(H) = headers
        /\ ProperBoxes(M) /\ ToSet(M) = W \ (headers \cup footers)
        /\ ProperBoxes(T) /\ ToSet(T) = footers
    <3>1. \A those \in SUBSET W :
            /\ ProperBoxes(ByTop(Only(wide, those)))
            /\ ToSet(ByTop(Only(wide, those))) = those
      <4>. SUFFICES ASSUME NEW those \in SUBSET W
                    PROVE  /\ ProperBoxes(ByTop(Only(wide, those)))
                           /\ ToSet(ByTop(Only(wide, those))) = those
        OBVIOUS
      <4>. HIDE DEF W
      <4>1. ProperBoxes(Only(wide, those)) /\ ToSet(Only(wide, those)) = those
        BY <1>2, OnlyTheSet
      <4>2. /\ ProperBoxes(ByTop(Only(wide, those)))
            /\ SameElements(ByTop(Only(wide, those)), Only(wide, those))
        BY <4>1, ByTopSame
      <4>. QED  BY <4>1, <4>2, SameSets
    <3>2. /\ headers \in SUBSET W /\ footers \in SUBSET W
          /\ ToSet(wide) \ (headers \cup footers) \in SUBSET W
      <4>. HIDE DEF W
      <4>. QED  BY <1>2
    <3>. HIDE DEF W, headers, footers
    <3>. QED  BY <1>2, <3>1, <3>2
  <2>7. /\ ProperBoxes(F) /\ ToSet(F) = N
        /\ InColumns(N) => \A i, j \in DOMAIN F : i < j => InTurn(F[i], F[j], way)
    <3>1. /\ ProperBoxes(F) /\ SameElements(F, narrow)
          /\ InColumns(ToSet(narrow)) =>
               \A i, j \in DOMAIN F : i < j => InTurn(F[i], F[j], way)
      BY <1>3, ColumnsRead
    <3>. HIDE DEF F, N
    <3>. QED  BY <1>3, <3>1, SameSets
  <2>8. InColumns(N) => \A a, b : Earlier(F, a, b) => InTurn(a, b, way)
    <3>. HIDE DEF F, N
    <3>. QED  BY <2>7 DEF Earlier
  <2>9. /\ headers = {b \in W : b.bottom <= h.top}
        /\ footers = {b \in W : b.top >= h.bottom}
    <3>. HIDE DEF W
    <3>. QED  BY <1>2 DEF h
  <2>10. \A b \in W : /\ b.top \in Int /\ b.bottom \in Int /\ b.top < b.bottom
    <3>1. \A k \in DOMAIN some : some[k] \in Box /\ Proper(some[k])
      BY SeqFacts DEF ProperBoxes
    <3>2. \A b \in W : b \in Box /\ Proper(b)
      BY <3>1 DEF ToSet
    <3>. HIDE DEF W
    <3>. QED  BY <3>2, BoxFields, ProperFields
  <2>. HIDE DEF H, F, M, T
  <2>11. /\ H \in Seq(Box) /\ F \in Seq(Box) /\ M \in Seq(Box) /\ T \in Seq(Box)
    BY <2>6, <2>7 DEF ProperBoxes
  <2>. DEFINE HF == H \o F
              HFM == HF \o M
  <2>12. /\ HF \in Seq(Box) /\ ToSet(HF) = ToSet(H) \cup ToSet(F)
         /\ \A a, b : Earlier(HF, a, b) =>
              \/ Earlier(H, a, b) \/ Earlier(F, a, b)
              \/ a \in ToSet(H) /\ b \in ToSet(F)
    BY <2>11, OneAfterTheOther
  <2>. HIDE DEF HF
  <2>13. /\ HFM \in Seq(Box) /\ ToSet(HFM) = ToSet(HF) \cup ToSet(M)
         /\ \A a, b : Earlier(HFM, a, b) =>
              \/ Earlier(HF, a, b) \/ Earlier(M, a, b)
              \/ a \in ToSet(HF) /\ b \in ToSet(M)
    BY <2>11, <2>12, OneAfterTheOther
  <2>. HIDE DEF HFM
  <2>14. /\ HFM \o T \in Seq(Box) /\ ToSet(HFM \o T) = ToSet(HFM) \cup ToSet(T)
         /\ \A a, b : Earlier(HFM \o T, a, b) =>
              \/ Earlier(HFM, a, b) \/ Earlier(T, a, b)
              \/ a \in ToSet(HFM) /\ b \in ToSet(T)
    BY <2>11, <2>13, OneAfterTheOther
  <2>15. o = HFM \o T
    BY <1>1, <1>6 DEF HFM, HF
  <2>16. ToSet(o) = ToSet(some)
    <3>1. headers \subseteq W /\ footers \subseteq W
      BY <2>9
    <3>2. ToSet(o) = ((ToSet(H) \cup ToSet(F)) \cup ToSet(M)) \cup ToSet(T)
      BY <2>12, <2>13, <2>14, <2>15
    <3>. HIDE DEF W, N, headers, footers
    <3>3. /\ ToSet(H) = headers /\ ToSet(F) = N /\ ToSet(T) = footers
          /\ ToSet(M) = W \ (headers \cup footers)
      BY <2>6, <2>7
    <3>. HIDE DEF HFM
    <3>4. ToSet(o) = W \cup N
      BY <3>1, <3>2, <3>3
    <3>. QED  BY <1>4, <3>4
  <2>17. ProperBoxes(o)
    <3>1. o \in Seq(Box)
      BY <2>14, <2>15
    <3>. QED  BY <2>16, <3>1, SameAreHeld, SameSets
  <2>18. ASSUME InColumns(N), NEW a, NEW b, Earlier(o, a, b)
         PROVE  InPlace(N, a, b, way)
    <3>. DEFINE S == W \ (headers \cup footers)
    <3>0. headers \subseteq W /\ footers \subseteq W /\ S \subseteq W
      BY <2>9
    <3>. HIDE DEF W, N, headers, footers, S
    <3>1. /\ ToSet(H) = headers /\ ToSet(F) = N /\ ToSet(M) = S /\ ToSet(T) = footers
          /\ W \cap N = {}
      BY <1>4, <2>6, <2>7 DEF S
    <3>2. \/ Earlier(H, a, b) \/ Earlier(F, a, b) \/ Earlier(M, a, b)
          \/ Earlier(T, a, b)
          \/ a \in headers /\ b \in N
          \/ a \in headers \cup N /\ b \in S
          \/ a \in headers \cup N \cup S /\ b \in footers
      BY <2>12, <2>13, <2>14, <2>15, <2>18, <3>1
    <3>3. \/ a \in W /\ b \in W
          \/ Earlier(F, a, b) /\ a \in N /\ b \in N
          \/ a \in headers /\ b \in N
          \/ a \in N /\ b \in S \cup footers
      BY <3>0, <3>1, <3>2, EarlierIsIn
    <3>4. CASE a \in W /\ b \in W
      BY <3>1, <3>4 DEF InPlace
    <3>5. CASE Earlier(F, a, b) /\ a \in N /\ b \in N
      BY <2>8, <2>18, <3>5 DEF InPlace
    <3>6. CASE a \in headers /\ b \in N
      <4>1. a \in W /\ a.bottom <= h.top
        BY <2>9, <3>6
      <4>2. PICK c \in N : h.bottom = c.bottom
        BY <2>4
      <4>3. a.top < c.bottom
        BY <2>5, <2>10, <4>1, <4>2
      <4>. QED  BY <3>1, <3>6, <4>1, <4>3 DEF InPlace
    <3>7. CASE a \in N /\ b \in S \cup footers
      <4>1. /\ b \in W
            /\ b \notin headers \/ b \in footers
        BY <3>0, <3>7 DEF S
      <4>2. PICK c \in N : h.top = c.top
        BY <2>4
      <4>3. b.bottom > h.top
        <5>1. CASE b \notin headers
          BY <2>5, <2>9, <2>10, <4>1, <5>1
        <5>2. CASE b \in footers
          BY <2>5, <2>9, <2>10, <4>1, <5>2
        <5>. QED  BY <4>1, <5>1, <5>2
      <4>. QED  BY <3>1, <3>7, <4>1, <4>2, <4>3 DEF InPlace
    <3>. QED  BY <3>3, <3>4, <3>5, <3>6, <3>7
  <2>. QED  BY <2>16, <2>17, <2>18 DEF o
<1>. QED  BY <1>5, <1>6


-----------------------------------------------------------------------------
(* Texts.                                                                   *)

Text == [lines : Seq(Seq(STRING)), current : Seq(STRING), key : Seq(Int)]

NoText == [lines |-> <<>>, current |-> <<>>, key |-> <<>>]

(* The text after each word.                                                *)
Writing(written, some) ==
  /\ written \in [0 .. Len(some) -> Text] /\ written[0] = NoText
  /\ \A k \in 1 .. Len(some) : written[k] = Written(written[k - 1], some[k])

LEMMA FlushedType ==
  ASSUME NEW text \in Text
  PROVE  Flushed(text) \in Seq(Seq(STRING))
<1>1. text.lines \in Seq(Seq(STRING)) /\ text.current \in Seq(STRING)
  BY DEF Text
<1>2. Append(text.lines, text.current) \in Seq(Seq(STRING))
  BY <1>1, OneMore
<1>. QED  BY <1>1, <1>2 DEF Flushed

LEMMA WrittenType ==
  ASSUME NEW text \in Text, NEW w \in Word
  PROVE  Written(text, w) \in Text
<1>1. /\ text.lines \in Seq(Seq(STRING)) /\ text.current \in Seq(STRING)
      /\ text.key \in Seq(Int)
      /\ w.text \in STRING
      /\ w.block \in Int /\ w.par \in Int /\ w.line \in Int
  BY WordFields DEF Text
<1>2. /\ Append(text.current, w.text) \in Seq(STRING)
      /\ <<w.text>> \in Seq(STRING)
  BY <1>1, OneMore
<1>3. LineKey(w) \in Seq(Int)
  BY <1>1 DEF LineKey
<1>4. Flushed(text) \in Seq(Seq(STRING))
  BY FlushedType
<1>5. Append(Flushed(text), <<>>) \in Seq(Seq(STRING))
  <2>1. <<>> \in Seq(STRING)
    BY EmptySeq
  <2>. QED  BY <1>4, <2>1, OneMore
<1>6. [text EXCEPT !.current = Append(text.current, w.text)] \in Text
  BY <1>1, <1>2 DEF Text
<1>. DEFINE lines == IF text.key # <<>> /\ text.key[1] # w.block
                     THEN Append(Flushed(text), <<>>) ELSE Flushed(text)
<1>7. lines \in Seq(Seq(STRING))
  BY <1>4, <1>5
<1>. HIDE DEF lines
<1>8. [lines |-> lines, current |-> <<w.text>>, key |-> LineKey(w)] \in Text
  BY <1>2, <1>3, <1>7 DEF Text
<1>. QED  BY <1>6, <1>8 DEF Written, lines

LEMMA TextUnfolds ==
  ASSUME NEW some \in Seq(Word)
  PROVE  \E written : /\ Writing(written, some)
                      /\ ReconstructText(some) = Flushed(written[Len(some)])
<1>. DEFINE len == Len(some)
            Body(g) == [k \in 0 .. len |->
                          IF k = 0
                          THEN [lines |-> <<>>, current |-> <<>>, key |-> <<>>]
                          ELSE Written(g[k - 1], some[k])]
            written == CHOOSE g : g = Body(g)
            step == [x \in Text \X Int |->
                       IF x[2] \in 1 .. len THEN Written(x[1], some[x[2]])
                       ELSE x[1]]
<1>1. ReconstructText(some) = Flushed(written[len])
  BY DEF ReconstructText
<1>2. len \in Nat /\ \A n \in 1 .. len : some[n] \in Word
  BY LenProperties, ElementOfSeq
<1>. HIDE DEF len
<1>3. step \in [Text \X Int -> Text]
  <2>1. \A x \in Text \X Int : x[1] \in Text /\ x[2] \in Int
    OBVIOUS
  <2>2. \A text \in Text, w \in Word : Written(text, w) \in Text
    BY WrittenType
  <2>. QED  BY <1>2, <2>1, <2>2
<1>4. NoText \in Text
  <2>1. <<>> \in Seq(Seq(STRING)) /\ <<>> \in Seq(STRING) /\ <<>> \in Seq(Int)
    BY EmptySeq
  <2>. QED  BY <2>1 DEF Text, NoText
<1>5. PICK f : Steps(f, Text, 0, len, NoText, step)
  <2>1. 0 \in Int /\ len \in Int /\ 0 <= len
    BY <1>2
  <2>. HIDE DEF step
  <2>. QED  BY <1>3, <1>4, <2>1, StepsExist
<1>6. /\ f \in [0 .. len -> Text] /\ f[0] = NoText
      /\ \A k \in 1 .. len : f[k] = step[<<f[k - 1], k>>]
  <2>1. 0 + 1 = 1
    OBVIOUS
  <2>. QED  BY <1>5, <2>1 DEF Steps
<1>7. ASSUME NEW k \in 1 .. len PROVE f[k] = Written(f[k - 1], some[k])
  <2>1. k - 1 \in 0 .. len /\ k \in Int
    BY <1>2
  <2>2. f[k - 1] \in Text
    BY <1>6, <2>1
  <2>3. <<f[k - 1], k>> \in Text \X Int
    BY <2>1, <2>2
  <2>. QED  BY <1>6, <2>3
<1>8. f = Body(f)
  <2>1. \A k \in 0 .. len : k = 0 \/ k \in 1 .. len
    BY <1>2
  <2>2. f = [k \in 0 .. len |-> f[k]]
    BY <1>6
  <2>3. \A k \in 0 .. len :
          f[k] = IF k = 0 THEN NoText ELSE Written(f[k - 1], some[k])
    BY <1>6, <1>7, <2>1
  <2>. QED  BY <2>2, <2>3 DEF NoText
<1>9. written = Body(written)
  <2>. HIDE DEF Body
  <2>. QED  BY <1>8
<1>. HIDE DEF written, step
<1>10. /\ DOMAIN written = 0 .. len /\ written = [k \in 0 .. len |-> written[k]]
       /\ written[0] = NoText
       /\ \A k \in 1 .. len : written[k] = Written(written[k - 1], some[k])
  <2>1. /\ DOMAIN Body(written) = 0 .. len
        /\ Body(written) = [k \in 0 .. len |-> Body(written)[k]]
        /\ Body(written)[0] = NoText
    BY <1>2 DEF NoText
  <2>2. \A k \in 1 .. len : Body(written)[k] = Written(written[k - 1], some[k])
    BY <1>2
  <2>. HIDE DEF Body
  <2>. QED  BY <1>9, <2>1, <2>2
<1>. HIDE DEF Body
<1>. DEFINE N == {n \in Nat : n <= len => written[n] \in Text}
<1>11. 0 \in N
  BY <1>4, <1>10
<1>12. ASSUME NEW n \in Nat, n \in N PROVE n + 1 \in N
  <2>. SUFFICES ASSUME n + 1 <= len PROVE written[n + 1] \in Text
    OBVIOUS
  <2>1. n + 1 \in 1 .. len /\ (n + 1) - 1 = n /\ n <= len
    BY <1>2
  <2>2. written[n + 1] = Written(written[n], some[n + 1])
    BY <1>10, <2>1
  <2>3. written[n] \in Text /\ some[n + 1] \in Word
    BY <1>2, <1>12, <2>1
  <2>. QED  BY <2>2, <2>3, WrittenType
<1>13. written \in [0 .. len -> Text]
  <2>1. \A n \in Nat : n \in N
    <3>. HIDE DEF N
    <3>. QED  BY <1>11, <1>12, NumberInduction
  <2>2. \A n \in 0 .. len : written[n] \in Text
    BY <1>2, <2>1
  <2>. QED  BY <1>10, <2>2
<1>14. Writing(written, some)
  BY <1>10, <1>13 DEF Writing, len
<1>. QED  BY <1>1, <1>14 DEF len

(* Where the words of a text belong.                                        *)
LEMMA LineNumbers ==
  ASSUME NEW found, NEW k \in Nat \ {0}
  PROVE  /\ IsFiniteSet(Breaks(found, k)) /\ IsFiniteSet(Parts(found, k))
         /\ Cardinality(Breaks(found, k)) \in Nat
         /\ Cardinality(Parts(found, k)) \in Nat
         /\ LineOf(found, k) \in Nat \ {0}
         /\ LineOf(found, 1) = 1
<1>1. IsFiniteSet(2 .. k)
  BY FS_Interval
<1>2. Breaks(found, k) \subseteq 2 .. k /\ Parts(found, k) \subseteq 2 .. k
  BY DEF Breaks, Parts
<1>3. IsFiniteSet(Breaks(found, k)) /\ IsFiniteSet(Parts(found, k))
  BY <1>1, <1>2, FS_Subset
<1>4. Cardinality(Breaks(found, k)) \in Nat /\ Cardinality(Parts(found, k)) \in Nat
  BY <1>3, FS_CardinalityType
<1>5. LineOf(found, 1) = 1
  <2>1. Breaks(found, 1) = {} /\ Parts(found, 1) = {}
    <3>1. 2 .. 1 = {}
      OBVIOUS
    <3>. QED  BY <3>1 DEF Breaks, Parts
  <2>2. Cardinality(Breaks(found, 1)) = 0 /\ Cardinality(Parts(found, 1)) = 0
    BY <2>1, FS_EmptySet
  <2>. QED  BY <2>2 DEF LineOf
<1>6. LineOf(found, k) \in Nat \ {0}
  BY <1>4 DEF LineOf
<1>. QED  BY <1>3, <1>4, <1>5, <1>6

LEMMA OneMoreNumber ==
  ASSUME NEW n \in Nat \ {0}, NEW S, NEW T,
         S \subseteq 2 .. n, T \subseteq 2 .. n + 1,
         \A k \in 2 .. n : k \in T <=> k \in S
  PROVE  IF n + 1 \in T THEN T = S \cup {n + 1} ELSE T = S
<1>1. \A k \in 2 .. n + 1 : k \in 2 .. n \/ k = n + 1
  OBVIOUS
<1>2. \A k : k \in T => k \in 2 .. n \/ k = n + 1
  BY <1>1
<1>3. \A k : k \in S => k \in 2 .. n
  OBVIOUS
<1>. DEFINE N == 2 .. n
            e == n + 1
<1>. HIDE DEF N, e
<1>4. /\ \A k : k \in T => k \in N \/ k = e
      /\ \A k : k \in S => k \in N
      /\ \A k \in N : k \in T <=> k \in S
  BY <1>2, <1>3 DEF N, e
<1>5. CASE e \in T
  <2>1. \A k : k \in T <=> k \in S \cup {e}
    BY <1>4, <1>5
  <2>. QED  BY <1>5, <2>1
<1>6. CASE e \notin T
  <2>1. \A k : k \in T <=> k \in S
    BY <1>4, <1>6
  <2>2. T = S
    BY <2>1
  <2>. QED  BY <1>6, <2>2
<1>. QED  BY <1>5, <1>6 DEF e

LEMMA NextLine ==
  ASSUME NEW found, NEW k \in Nat \ {0}
  PROVE  LineOf(found, k + 1) =
           LineOf(found, k)
             + (IF SameLine(found[k], found[k + 1]) THEN 0 ELSE 1)
             + (IF found[k].block = found[k + 1].block THEN 0 ELSE 1)
<1>1. k + 1 \in Nat \ {0} /\ k + 1 \in 2 .. k + 1 /\ (k + 1) - 1 = k
      /\ 2 .. k \subseteq 2 .. k + 1 /\ k + 1 \notin 2 .. k
  OBVIOUS
<1>2. /\ Breaks(found, k) \subseteq 2 .. k
      /\ Breaks(found, k + 1) \subseteq 2 .. k + 1
      /\ \A j \in 2 .. k : j \in Breaks(found, k + 1) <=> j \in Breaks(found, k)
      /\ k + 1 \in Breaks(found, k + 1) <=> ~SameLine(found[k], found[k + 1])
  BY <1>1 DEF Breaks
<1>3. /\ Parts(found, k) \subseteq 2 .. k
      /\ Parts(found, k + 1) \subseteq 2 .. k + 1
      /\ \A j \in 2 .. k : j \in Parts(found, k + 1) <=> j \in Parts(found, k)
      /\ k + 1 \in Parts(found, k + 1) <=> found[k].block # found[k + 1].block
  BY <1>1 DEF Parts
<1>4. Breaks(found, k + 1) =
        IF SameLine(found[k], found[k + 1]) THEN Breaks(found, k)
        ELSE Breaks(found, k) \cup {k + 1}
  <2>1. IF k + 1 \in Breaks(found, k + 1)
        THEN Breaks(found, k + 1) = Breaks(found, k) \cup {k + 1}
        ELSE Breaks(found, k + 1) = Breaks(found, k)
    BY <1>2, OneMoreNumber
  <2>. QED  BY <1>2, <2>1, Zenon
<1>5. Parts(found, k + 1) =
        IF found[k].block = found[k + 1].block THEN Parts(found, k)
        ELSE Parts(found, k) \cup {k + 1}
  <2>1. IF k + 1 \in Parts(found, k + 1)
        THEN Parts(found, k + 1) = Parts(found, k) \cup {k + 1}
        ELSE Parts(found, k + 1) = Parts(found, k)
    BY <1>3, OneMoreNumber
  <2>. QED  BY <1>3, <2>1, Zenon
<1>6. k + 1 \notin Breaks(found, k) /\ k + 1 \notin Parts(found, k)
  BY <1>1, <1>2, <1>3
<1>7. /\ IsFiniteSet(Breaks(found, k)) /\ IsFiniteSet(Parts(found, k))
      /\ Cardinality(Breaks(found, k)) \in Nat
      /\ Cardinality(Parts(found, k)) \in Nat
  BY LineNumbers
<1>8. /\ Cardinality(Breaks(found, k) \cup {k + 1}) = Cardinality(Breaks(found, k)) + 1
      /\ Cardinality(Parts(found, k) \cup {k + 1}) = Cardinality(Parts(found, k)) + 1
  BY <1>6, <1>7, FS_AddElement
<1>9. /\ Cardinality(Breaks(found, k + 1)) =
           Cardinality(Breaks(found, k))
             + (IF SameLine(found[k], found[k + 1]) THEN 0 ELSE 1)
      /\ Cardinality(Parts(found, k + 1)) =
           Cardinality(Parts(found, k))
             + (IF found[k].block = found[k + 1].block THEN 0 ELSE 1)
  BY <1>4, <1>5, <1>7, <1>8
<1>. QED  BY <1>7, <1>9 DEF LineOf

LEMMA LaterLines ==
  ASSUME NEW found, NEW k \in Nat \ {0}, NEW j \in 1 .. k
  PROVE  LineOf(found, j) <= LineOf(found, k)
<1>1. j \in Nat \ {0} /\ 2 .. j \subseteq 2 .. k
  OBVIOUS
<1>2. Breaks(found, j) \subseteq Breaks(found, k) /\ Parts(found, j) \subseteq Parts(found, k)
  BY <1>1 DEF Breaks, Parts
<1>3. /\ IsFiniteSet(Breaks(found, k)) /\ IsFiniteSet(Parts(found, k))
      /\ Cardinality(Breaks(found, k)) \in Nat
      /\ Cardinality(Parts(found, k)) \in Nat
      /\ Cardinality(Breaks(found, j)) \in Nat
      /\ Cardinality(Parts(found, j)) \in Nat
  BY <1>1, LineNumbers
<1>4. /\ Cardinality(Breaks(found, j)) <= Cardinality(Breaks(found, k))
      /\ Cardinality(Parts(found, j)) <= Cardinality(Parts(found, k))
  BY <1>2, <1>3, FS_Subset
<1>. QED  BY <1>3, <1>4 DEF LineOf

LEMMA FirstPlace ==
  ASSUME NEW found
  PROVE  PlaceOf(found, 1) = 1
<1>1. {j \in 1 .. 1 : LineOf(found, j) = LineOf(found, 1)} = {1}
  OBVIOUS
<1>. QED  BY <1>1, FS_Singleton DEF PlaceOf

LEMMA NextPlace ==
  ASSUME NEW found, NEW k \in Nat \ {0}
  PROVE  /\ PlaceOf(found, k) \in Nat
         /\ PlaceOf(found, k + 1) =
              IF LineOf(found, k + 1) = LineOf(found, k)
              THEN PlaceOf(found, k) + 1 ELSE 1
<1>. DEFINE Sharing(n) == {j \in 1 .. n : LineOf(found, j) = LineOf(found, n)}
<1>1. /\ \A j \in 1 .. k + 1 : j \in 1 .. k \/ j = k + 1
      /\ 1 .. k \subseteq 1 .. k + 1 /\ k + 1 \in 1 .. k + 1 /\ k + 1 \notin 1 .. k
  OBVIOUS
<1>2. IsFiniteSet(Sharing(k)) /\ Cardinality(Sharing(k)) \in Nat
  <2>1. IsFiniteSet(1 .. k) /\ Sharing(k) \subseteq 1 .. k
    BY FS_Interval
  <2>. QED  BY <2>1, FS_Subset, FS_CardinalityType
<1>3. CASE LineOf(found, k + 1) = LineOf(found, k)
  <2>1. Sharing(k + 1) = Sharing(k) \cup {k + 1}
    <3>1. \A j \in 1 .. k : j \in Sharing(k + 1) <=> j \in Sharing(k)
      BY <1>1, <1>3
    <3>2. k + 1 \in Sharing(k + 1)
      BY <1>1
    <3>. QED  BY <1>1, <3>1, <3>2
  <2>2. k + 1 \notin Sharing(k)
    BY <1>1
  <2>3. Cardinality(Sharing(k) \cup {k + 1}) = Cardinality(Sharing(k)) + 1
    <3>. HIDE DEF Sharing
    <3>. QED  BY <1>2, <2>2, FS_AddElement
  <2>. QED  BY <1>2, <1>3, <2>1, <2>3 DEF PlaceOf
<1>4. CASE LineOf(found, k + 1) # LineOf(found, k)
  <2>1. LineOf(found, k) < LineOf(found, k + 1)
    <3>1. LineOf(found, k) <= LineOf(found, k + 1)
      BY LaterLines
    <3>2. LineOf(found, k) \in Nat /\ LineOf(found, k + 1) \in Nat
      BY LineNumbers
    <3>. QED  BY <1>4, <3>1, <3>2
  <2>2. ASSUME NEW j \in 1 .. k PROVE LineOf(found, j) # LineOf(found, k + 1)
    <3>1. LineOf(found, j) <= LineOf(found, k)
      BY LaterLines
    <3>2. /\ LineOf(found, k) \in Nat /\ LineOf(found, k + 1) \in Nat
          /\ LineOf(found, j) \in Nat
      BY LineNumbers
    <3>. QED  BY <2>1, <3>1, <3>2
  <2>3. Sharing(k + 1) = {k + 1}
    BY <1>1, <2>2
  <2>. QED  BY <1>2, <1>4, <2>3, FS_Singleton DEF PlaceOf
<1>. QED  BY <1>3, <1>4, <1>2 DEF PlaceOf

LEMMA PlacesStay ==
  ASSUME NEW found \in Seq(Word), NEW w \in Word, NEW k \in 1 .. Len(found)
  PROVE  /\ LineOf(Append(found, w), k) = LineOf(found, k)
         /\ PlaceOf(Append(found, w), k) = PlaceOf(found, k)
<1>. DEFINE new == Append(found, w)
            n == Len(found)
<1>1. n \in Nat /\ \A i \in 1 .. n : new[i] = found[i]
  BY OneMore
<1>. HIDE DEF new
<1>2. ASSUME NEW m \in 1 .. n PROVE LineOf(new, m) = LineOf(found, m)
  <2>1. \A j \in 2 .. m : j \in 1 .. n /\ j - 1 \in 1 .. n
    BY <1>1
  <2>2. \A j \in 2 .. m : new[j] = found[j] /\ new[j - 1] = found[j - 1]
    BY <1>1, <2>1
  <2>3. Breaks(new, m) = Breaks(found, m) /\ Parts(new, m) = Parts(found, m)
    BY <2>2 DEF Breaks, Parts
  <2>. QED  BY <2>3 DEF LineOf
<1>3. \A j \in 1 .. k : j \in 1 .. n
  BY <1>1
<1>4. {j \in 1 .. k : LineOf(new, j) = LineOf(new, k)} =
        {j \in 1 .. k : LineOf(found, j) = LineOf(found, k)}
  BY <1>2, <1>3
<1>5. PlaceOf(new, k) = PlaceOf(found, k)
  BY <1>4 DEF PlaceOf
<1>. QED  BY <1>2, <1>5 DEF new

LEMMA TextsAppend ==
  ASSUME NEW found \in Seq(Word), NEW w \in Word
  PROVE  /\ Texts(found) \in Seq(STRING)
         /\ Texts(Append(found, w)) = Append(Texts(found), w.text)
<1>. DEFINE texts == Texts(found)
            new == Append(found, w)
            n == Len(found)
<1>1. /\ n \in Nat /\ DOMAIN found = 1 .. n /\ DOMAIN new = 1 .. n + 1
      /\ \A i \in 1 .. n : new[i] = found[i] /\ found[i] \in Word
      /\ new[n + 1] = w
  BY OneMore, ElementOfSeq
<1>2. \A i \in 1 .. n : found[i].text \in STRING
  BY <1>1, WordFields
<1>3. texts \in Seq(STRING)
  <2>1. texts = [k \in 1 .. n |-> found[k].text]
    BY <1>1 DEF Texts
  <2>. QED  BY <1>1, <1>2, <2>1, SeqDef
<1>4. /\ DOMAIN texts = 1 .. n /\ \A i \in 1 .. n : texts[i] = found[i].text
      /\ Len(texts) = n
  <2>1. texts = [k \in 1 .. n |-> found[k].text]
    BY <1>1 DEF Texts
  <2>2. DOMAIN texts = 1 .. Len(texts) /\ Len(texts) \in Nat
    BY <1>3, LenProperties
  <2>. QED  BY <1>1, <2>1, <2>2
<1>5. w.text \in STRING
  BY WordFields
<1>6. /\ Append(texts, w.text) \in Seq(STRING)
      /\ DOMAIN Append(texts, w.text) = 1 .. n + 1
      /\ \A i \in 1 .. n : Append(texts, w.text)[i] = texts[i]
      /\ Append(texts, w.text)[n + 1] = w.text
  <2>. HIDE DEF texts
  <2>. QED  BY <1>3, <1>4, <1>5, OneMore
<1>7. Texts(new) = [k \in 1 .. n + 1 |-> new[k].text]
  BY <1>1 DEF Texts
<1>8. Append(texts, w.text) = [k \in 1 .. n + 1 |-> Append(texts, w.text)[k]]
  BY <1>6, LenProperties, SeqDef
<1>9. ASSUME NEW k \in 1 .. n + 1 PROVE new[k].text = Append(texts, w.text)[k]
  <2>1. k \in 1 .. n \/ k = n + 1
    BY <1>1
  <2>. HIDE DEF new, texts
  <2>. QED  BY <1>1, <1>4, <1>6, <2>1
<1>. HIDE DEF new, texts, n
<1>10. Texts(new) = Append(texts, w.text)
  BY <1>7, <1>8, <1>9
<1>. QED  BY <1>3, <1>10 DEF new, texts

LEMMA FlushedTells ==
  ASSUME NEW text \in Text
  PROVE  /\ Flat(Flushed(text)) = Flat(text.lines) \o text.current
         /\ text.current # <<>> =>
              Flushed(text) = Append(text.lines, text.current)
<1>. DEFINE ls == text.lines
            cur == text.current
<1>1. ls \in Seq(Seq(STRING)) /\ cur \in Seq(STRING)
  BY DEF Text
<1>2. Flat(ls) \in Seq(STRING)
  <2>. HIDE DEF ls
  <2>. QED  BY <1>1, FlatPlaces
<1>3. CASE cur = <<>>
  <2>1. Flat(ls) \o cur = Flat(ls)
    <3>. HIDE DEF ls
    <3>. QED  BY <1>2, <1>3, ConcatEmptySeq
  <2>. QED  BY <1>3, <2>1 DEF Flushed
<1>4. CASE cur # <<>>
  <2>1. Flushed(text) = Append(ls, cur)
    BY <1>4 DEF Flushed
  <2>. HIDE DEF ls, cur
  <2>2. Flat(Append(ls, cur)) = Flat(ls) \o cur
    BY <1>1, FlatAppend
  <2>. QED  BY <2>1, <2>2 DEF ls, cur
<1>. QED  BY <1>3, <1>4

(* The words found are in their places on some lines.                       *)
Placed(lines, found) ==
  \A k \in 1 .. Len(found) :
    /\ LineOf(found, k) \in 1 .. Len(lines)
    /\ PlaceOf(found, k) \in 1 .. Len(lines[LineOf(found, k)])
    /\ lines[LineOf(found, k)][PlaceOf(found, k)] = found[k].text

(* What a text tells of the words found so far.                             *)
Told(text, found) ==
  /\ text \in Text /\ found \in Seq(Word)
  /\ Flat(text.lines) \o text.current = Texts(found)
  /\ found = <<>> => text = NoText
  /\ found # <<>> =>
       /\ text.current # <<>> /\ text.key = LineKey(found[Len(found)])
       /\ LineOf(found, Len(found)) = Len(text.lines) + 1
       /\ PlaceOf(found, Len(found)) = Len(text.current)
       /\ Placed(Append(text.lines, text.current), found)

LEMMA IsTold ==
  ASSUME NEW text \in Text, NEW found \in Seq(Word), found # <<>>,
         Flat(text.lines) \o text.current = Texts(found),
         text.current # <<>>, text.key = LineKey(found[Len(found)]),
         LineOf(found, Len(found)) = Len(text.lines) + 1,
         PlaceOf(found, Len(found)) = Len(text.current),
         Placed(Append(text.lines, text.current), found)
  PROVE  Told(text, found)
BY DEF Told

LEMMA MoreThanNothing ==
  ASSUME NEW S, NEW s \in Seq(S), NEW e \in S
  PROVE  Append(s, e) # <<>>
<1>. DEFINE t == Append(s, e)
<1>1. Len(t) = Len(s) + 1 /\ Len(s) \in Nat
  BY OneMore
<1>2. Len(t) # 0
  BY <1>1
<1>. HIDE DEF t
<1>3. t # <<>>
  BY <1>2
<1>. QED  BY <1>3 DEF t

LEMMA TellsNothing == Told(NoText, <<>>)
<1>1. <<>> \in Seq(Seq(STRING)) /\ <<>> \in Seq(STRING) /\ <<>> \in Seq(Int)
      /\ <<>> \in Seq(Word)
  BY EmptySeq
<1>2. NoText \in Text
  BY <1>1 DEF NoText, Text
<1>3. Flat(<<>>) \o <<>> = <<>>
  BY <1>1, FlatNone, ConcatEmptySeq
<1>4. Texts(<<>>) = <<>>
  BY DEF Texts
<1>. QED  BY <1>1, <1>2, <1>3, <1>4 DEF Told, NoText

(* Words keep their places when a line grows at its end, when lines follow  *)
(* it, and the new word takes its own.                                      *)
LEMMA PlacedMore ==
  ASSUME NEW found \in Seq(Word), NEW w \in Word, NEW lines, NEW more,
         Len(lines) \in Nat, Len(more) \in Nat,
         Placed(lines, found), Len(lines) <= Len(more),
         \A l \in 1 .. Len(lines) :
           /\ Len(lines[l]) \in Nat /\ Len(more[l]) \in Nat
           /\ Len(lines[l]) <= Len(more[l])
           /\ \A p \in 1 .. Len(lines[l]) : more[l][p] = lines[l][p],
         LineOf(Append(found, w), Len(found) + 1) = Len(more),
         Len(more) > 0,
         PlaceOf(Append(found, w), Len(found) + 1) = Len(more[Len(more)]),
         Len(more[Len(more)]) \in Nat \ {0},
         more[Len(more)][Len(more[Len(more)])] = w.text
  PROVE  Placed(more, Append(found, w))
<1>. DEFINE new == Append(found, w)
            n == Len(found)
<1>1. /\ n \in Nat /\ Len(new) = n + 1 /\ new[n + 1] = w
      /\ \A k \in 1 .. n : new[k] = found[k]
  BY OneMore
<1>2. \A k \in 1 .. n : /\ LineOf(new, k) = LineOf(found, k)
                        /\ PlaceOf(new, k) = PlaceOf(found, k)
  BY PlacesStay
<1>. HIDE DEF new, n
<1>3. ASSUME NEW k \in 1 .. n
      PROVE  /\ LineOf(new, k) \in 1 .. Len(more)
             /\ PlaceOf(new, k) \in 1 .. Len(more[LineOf(new, k)])
             /\ more[LineOf(new, k)][PlaceOf(new, k)] = new[k].text
  <2>. DEFINE l == LineOf(found, k)
              p == PlaceOf(found, k)
  <2>1. /\ l \in 1 .. Len(lines) /\ p \in 1 .. Len(lines[l])
        /\ lines[l][p] = found[k].text
    BY DEF Placed, n
  <2>2. LineOf(new, k) = l /\ PlaceOf(new, k) = p /\ new[k] = found[k]
    BY <1>1, <1>2
  <2>. HIDE DEF l, p
  <2>3. /\ Len(lines[l]) \in Nat /\ Len(more[l]) \in Nat
        /\ Len(lines[l]) <= Len(more[l]) /\ more[l][p] = lines[l][p]
    BY <2>1
  <2>4. l \in 1 .. Len(more) /\ p \in 1 .. Len(more[l])
    BY <2>1, <2>3
  <2>. QED  BY <2>1, <2>2, <2>3, <2>4
<1>4. /\ LineOf(new, n + 1) \in 1 .. Len(more)
      /\ PlaceOf(new, n + 1) \in 1 .. Len(more[LineOf(new, n + 1)])
      /\ more[LineOf(new, n + 1)][PlaceOf(new, n + 1)] = new[n + 1].text
  <2>1. /\ LineOf(new, n + 1) = Len(more)
        /\ PlaceOf(new, n + 1) = Len(more[Len(more)])
    BY DEF new, n
  <2>2. Len(more) \in 1 .. Len(more)
    OBVIOUS
  <2>3. Len(more[Len(more)]) \in 1 .. Len(more[Len(more)])
    OBVIOUS
  <2>. QED  BY <1>1, <2>1, <2>2, <2>3
<1>5. \A k \in 1 .. n + 1 : k \in 1 .. n \/ k = n + 1
  BY <1>1
<1>. QED  BY <1>1, <1>3, <1>4, <1>5 DEF Placed, new

LEMMA TellsMore ==
  ASSUME NEW text, NEW found, Told(text, found), NEW w \in Word, ~Blank(w)
  PROVE  Told(Written(text, w), Append(found, w))
<1>. DEFINE new == Append(found, w)
            written == Written(text, w)
            n == Len(found)
            ls == text.lines
            cur == text.current
            flushed == Flushed(text)
<1>1. /\ text \in Text /\ found \in Seq(Word)
      /\ ls \in Seq(Seq(STRING)) /\ cur \in Seq(STRING)
      /\ Flat(ls) \o cur = Texts(found)
  BY DEF Told, Text
<1>2. written \in Text
  BY <1>1, WrittenType
<1>3. /\ new \in Seq(Word) /\ new # <<>> /\ Len(new) = n + 1 /\ n \in Nat
      /\ new[n + 1] = w /\ \A i \in 1 .. n : new[i] = found[i]
  <2>1. /\ new \in Seq(Word) /\ Len(new) = n + 1 /\ n \in Nat
        /\ new[n + 1] = w /\ \A i \in 1 .. n : new[i] = found[i]
    BY <1>1, OneMore
  <2>2. Len(new) # 0
    BY <2>1
  <2>3. new # <<>>
    BY <2>2
  <2>. QED  BY <2>1, <2>3
<1>4. w.text \in STRING /\ Texts(new) = Append(Texts(found), w.text)
  BY <1>1, TextsAppend, WordFields
<1>5. /\ Flat(ls) \in Seq(STRING) /\ Flat(flushed) = Flat(ls) \o cur
      /\ flushed \in Seq(Seq(STRING)) /\ Flat(flushed) \in Seq(STRING)
  <2>1. flushed \in Seq(Seq(STRING)) /\ Flat(flushed) = Flat(ls) \o cur
    BY <1>1, FlushedTells, FlushedType
  <2>. HIDE DEF flushed, ls
  <2>. QED  BY <1>1, <2>1, FlatPlaces
<1>6. /\ Append(flushed, <<>>) \in Seq(Seq(STRING))
      /\ Flat(Append(flushed, <<>>)) = Flat(flushed)
  <2>. HIDE DEF flushed
  <2>1. <<>> \in Seq(STRING)
    BY EmptySeq
  <2>2. Flat(Append(flushed, <<>>)) = Flat(flushed) \o <<>>
    BY <1>5, <2>1, FlatAppend
  <2>3. Flat(flushed) \o <<>> = Flat(flushed)
    BY <1>5, ConcatEmptySeq
  <2>. QED  BY <1>5, <2>1, <2>2, <2>3, OneMore
<1>. DEFINE lines == IF text.key # <<>> /\ text.key[1] # w.block
                     THEN Append(flushed, <<>>) ELSE flushed
<1>7. LineKey(w) # text.key =>
        written = [lines |-> lines, current |-> <<w.text>>, key |-> LineKey(w)]
  BY DEF Written
<1>8. LineKey(w) = text.key =>
        written = [text EXCEPT !.current = Append(cur, w.text)]
  BY DEF Written
<1>9. LineKey(w) # <<>> /\ LineKey(w)[1] = w.block
  BY DEF LineKey
<1>10. /\ <<w.text>> # <<>> /\ <<w.text>> \in Seq(STRING)
       /\ Len(<<w.text>>) = 1 /\ <<w.text>>[1] = w.text
       /\ Append(cur, w.text) # <<>>
  <2>1. Append(cur, w.text) # <<>>
    <3>. HIDE DEF cur
    <3>. QED  BY <1>1, <1>4, MoreThanNothing
  <2>. QED  BY <1>4, <2>1
<1>11. ASSUME LineKey(w) = text.key PROVE Told(written, new)
  <2>1. found # <<>>
    BY <1>9, <1>11 DEF Told, NoText
  <2>2. /\ text.key = LineKey(found[n])
        /\ LineOf(found, n) = Len(ls) + 1 /\ PlaceOf(found, n) = Len(cur)
        /\ Placed(Append(ls, cur), found)
    BY <2>1 DEF Told
  <2>3. /\ n \in Nat \ {0} /\ n \in 1 .. n
    <3>1. n # 0
      BY <1>1, <2>1, EmptySeq
    <3>. QED  BY <1>3, <3>1
  <2>4. found[n].block = w.block /\ SameLine(found[n], w)
    BY <1>11, <2>2 DEF LineKey, SameLine
  <2>5. LineOf(new, n + 1) = Len(ls) + 1 /\ PlaceOf(new, n + 1) = Len(cur) + 1
    <3>1. LineOf(new, n) = LineOf(found, n) /\ PlaceOf(new, n) = PlaceOf(found, n)
      BY <1>1, <2>3, PlacesStay
    <3>2. new[n] = found[n]
      BY <1>3, <2>3
    <3>. HIDE DEF new, n
    <3>3. LineOf(new, n + 1) = LineOf(new, n)
      <4>1. LineOf(new, n) \in Nat
        BY <2>3, LineNumbers
      <4>2. LineOf(new, n + 1) =
              LineOf(new, n) + (IF SameLine(new[n], new[n + 1]) THEN 0 ELSE 1)
                + (IF new[n].block = new[n + 1].block THEN 0 ELSE 1)
        BY <2>3, NextLine
      <4>. QED  BY <1>3, <2>4, <3>2, <4>1, <4>2
    <3>4. PlaceOf(new, n + 1) = PlaceOf(new, n) + 1
      BY <2>3, <3>3, NextPlace
    <3>. QED  BY <2>2, <3>1, <3>3, <3>4
  <2>6. /\ written.lines = ls /\ written.current = Append(cur, w.text)
        /\ written.key = LineKey(w)
    BY <1>1, <1>8, <1>11 DEF Text
  <2>7. Flat(ls) \o Append(cur, w.text) = Texts(new)
    <3>. DEFINE flat == Flat(ls)
    <3>. HIDE DEF ls, cur, new, flat
    <3>1. flat \in Seq(STRING) /\ flat \o cur = Texts(found)
      BY <1>1, <1>5 DEF flat
    <3>2. flat \o Append(cur, w.text) = Append(flat \o cur, w.text)
      BY <1>1, <1>4, <3>1, AppendLast
    <3>. QED  BY <1>4, <3>1, <3>2 DEF flat
  <2>. DEFINE longer == Append(cur, w.text)
              before == Append(ls, cur)
              after == Append(ls, longer)
  <2>8. /\ Len(longer) = Len(cur) + 1 /\ Len(cur) \in Nat
        /\ longer[Len(cur) + 1] = w.text /\ longer \in Seq(STRING)
        /\ \A i \in 1 .. Len(cur) : longer[i] = cur[i]
    <3>. HIDE DEF cur
    <3>. QED  BY <1>1, <1>4, OneMore
  <2>. HIDE DEF longer
  <2>9. /\ Len(before) = Len(ls) + 1 /\ Len(after) = Len(ls) + 1
        /\ Len(ls) \in Nat
        /\ before[Len(ls) + 1] = cur /\ after[Len(ls) + 1] = longer
        /\ \A l \in 1 .. Len(ls) : before[l] = ls[l] /\ after[l] = ls[l]
        /\ \A l \in 1 .. Len(ls) : Len(ls[l]) \in Nat
    <3>. HIDE DEF ls, cur
    <3>1. \A l \in 1 .. Len(ls) : Len(ls[l]) \in Nat
      <4>1. \A l \in 1 .. Len(ls) : ls[l] \in Seq(STRING)
        BY <1>1, ElementOfSeq
      <4>. QED  BY <4>1, LenProperties
    <3>. QED  BY <1>1, <2>8, <3>1, OneMore
  <2>10. Placed(after, new)
    <3>. HIDE DEF ls, cur
    <3>1. ASSUME NEW l \in 1 .. Len(before)
          PROVE  /\ Len(before[l]) \in Nat /\ Len(after[l]) \in Nat
                 /\ Len(before[l]) <= Len(after[l])
                 /\ \A p \in 1 .. Len(before[l]) : after[l][p] = before[l][p]
      <4>1. l \in 1 .. Len(ls) \/ l = Len(ls) + 1
        BY <2>9
      <4>2. CASE l \in 1 .. Len(ls)
        BY <2>9, <4>2
      <4>3. CASE l = Len(ls) + 1
        BY <2>8, <2>9, <4>3
      <4>. QED  BY <4>1, <4>2, <4>3
    <3>2. Placed(before, found)
      BY <2>2 DEF ls, cur
    <3>. HIDE DEF before, after
    <3>3. /\ Len(before) \in Nat /\ Len(after) \in Nat
          /\ Len(before) <= Len(after) /\ Len(after) > 0
          /\ LineOf(new, n + 1) = Len(after)
      BY <2>5, <2>9
    <3>4. /\ after[Len(after)] = longer /\ Len(longer) \in Nat \ {0}
          /\ longer[Len(longer)] = w.text
          /\ PlaceOf(new, n + 1) = Len(longer)
      BY <2>5, <2>8, <2>9
    <3>. QED  BY <1>1, <3>1, <3>2, <3>3, <3>4, PlacedMore
  <2>. HIDE DEF written, ls, cur, new, n
  <2>11. /\ text.key = LineKey(new[Len(new)])
         /\ LineOf(new, Len(new)) = Len(ls) + 1
         /\ PlaceOf(new, Len(new)) = Len(longer)
    BY <1>3, <1>11, <2>5, <2>8
  <2>. QED
    BY <1>2, <1>3, <1>10, <1>11, <2>6, <2>7, <2>10, <2>11, IsTold DEF longer
<1>12. ASSUME LineKey(w) # text.key, found = <<>> PROVE Told(written, new)
  <2>1. ls = <<>> /\ cur = <<>> /\ text.key = <<>>
    BY <1>12 DEF Told, NoText
  <2>2. flushed = <<>> /\ lines = <<>>
    BY <2>1 DEF Flushed
  <2>3. /\ written.lines = <<>> /\ written.current = <<w.text>>
        /\ written.key = LineKey(w)
    BY <1>7, <1>12, <2>2
  <2>4. Flat(<<>>) \o <<w.text>> = Texts(new)
    <3>1. Texts(found) = <<>> /\ Flat(<<>>) = <<>> /\ <<>> \in Seq(STRING)
      BY <1>12, FlatNone, EmptySeq DEF Texts
    <3>2. Texts(new) = Append(<<>>, w.text)
      BY <1>4, <3>1
    <3>3. <<>> \o <<w.text>> = Append(<<>>, w.text)
      BY <1>4, <3>1, AppendLast
    <3>. QED  BY <3>1, <3>2, <3>3
  <2>5. n = 0 /\ n + 1 = 1 /\ Len(new) = 1 /\ new[1] = w
    BY <1>3, <1>12
  <2>. HIDE DEF written, ls, cur, new
  <2>6. LineOf(new, 1) = 1 /\ PlaceOf(new, 1) = 1
    BY LineNumbers, FirstPlace
  <2>7. /\ Len(Append(<<>>, <<w.text>>)) = 1
        /\ Append(<<>>, <<w.text>>)[1] = <<w.text>>
    OBVIOUS
  <2>8. Placed(Append(<<>>, <<w.text>>), new)
    <3>. DEFINE only == Append(<<>>, <<w.text>>)
    <3>. HIDE DEF only
    <3>1. Len(only) = 1 /\ only[1] = <<w.text>>
      BY <2>7 DEF only
    <3>2. 1 .. 1 = {1}
      OBVIOUS
    <3>. QED  BY <1>10, <2>5, <2>6, <3>1, <3>2 DEF Placed, only
  <2>9. /\ LineOf(new, Len(new)) = Len(<<>>) + 1
        /\ PlaceOf(new, Len(new)) = Len(<<w.text>>)
        /\ LineKey(w) = LineKey(new[Len(new)])
    BY <1>10, <2>5, <2>6
  <2>. QED  BY <1>2, <1>3, <1>10, <2>3, <2>4, <2>8, <2>9, IsTold
<1>13. ASSUME LineKey(w) # text.key, found # <<>> PROVE Told(written, new)
  <2>1. /\ cur # <<>> /\ text.key = LineKey(found[n])
        /\ LineOf(found, n) = Len(ls) + 1 /\ PlaceOf(found, n) = Len(cur)
        /\ Placed(Append(ls, cur), found)
    BY <1>13 DEF Told
  <2>2. n \in Nat \ {0} /\ n \in 1 .. n
    <3>1. n # 0
      BY <1>1, <1>13, EmptySeq
    <3>. QED  BY <1>3, <3>1
  <2>3. flushed = Append(ls, cur)
    BY <1>1, <2>1, FlushedTells
  <2>4. text.key # <<>> /\ text.key[1] = found[n].block
    BY <2>1 DEF LineKey
  <2>5. ~SameLine(found[n], w)
    BY <1>13, <2>1 DEF LineKey, SameLine
  <2>6. /\ written.lines = lines /\ written.current = <<w.text>>
        /\ written.key = LineKey(w)
    <3>. HIDE DEF lines, written
    <3>. QED  BY <1>7, <1>13
  <2>7. lines = IF found[n].block = w.block THEN flushed
                ELSE Append(flushed, <<>>)
    BY <2>4
  <2>8. lines \in Seq(Seq(STRING)) /\ Flat(lines) = Flat(flushed)
    BY <1>5, <1>6, <2>7
  <2>9. Flat(lines) \o <<w.text>> = Texts(new)
    <3>. HIDE DEF ls, cur, new, lines, flushed
    <3>1. Flat(lines) = Texts(found) /\ Texts(found) \in Seq(STRING)
      BY <1>1, <1>5, <2>8
    <3>2. Texts(found) \o <<w.text>> = Append(Texts(found), w.text)
      BY <1>4, <3>1, AppendLast
    <3>. QED  BY <1>4, <3>1, <3>2
  <2>10. /\ LineOf(new, n + 1) =
              Len(ls) + 2 + (IF found[n].block = w.block THEN 0 ELSE 1)
         /\ PlaceOf(new, n + 1) = 1
    <3>1. LineOf(new, n) = Len(ls) + 1 /\ new[n] = found[n]
      BY <1>1, <1>3, <2>1, <2>2, PlacesStay
    <3>2. Len(ls) \in Nat
      <4>. HIDE DEF ls
      <4>. QED  BY <1>1, LenProperties
    <3>. HIDE DEF new, n, ls
    <3>3. LineOf(new, n + 1) =
            LineOf(new, n) + (IF SameLine(new[n], new[n + 1]) THEN 0 ELSE 1)
              + (IF new[n].block = new[n + 1].block THEN 0 ELSE 1)
      BY <2>2, NextLine
    <3>4. LineOf(new, n + 1) =
            Len(ls) + 2 + (IF found[n].block = w.block THEN 0 ELSE 1)
      BY <1>3, <2>5, <3>1, <3>2, <3>3
    <3>5. LineOf(new, n + 1) # LineOf(new, n)
      BY <3>1, <3>2, <3>4
    <3>6. PlaceOf(new, n + 1) = 1
      BY <2>2, <3>5, NextPlace
    <3>. QED  BY <3>4, <3>6
  <2>11. /\ Len(flushed) = Len(ls) + 1 /\ Len(ls) \in Nat
         /\ \A l \in 1 .. Len(flushed) : Len(flushed[l]) \in Nat
    <3>. HIDE DEF flushed, ls, cur
    <3>1. Len(flushed) = Len(ls) + 1 /\ Len(ls) \in Nat
      BY <1>1, <2>3, OneMore
    <3>2. \A l \in 1 .. Len(flushed) : flushed[l] \in Seq(STRING)
      BY <1>5, ElementOfSeq
    <3>. QED  BY <3>1, <3>2, LenProperties
  <2>12. /\ Len(lines) \in Nat /\ Len(lines) + 1 = LineOf(new, n + 1)
         /\ Len(flushed) <= Len(lines)
         /\ \A l \in 1 .. Len(flushed) : lines[l] = flushed[l]
    <3>. HIDE DEF flushed, ls, new, n, lines
    <3>1. CASE found[n].block = w.block
      BY <2>7, <2>10, <2>11, <3>1
    <3>2. CASE found[n].block # w.block
      <4>1. /\ Len(Append(flushed, <<>>)) = Len(flushed) + 1
            /\ \A l \in 1 .. Len(flushed) :
                 Append(flushed, <<>>)[l] = flushed[l]
        <5>1. <<>> \in Seq(STRING)
          BY EmptySeq
        <5>. QED  BY <1>5, <5>1, OneMore
      <4>. QED  BY <2>7, <2>10, <2>11, <3>2, <4>1
    <3>. QED  BY <3>1, <3>2
  <2>. DEFINE after == Append(lines, <<w.text>>)
  <2>13. /\ Len(after) = Len(lines) + 1 /\ after[Len(lines) + 1] = <<w.text>>
         /\ \A l \in 1 .. Len(lines) : after[l] = lines[l]
    <3>. HIDE DEF lines
    <3>. QED  BY <1>10, <2>8, OneMore
  <2>14. Placed(after, new)
    <3>1. Placed(flushed, found)
      BY <2>1, <2>3
    <3>. HIDE DEF flushed, lines, after, ls
    <3>2. ASSUME NEW l \in 1 .. Len(flushed)
          PROVE  /\ Len(flushed[l]) \in Nat /\ Len(after[l]) \in Nat
                 /\ Len(flushed[l]) <= Len(after[l])
                 /\ \A p \in 1 .. Len(flushed[l]) : after[l][p] = flushed[l][p]
      <4>1. l \in 1 .. Len(lines)
        BY <2>11, <2>12
      <4>2. after[l] = flushed[l] /\ Len(flushed[l]) \in Nat
        BY <2>11, <2>12, <2>13, <4>1
      <4>. QED  BY <4>2
    <3>3. /\ Len(flushed) \in Nat /\ Len(after) \in Nat
          /\ Len(flushed) <= Len(after) /\ Len(after) > 0
          /\ LineOf(new, n + 1) = Len(after)
      BY <2>11, <2>12, <2>13
    <3>4. /\ after[Len(after)] = <<w.text>> /\ Len(<<w.text>>) \in Nat \ {0}
          /\ <<w.text>>[Len(<<w.text>>)] = w.text
          /\ PlaceOf(new, n + 1) = Len(<<w.text>>)
      BY <1>10, <2>10, <2>13
    <3>. QED  BY <1>1, <3>1, <3>2, <3>3, <3>4, PlacedMore
  <2>. HIDE DEF written, ls, cur, new, n, lines, flushed
  <2>15. /\ LineKey(w) = LineKey(new[Len(new)])
         /\ LineOf(new, Len(new)) = Len(lines) + 1
         /\ PlaceOf(new, Len(new)) = Len(<<w.text>>)
    BY <1>3, <1>10, <2>10, <2>12
  <2>. QED  BY <1>2, <1>3, <1>10, <2>6, <2>9, <2>14, <2>15, IsTold
<1>. QED  BY <1>11, <1>12, <1>13 DEF written, new

(* What was read of a sequence of words, all of them, in their places.      *)
LEMMA TextTold ==
  ASSUME NEW s \in Seq(Word)
  PROVE  LET found == Only(s, {w \in ToSet(s) : ~Blank(w)})
             lines == ReconstructText(s)
         IN  /\ lines \in Seq(Seq(STRING)) /\ found \in Seq(Word)
             /\ Flat(lines) = Texts(found)
             /\ found # <<>> => Len(lines) = LineOf(found, Len(found))
             /\ Placed(lines, found)
<1>. DEFINE some == {w \in ToSet(s) : ~Blank(w)}
            len == Len(s)
            found == Only(s, some)
            lines == ReconstructText(s)
<1>1. /\ len \in Nat
      /\ \A k \in 1 .. len : s[k] \in Word /\ (s[k] \in some <=> ~Blank(s[k]))
  <2>1. len \in Nat /\ \A k \in 1 .. len : s[k] \in Word
    BY LenProperties, ElementOfSeq
  <2>2. DOMAIN s = 1 .. len
    BY LenProperties
  <2>3. \A k \in 1 .. len : s[k] \in ToSet(s)
    BY <2>2 DEF ToSet
  <2>. QED  BY <2>1, <2>3
<1>. HIDE DEF some
<1>2. PICK written : /\ Writing(written, s)
                     /\ ReconstructText(s) = Flushed(written[Len(s)])
  BY TextUnfolds
<1>3. PICK kept : Keeping(kept, s, some, Word) /\ Only(s, some) = kept[Len(s)]
  BY OnlyUnfolds
<1>4. /\ written[0] = NoText /\ kept[0] = <<>>
      /\ \A k \in 1 .. len :
           /\ written[k] = Written(written[k - 1], s[k])
           /\ kept[k] = IF s[k] \in some THEN Append(kept[k - 1], s[k])
                        ELSE kept[k - 1]
  BY <1>2, <1>3 DEF Writing, Keeping
<1>5. lines = Flushed(written[len]) /\ found = kept[len]
  BY <1>2, <1>3
<1>. HIDE DEF len, found, lines
<1>. DEFINE N == {n \in Nat : n <= len => Told(written[n], kept[n])}
<1>6. 0 \in N
  BY <1>4, TellsNothing
<1>7. ASSUME NEW n \in Nat, n \in N PROVE n + 1 \in N
  <2>. SUFFICES ASSUME n + 1 <= len PROVE Told(written[n + 1], kept[n + 1])
    OBVIOUS
  <2>1. n + 1 \in 1 .. len /\ (n + 1) - 1 = n /\ n <= len
    BY <1>1
  <2>2. /\ written[n + 1] = Written(written[n], s[n + 1])
        /\ kept[n + 1] = IF s[n + 1] \in some THEN Append(kept[n], s[n + 1])
                         ELSE kept[n]
    BY <1>4, <2>1
  <2>3. Told(written[n], kept[n])
    BY <1>7, <2>1
  <2>4. s[n + 1] \in Word /\ (s[n + 1] \in some <=> ~Blank(s[n + 1]))
    BY <1>1, <2>1
  <2>5. CASE Blank(s[n + 1])
    <3>1. written[n + 1] = written[n]
      BY <2>2, <2>5 DEF Written
    <3>. QED  BY <2>2, <2>3, <2>4, <2>5, <3>1
  <2>6. CASE ~Blank(s[n + 1])
    <3>1. Told(Written(written[n], s[n + 1]), Append(kept[n], s[n + 1]))
      BY <2>3, <2>4, <2>6, TellsMore
    <3>. QED  BY <2>2, <2>4, <2>6, <3>1
  <2>. QED  BY <2>5, <2>6
<1>8. Told(written[len], kept[len])
  <2>1. \A n \in Nat : n \in N
    <3>. HIDE DEF N
    <3>. QED  BY <1>6, <1>7, NumberInduction
  <2>2. len \in N
    BY <1>1, <2>1
  <2>. QED  BY <1>1, <2>2
<1>. DEFINE text == written[len]
<1>9. Told(text, found) /\ lines = Flushed(text)
  BY <1>5, <1>8
<1>. HIDE DEF text, N
<1>10. /\ text \in Text /\ found \in Seq(Word)
       /\ Flat(text.lines) \o text.current = Texts(found)
       /\ found # <<>> =>
            /\ text.current # <<>>
            /\ LineOf(found, Len(found)) = Len(text.lines) + 1
            /\ Placed(Append(text.lines, text.current), found)
  BY <1>9 DEF Told
<1>11. /\ Flat(lines) = Flat(text.lines) \o text.current
       /\ text.current # <<>> => lines = Append(text.lines, text.current)
  BY <1>9, <1>10, FlushedTells
<1>12. lines \in Seq(Seq(STRING))
  BY <1>9, <1>10, FlushedType
<1>13. ASSUME found # <<>>
       PROVE  Len(lines) = LineOf(found, Len(found)) /\ Placed(lines, found)
  <2>1. lines = Append(text.lines, text.current)
    BY <1>10, <1>11, <1>13
  <2>2. text.lines \in Seq(Seq(STRING)) /\ text.current \in Seq(STRING)
    BY <1>10 DEF Text
  <2>3. Len(lines) = Len(text.lines) + 1
    BY <2>1, <2>2, OneMore
  <2>. QED  BY <1>10, <1>13, <2>1, <2>3
<1>14. found = <<>> => Placed(lines, found)
  BY DEF Placed
<1>. QED  BY <1>10, <1>11, <1>12, <1>13, <1>14 DEF some, found, lines

-----------------------------------------------------------------------------
(* Components.                                                              *)

ClosedIn(some) ==
  {those \in SUBSET DOMAIN some :
     \A a \in those, b \in (DOMAIN some) \ those :
       ~ShouldMergeRegions(some[a].box, some[b].box)}

(* Nothing is below one root that does not have to be.                      *)
TopsClosed(some, top) ==
  \A i, j \in DOMAIN some : top[i] = top[j] =>
    \A those \in ClosedIn(some) : i \in those => j \in those

(* All regions to merge are below one root, of the pairs before a and b.    *)
PairsMerged(some, top, a, b) ==
  \A i, j \in DOMAIN some :
    i < j /\ (i < a \/ (i = a /\ j < b)) =>
      (ShouldMergeRegions(some[i].box, some[j].box) => top[i] = top[j])

MergedSoFar(some, up, a, b) ==
  \E top, rank : /\ Forest(Len(some), up, top, rank)
                 /\ TopsClosed(some, top) /\ PairsMerged(some, top, a, b)

LEMMA NumberedBoxes ==
  ASSUME NEW some, Numbered(some)
  PROVE  /\ DOMAIN some = 1 .. Len(some) /\ Len(some) \in Nat
         /\ \A k \in DOMAIN some : some[k].box \in Box /\ Proper(some[k].box)
<1>1. some \in Seq(Region)
  BY DEF Numbered
<1>2. DOMAIN some = 1 .. Len(some) /\ Len(some) \in Nat
      /\ \A k \in DOMAIN some : some[k] \in Region
  BY <1>1, SeqFacts
<1>. QED  BY <1>2, RegionFields DEF Numbered

LEMMA StartsApart ==
  ASSUME NEW some, Numbered(some)
  PROVE  MergedSoFar(some, [k \in DOMAIN some |-> k], 1, 2)
<1>. DEFINE n == Len(some)
            top == [k \in 1 .. n |-> k]
            rank == [k \in 1 .. n |-> 0]
<1>1. DOMAIN some = 1 .. n /\ n \in Nat
  BY NumberedBoxes
<1>. HIDE DEF n
<1>2. ASSUME NEW i \in 1 .. n PROVE rank[i] < Cardinality(Below(n, top, top[i]))
  <2>1. Below(n, top, top[i]) = {i}
    BY <1>1 DEF Below
  <2>2. Cardinality({i}) = 1
    BY FS_Singleton
  <2>3. rank[i] = 0
    OBVIOUS
  <2>4. Cardinality(Below(n, top, top[i])) = 1
    BY <2>1, <2>2
  <2>. HIDE DEF top, rank
  <2>. QED  BY <2>3, <2>4
<1>3. Forest(n, top, top, rank)
  BY <1>1, <1>2 DEF Forest
<1>4. TopsClosed(some, top)
  BY <1>1 DEF TopsClosed
<1>5. PairsMerged(some, top, 1, 2)
  <2>1. \A i, j \in DOMAIN some : ~(i < j /\ (i < 1 \/ (i = 1 /\ j < 2)))
    BY <1>1
  <2>. HIDE DEF top
  <2>. SUFFICES ASSUME NEW i \in DOMAIN some, NEW j \in DOMAIN some,
                       i < j /\ (i < 1 \/ (i = 1 /\ j < 2))
                PROVE  FALSE
    BY DEF PairsMerged
  <2>. QED  BY <2>1
<1>6. [k \in DOMAIN some |-> k] = top
  BY <1>1
<1>. HIDE DEF top, rank
<1>. QED  BY <1>3, <1>4, <1>5, <1>6 DEF MergedSoFar, n

LEMMA OnePairMore ==
  ASSUME NEW some, Numbered(some), NEW up, NEW a \in Nat \ {0}, NEW b \in Nat,
         a < b, b <= Len(some), MergedSoFar(some, up, a, b)
  PROVE  MergedSoFar(some,
                     IF ShouldMergeRegions(some[a].box, some[b].box)
                     THEN Union(up, a, b) ELSE up, a, b + 1)
<1>. DEFINE n == Len(some)
            Alike(i, j) == ShouldMergeRegions(some[i].box, some[j].box)
<1>1. /\ DOMAIN some = 1 .. n /\ n \in Nat
      /\ \A k \in DOMAIN some : some[k].box \in Box
  BY NumberedBoxes
<1>2. PICK top, rank : /\ Forest(n, up, top, rank)
                       /\ TopsClosed(some, top) /\ PairsMerged(some, top, a, b)
  BY DEF MergedSoFar
<1>3. a \in 1 .. n /\ b \in 1 .. n
  BY <1>1
<1>4. \A i, j \in 1 .. n : Alike(i, j) <=> Alike(j, i)
  BY <1>1, MergesBothWays
<1>. HIDE DEF n, Alike
<1>5. /\ \A i, j \in 1 .. n : top[i] = top[j] =>
           \A those \in ClosedIn(some) : i \in those => j \in those
      /\ \A i, j \in 1 .. n :
           i < j /\ (i < a \/ (i = a /\ j < b)) /\ Alike(i, j) => top[i] = top[j]
  BY <1>1, <1>2 DEF TopsClosed, PairsMerged, Alike
<1>6. \A i, j \in 1 .. n : i < j /\ (i < a \/ (i = a /\ j < b + 1)) =>
        (i < j /\ (i < a \/ (i = a /\ j < b))) \/ (i = a /\ j = b)
  BY <1>1
<1>7. CASE ~Alike(a, b)
  <2>1. \A i, j \in 1 .. n :
          i < j /\ (i < a \/ (i = a /\ j < b + 1)) /\ Alike(i, j)
            => top[i] = top[j]
    BY <1>5, <1>6, <1>7
  <2>2. PairsMerged(some, top, a, b + 1)
    <3>. SUFFICES ASSUME NEW i \in DOMAIN some, NEW j \in DOMAIN some,
                         i < j /\ (i < a \/ (i = a /\ j < b + 1)),
                         ShouldMergeRegions(some[i].box, some[j].box)
                  PROVE  top[i] = top[j]
      BY DEF PairsMerged
    <3>1. i \in 1 .. n /\ j \in 1 .. n
      BY <1>1
    <3>2. Alike(i, j)
      BY DEF Alike
    <3>. QED  BY <2>1, <3>1, <3>2
  <2>3. MergedSoFar(some, up, a, b + 1)
    BY <1>2, <2>2 DEF MergedSoFar, n
  <2>. QED  BY <1>7, <2>3 DEF Alike
<1>8. CASE Alike(a, b)
  <2>1. PICK t, higher : /\ Forest(n, Union(up, a, b), t, higher)
                         /\ TreesJoined(n, top, t, a, b)
    BY <1>1, <1>2, <1>3, UnionJoins
  <2>2. \A i, j \in 1 .. n :
          t[i] = t[j] <=>
            \/ top[i] = top[j]
            \/ top[i] \in {top[a], top[b]} /\ top[j] \in {top[a], top[b]}
    BY <2>1 DEF TreesJoined
  <2>3. \A i, j \in 1 .. n :
          i < j /\ (i < a \/ (i = a /\ j < b + 1)) /\ Alike(i, j)
            => t[i] = t[j]
    BY <1>5, <1>6, <2>2
  <2>4. PairsMerged(some, t, a, b + 1)
    <3>. SUFFICES ASSUME NEW i \in DOMAIN some, NEW j \in DOMAIN some,
                         i < j /\ (i < a \/ (i = a /\ j < b + 1)),
                         ShouldMergeRegions(some[i].box, some[j].box)
                  PROVE  t[i] = t[j]
      BY DEF PairsMerged
    <3>1. i \in 1 .. n /\ j \in 1 .. n
      BY <1>1
    <3>2. Alike(i, j)
      BY DEF Alike
    <3>. QED  BY <2>3, <3>1, <3>2
  <2>5. ASSUME NEW i \in 1 .. n, NEW j \in 1 .. n, t[i] = t[j],
               NEW those \in ClosedIn(some), i \in those
        PROVE  j \in those
    <3>1. a \in those <=> b \in those
      <4>1. \A c, d \in 1 .. n : c \in those /\ Alike(c, d) => d \in those
        BY <1>1 DEF ClosedIn, Alike
      <4>. QED  BY <1>3, <1>4, <1>8, <4>1
    <3>2. \A c, d \in 1 .. n : top[c] = top[d] /\ c \in those => d \in those
      BY <1>5
    <3>3. top[i] = top[j] \/ (/\ top[i] = top[a] \/ top[i] = top[b]
                              /\ top[j] = top[a] \/ top[j] = top[b])
      BY <2>2, <2>5
    <3>4. CASE top[i] = top[j]
      BY <2>5, <3>2, <3>4
    <3>5. CASE /\ top[i] = top[a] \/ top[i] = top[b]
               /\ top[j] = top[a] \/ top[j] = top[b]
      <4>1. a \in those /\ b \in those
        BY <1>3, <2>5, <3>1, <3>2, <3>5
      <4>. QED  BY <1>3, <3>2, <3>5, <4>1
    <3>. QED  BY <3>3, <3>4, <3>5
  <2>6. TopsClosed(some, t)
    BY <1>1, <2>5 DEF TopsClosed
  <2>7. MergedSoFar(some, Union(up, a, b), a, b + 1)
    BY <2>1, <2>4, <2>6 DEF MergedSoFar, n
  <2>. QED  BY <1>8, <2>7 DEF Alike
<1>. QED  BY <1>7, <1>8

LEMMA NextRegion ==
  ASSUME NEW some, Numbered(some), NEW up, NEW a \in Nat \ {0}, NEW b \in Nat,
         b >= Len(some), MergedSoFar(some, up, a, b + 1)
  PROVE  MergedSoFar(some, up, a + 1, a + 2)
<1>1. DOMAIN some = 1 .. Len(some) /\ Len(some) \in Nat
  BY NumberedBoxes
<1>2. PICK top, rank : /\ Forest(Len(some), up, top, rank)
                       /\ TopsClosed(some, top)
                       /\ PairsMerged(some, top, a, b + 1)
  BY DEF MergedSoFar
<1>3. \A i, j \in DOMAIN some :
        i < j /\ (i < a + 1 \/ (i = a + 1 /\ j < a + 2)) =>
          i < a \/ (i = a /\ j < b + 1)
  BY <1>1
<1>4. PairsMerged(some, top, a + 1, a + 2)
  BY <1>2, <1>3 DEF PairsMerged
<1>. QED  BY <1>2, <1>4 DEF MergedSoFar

LEMMA AllPairsMerged ==
  ASSUME NEW some, Numbered(some), NEW up, NEW a \in Nat, NEW b \in Nat,
         a >= Len(some), MergedSoFar(some, up, a, b),
         NEW i \in DOMAIN some, NEW j \in DOMAIN some
  PROVE  Root(up, i) = Root(up, j) <=>
           \A those \in ClosedIn(some) : i \in those => j \in those
<1>. DEFINE Alike(k, l) == ShouldMergeRegions(some[k].box, some[l].box)
<1>1. /\ DOMAIN some = 1 .. Len(some) /\ Len(some) \in Nat
      /\ \A k \in DOMAIN some : some[k].box \in Box
  BY NumberedBoxes
<1>2. PICK top, rank : /\ Forest(Len(some), up, top, rank)
                       /\ TopsClosed(some, top) /\ PairsMerged(some, top, a, b)
  BY DEF MergedSoFar
<1>3. Root(up, i) = top[i] /\ Root(up, j) = top[j]
  BY <1>1, <1>2, FindsTop DEF Root
<1>4. ASSUME top[i] = top[j]
      PROVE  \A those \in ClosedIn(some) : i \in those => j \in those
  BY <1>2, <1>4 DEF TopsClosed
<1>5. ASSUME \A those \in ClosedIn(some) : i \in those => j \in those
      PROVE  top[i] = top[j]
  <2>. DEFINE those == {k \in DOMAIN some : top[k] = top[i]}
  <2>1. \A k, l \in DOMAIN some : k < l /\ Alike(k, l) => top[k] = top[l]
    <3>1. \A k, l \in DOMAIN some : k < l => k < a
      BY <1>1
    <3>. QED  BY <1>2, <3>1 DEF PairsMerged
  <2>2. \A k, l \in DOMAIN some : Alike(k, l) <=> Alike(l, k)
    BY <1>1, MergesBothWays
  <2>3. \A k, l \in DOMAIN some : k < l \/ l < k \/ k = l
    BY <1>1
  <2>. HIDE DEF Alike
  <2>4. \A k, l \in DOMAIN some : Alike(k, l) => top[k] = top[l]
    BY <2>1, <2>2, <2>3
  <2>5. \A k \in those, l \in (DOMAIN some) \ those : ~Alike(k, l)
    BY <2>4
  <2>6. those \in ClosedIn(some)
    BY <2>5 DEF ClosedIn, Alike
  <2>7. i \in those
    OBVIOUS
  <2>8. j \in those
    <3>. HIDE DEF those
    <3>. QED  BY <1>5, <2>6, <2>7
  <2>. QED  BY <2>8
<1>. QED  BY <1>3, <1>4, <1>5

-----------------------------------------------------------------------------
(* What is read in a box, of the words on the page.                         *)

Lying(some, box) == Only(some, {w \in ToSet(some) : Inside(w.box, box)})

TextIn(some, box) == ReconstructText(Lying(some, box))

Says(lines, text) == Contains(Flat(lines), text)

LEMMA OnlyWords ==
  ASSUME NEW some \in Seq(Word), NEW those
  PROVE  /\ Only(some, those) \in Seq(Word)
         /\ \A k \in DOMAIN some : some[k] \in those =>
              \E m \in DOMAIN Only(some, those) : Only(some, those)[m] = some[k]
BY OnlySome

LEMMA LyingInside ==
  ASSUME NEW some \in Seq(Word), NEW box
  PROVE  /\ Lying(some, box) \in Seq(Word)
         /\ \A k \in DOMAIN some : Inside(some[k].box, box) =>
              \E m \in DOMAIN Lying(some, box) : Lying(some, box)[m] = some[k]
<1>. DEFINE those == {w \in ToSet(some) : Inside(w.box, box)}
<1>1. \A k \in DOMAIN some : Inside(some[k].box, box) => some[k] \in those
  BY DEF ToSet
<1>. HIDE DEF those
<1>2. /\ Only(some, those) \in Seq(Word)
      /\ \A k \in DOMAIN some : some[k] \in those =>
           \E m \in DOMAIN Only(some, those) : Only(some, those)[m] = some[k]
  BY OnlySome
<1>3. Lying(some, box) = Only(some, those)
  BY DEF Lying, those
<1>. QED  BY <1>1, <1>2, <1>3

LEMMA TextInSaysAll ==
  ASSUME NEW some \in Seq(Word), NEW box, NEW k \in DOMAIN some,
         ~Blank(some[k]), Inside(some[k].box, box)
  PROVE  Says(TextIn(some, box), some[k].text)
<1>. DEFINE lying == Lying(some, box)
            spoken == {w \in ToSet(lying) : ~Blank(w)}
            found == Only(lying, spoken)
            lines == ReconstructText(lying)
<1>1. lying \in Seq(Word)
  BY LyingInside
<1>2. PICK m \in DOMAIN lying : lying[m] = some[k]
  BY LyingInside
<1>. HIDE DEF lying
<1>3. lying[m] \in spoken
  BY <1>2 DEF ToSet
<1>4. /\ found \in Seq(Word)
      /\ Flat(lines) = Texts(found)
  BY <1>1, TextTold
<1>. HIDE DEF spoken
<1>5. \A i \in DOMAIN lying : lying[i] \in spoken =>
        \E l \in DOMAIN found : found[l] = lying[i]
  BY <1>1, OnlyWords
<1>. HIDE DEF found, lines
<1>6. PICK l \in DOMAIN found : found[l] = some[k]
  BY <1>2, <1>3, <1>5
<1>7. /\ DOMAIN found = 1 .. Len(found) /\ DOMAIN Texts(found) = DOMAIN found
      /\ Texts(found)[l] = some[k].text
  BY <1>4, <1>6, SeqFacts DEF Texts
<1>8. Texts(found) \in Seq(STRING)
  <2>1. \A i \in DOMAIN found : found[i].text \in STRING
    BY <1>4, SeqFacts, WordFields
  <2>2. Texts(found) \in [1 .. Len(found) -> STRING]
    BY <1>7, <2>1 DEF Texts
  <2>3. Len(found) \in Nat
    BY <1>4, LenProperties
  <2>. QED  BY <2>2, <2>3, FunctionIsSeq
<1>9. l \in 1 .. Len(Texts(found))
  <2>1. DOMAIN Texts(found) = 1 .. Len(Texts(found))
    BY <1>8, LenProperties
  <2>. QED  BY <1>7, <2>1
<1>10. Contains(Texts(found), some[k].text)
  BY <1>7, <1>9 DEF Contains
<1>. QED  BY <1>4, <1>10 DEF Says, TextIn, lines, lying

LEMMA TextInType ==
  ASSUME NEW some \in Seq(Word), NEW box
  PROVE  TextIn(some, box) \in Seq(Seq(STRING))
<1>1. Lying(some, box) \in Seq(Word)
  BY LyingInside
<1>. QED  BY <1>1, TextTold DEF TextIn

-----------------------------------------------------------------------------
(* The invariant.                                                           *)

(* Every word that was detected lies in a box.                              *)
Collected(some, boxed) ==
  \A k \in DOMAIN some :
    Counted(some[k]) /\ ~Lone(OfBlock(some, some[k].block)) =>
      Held(some[k].box, boxed)

(* Every word in the box is in a text that was read.                        *)
AllSaid(some, box, texts) ==
  \A k \in DOMAIN some : ~Blank(some[k]) /\ Inside(some[k].box, box) =>
    \E r \in DOMAIN texts : Says(texts[r].lines, some[k].text)

(* ColumnsInOrder, of boxes in the order in which they come.                *)
InOrder(boxed, way) ==
  LET narrow == {b \in ToSet(boxed) : ~Spanning(b)} IN
  InColumns(narrow) =>
    \A a, b : Earlier(boxed, a, b) => InPlace(narrow, a, b, way)

Typed ==
  /\ tool \in Tools /\ direction \in Directions /\ OnPage(words)
  /\ stage \in Stages
  /\ stage \in {"compare", "merge", "expand"} => tool = "script"
  /\ Numbered(regions)
  /\ \E n \in Nat : parents \in [1 .. n -> 1 .. n]
  /\ at \in Nat \ {0} /\ other \in Nat \ {0}
  /\ ProperBoxes(boxes)
  /\ read \in Seq(Reading)

Compares ==
  /\ stage = "probe" => at = 1 /\ other = 2
  /\ stage = "compare" => at < other /\ (at < Len(regions) => other <= Len(regions))
  /\ stage = "merge" => at >= Len(regions)
  /\ stage \in {"compare", "merge"} => MergedSoFar(regions, parents, at, other)

Collects ==
  /\ stage \in {"compare", "merge", "expand", "sanitize"} =>
       Covers(words, regions)
  /\ stage = "sanitize" =>
       \A r \in DOMAIN regions : r < at => Held(regions[r].box, boxes)
  /\ stage \in {"order", "read", "done"} => Collected(words, boxes)

Reads ==
  /\ \A r \in DOMAIN read : read[r].lines = TextIn(words, read[r].box)
  /\ stage \in {"read", "done"} =>
       \A b \in DOMAIN boxes : b < at => AllSaid(words, boxes[b], read)
  /\ stage = "done" => at \notin DOMAIN boxes

Orders == stage = "read" /\ tool = "pipeline" => InOrder(boxes, direction)

Inv == Typed /\ Compares /\ Collects /\ Reads /\ Orders

LEMMA MergedTyped ==
  ASSUME NEW some, Numbered(some), NEW up, NEW a, NEW b,
         MergedSoFar(some, up, a, b)
  PROVE  \E n \in Nat : up \in [1 .. n -> 1 .. n]
<1>1. up \in [1 .. Len(some) -> 1 .. Len(some)]
  BY DEF MergedSoFar, Forest
<1>. QED  BY <1>1, NumberedBoxes

LEMMA StartsWell ==
  ASSUME Init
  PROVE  Inv
<1>1. /\ tool \in Tools /\ direction \in Directions /\ words \in Layouts
      /\ stage = "probe" /\ regions = <<>> /\ parents = <<>>
      /\ at = 1 /\ other = 2 /\ boxes = <<>> /\ read = <<>>
  BY DEF Init
<1>2. /\ <<>> \in Seq(Region) /\ <<>> \in Seq(Box) /\ <<>> \in Seq(Reading)
      /\ DOMAIN <<>> = {}
  BY EmptySeq
<1>3. OnPage(words)
  BY <1>1, LayoutsAssumption DEF OnPage
<1>4. Numbered(regions) /\ ProperBoxes(boxes)
  BY <1>1, <1>2 DEF Numbered, ProperBoxes
<1>5. \E n \in Nat : parents \in [1 .. n -> 1 .. n]
  <2>1. <<>> \in [1 .. 0 -> 1 .. 0]
    OBVIOUS
  <2>. QED  BY <1>1, <2>1
<1>6. Typed
  <2>1. read \in Seq(Reading) /\ at \in Nat \ {0} /\ other \in Nat \ {0}
    BY <1>1, <1>2
  <2>2. /\ tool \in Tools /\ direction \in Directions /\ stage \in Stages
        /\ stage \notin {"compare", "merge", "expand"}
    BY <1>1 DEF Stages
  <2>. QED  BY <1>3, <1>4, <1>5, <2>1, <2>2 DEF Typed
<1>7. Compares
  BY <1>1 DEF Compares
<1>8. Collects
  BY <1>1 DEF Collects
<1>9. Reads
  BY <1>1, <1>2 DEF Reads
<1>10. Orders
  BY <1>1 DEF Orders
<1>. QED  BY <1>6, <1>7, <1>8, <1>9, <1>10 DEF Inv

LEMMA DetectKeeps ==
  ASSUME Inv, Detect
  PROVE  Inv'
<1>1. /\ tool \in Tools /\ direction \in Directions /\ OnPage(words)
      /\ at = 1 /\ other = 2 /\ ProperBoxes(boxes) /\ read \in Seq(Reading)
      /\ \A r \in DOMAIN read : read[r].lines = TextIn(words, read[r].box)
  BY DEF Inv, Typed, Compares, Reads, Detect
<1>2. /\ tool' = tool /\ direction' = direction /\ words' = words
      /\ at' = at /\ other' = other /\ boxes' = boxes /\ read' = read
      /\ stage' = IF tool = "pipeline" THEN "sanitize" ELSE "compare"
      /\ regions' = DetectTextRegions(words, Padding, direction)
      /\ parents' = [k \in DOMAIN regions' |-> k]
  BY DEF Detect, page
<1>3. Padding \in Nat
  BY DEF Padding
<1>4. Numbered(regions') /\ Covers(words, regions')
  BY <1>1, <1>2, <1>3, DetectsAll
<1>5. MergedSoFar(regions', parents', 1, 2)
  BY <1>2, <1>4, StartsApart
<1>6. \E n \in Nat : parents' \in [1 .. n -> 1 .. n]
  BY <1>4, <1>5, MergedTyped
<1>7. stage' \in {"sanitize", "compare"} /\ (stage' = "compare" => tool = "script")
  BY <1>1, <1>2 DEF Tools
<1>8. Typed'
  BY <1>1, <1>2, <1>4, <1>6, <1>7 DEF Typed, Stages
<1>9. Compares'
  <2>1. Len(regions') \in Nat
    BY <1>4, NumberedBoxes
  <2>2. 1 < Len(regions') => 2 <= Len(regions')
    BY <2>1
  <2>. QED  BY <1>1, <1>2, <1>5, <1>7, <2>2 DEF Compares
<1>10. Collects'
  <2>1. \A r \in DOMAIN regions' : ~(r < 1)
    BY <1>4, NumberedBoxes
  <2>. QED  BY <1>1, <1>2, <1>4, <1>7, <2>1 DEF Collects
<1>11. Reads'
  BY <1>1, <1>2, <1>7 DEF Reads
<1>12. Orders'
  BY <1>7 DEF Orders
<1>. QED  BY <1>8, <1>9, <1>10, <1>11, <1>12 DEF Inv

LEMMA FailKeeps ==
  ASSUME Inv, Fail
  PROVE  Inv'
<1>1. /\ tool' = tool /\ direction' = direction /\ words' = words
      /\ regions' = regions /\ parents' = parents /\ at' = at
      /\ other' = other /\ boxes' = boxes /\ read' = read
      /\ stage' = "failed"
  BY DEF Fail, page
<1>2. Typed'
  BY <1>1 DEF Inv, Typed, Stages
<1>3. Compares' /\ Collects' /\ Orders'
  BY <1>1 DEF Compares, Collects, Orders
<1>4. Reads'
  BY <1>1 DEF Inv, Reads
<1>. QED  BY <1>2, <1>3, <1>4 DEF Inv

LEMMA CompareKeeps ==
  ASSUME Inv, Compare
  PROVE  Inv'
<1>1. /\ stage = "compare" /\ at < Len(regions)
      /\ tool' = tool /\ direction' = direction /\ words' = words
      /\ stage' = stage /\ regions' = regions /\ boxes' = boxes /\ read' = read
      /\ parents' = IF ShouldMergeRegions(regions[at].box, regions[other].box)
                    THEN Union(parents, at, other) ELSE parents
      /\ IF other < Len(regions) THEN at' = at /\ other' = other + 1
         ELSE at' = at + 1 /\ other' = at + 2
  BY DEF Compare, page
<1>2. /\ Numbered(regions) /\ at \in Nat \ {0} /\ other \in Nat \ {0}
      /\ at < other /\ other <= Len(regions)
      /\ MergedSoFar(regions, parents, at, other)
  BY <1>1 DEF Inv, Typed, Compares
<1>3. Len(regions) \in Nat
  BY <1>2, NumberedBoxes
<1>4. MergedSoFar(regions, parents', at, other + 1)
  BY <1>1, <1>2, OnePairMore
<1>5. MergedSoFar(regions, parents', at', other')
  <2>1. CASE other < Len(regions)
    BY <1>1, <1>4, <2>1
  <2>2. CASE ~(other < Len(regions))
    <3>1. other >= Len(regions)
      BY <1>2, <1>3, <2>2
    <3>2. MergedSoFar(regions, parents', at + 1, at + 2)
      BY <1>2, <1>4, <3>1, NextRegion
    <3>. QED  BY <1>1, <2>2, <3>2
  <2>. QED  BY <2>1, <2>2
<1>6. /\ at' \in Nat \ {0} /\ other' \in Nat \ {0} /\ at' < other'
      /\ at' < Len(regions) => other' <= Len(regions)
  BY <1>1, <1>2, <1>3
<1>7. \E n \in Nat : parents' \in [1 .. n -> 1 .. n]
  BY <1>2, <1>5, MergedTyped
<1>8. Typed'
  BY <1>1, <1>6, <1>7 DEF Inv, Typed
<1>9. Compares'
  BY <1>1, <1>5, <1>6 DEF Compares
<1>10. Collects'
  BY <1>1 DEF Inv, Collects
<1>11. Reads' /\ Orders'
  BY <1>1 DEF Inv, Reads, Orders
<1>. QED  BY <1>8, <1>9, <1>10, <1>11 DEF Inv

LEMMA ComparedKeeps ==
  ASSUME Inv, Compared
  PROVE  Inv'
<1>1. /\ stage = "compare" /\ at >= Len(regions) /\ stage' = "merge"
      /\ tool' = tool /\ direction' = direction /\ words' = words
      /\ regions' = regions /\ parents' = parents /\ at' = at
      /\ other' = other /\ boxes' = boxes /\ read' = read
  BY DEF Compared, page
<1>2. Typed'
  BY <1>1 DEF Inv, Typed, Stages
<1>3. Compares' /\ Collects' /\ Orders'
  BY <1>1 DEF Inv, Compares, Collects, Orders
<1>4. Reads'
  BY <1>1 DEF Inv, Reads
<1>. QED  BY <1>2, <1>3, <1>4 DEF Inv

(* Words in regions that lie in others lie in the others.                   *)
LEMMA CoversInner ==
  ASSUME NEW some, OnPage(some), NEW rs, Numbered(rs), Covers(some, rs),
         NEW others, Numbered(others), Inner(rs, others)
  PROVE  Covers(some, others)
<1>. SUFFICES ASSUME NEW k \in DOMAIN some, Counted(some[k]),
                     ~Lone(OfBlock(some, some[k].block))
              PROVE  \E r \in DOMAIN others : Inside(some[k].box, others[r].box)
  BY DEF Covers
<1>1. some[k].box \in Box
  BY SeqFacts, WordFields DEF OnPage
<1>2. PICK r \in DOMAIN rs : Inside(some[k].box, rs[r].box)
  BY DEF Covers
<1>3. PICK l \in DOMAIN others : Inside(rs[r].box, others[l].box)
  BY DEF Inner
<1>4. rs[r].box \in Box /\ others[l].box \in Box
  BY NumberedBoxes
<1>5. Inside(some[k].box, others[l].box)
  BY <1>1, <1>2, <1>3, <1>4, InsideOfInside
<1>. QED  BY <1>5

(* Words in regions whose boxes are held are held.                          *)
LEMMA CollectsCovered ==
  ASSUME NEW some, OnPage(some), NEW rs, Numbered(rs), Covers(some, rs),
         NEW boxed, ProperBoxes(boxed),
         \A r \in DOMAIN rs : Held(rs[r].box, boxed)
  PROVE  Collected(some, boxed)
<1>. SUFFICES ASSUME NEW k \in DOMAIN some, Counted(some[k]),
                     ~Lone(OfBlock(some, some[k].block))
              PROVE  Held(some[k].box, boxed)
  BY DEF Collected
<1>1. some[k].box \in Box
  BY SeqFacts, WordFields DEF OnPage
<1>2. PICK r \in DOMAIN rs : Inside(some[k].box, rs[r].box)
  BY DEF Covers
<1>3. PICK l \in DOMAIN boxed : Inside(rs[r].box, boxed[l])
  BY DEF Held
<1>4. rs[r].box \in Box /\ boxed[l] \in Box
  BY NumberedBoxes, SeqFacts DEF ProperBoxes
<1>5. Inside(some[k].box, boxed[l])
  BY <1>1, <1>2, <1>3, <1>4, InsideOfInside
<1>. QED  BY <1>5 DEF Held

LEMMA MergeKeeps ==
  ASSUME Inv, Merge
  PROVE  Inv'
<1>1. /\ stage = "merge" /\ stage' = "expand"
      /\ regions' = MergedRegions(regions, parents, direction)
      /\ tool' = tool /\ direction' = direction /\ words' = words
      /\ parents' = parents /\ at' = at
      /\ other' = other /\ boxes' = boxes /\ read' = read
  BY DEF Merge, page
<1>2. /\ Numbered(regions) /\ OnPage(words) /\ Covers(words, regions)
      /\ MergedSoFar(regions, parents, at, other)
  BY <1>1 DEF Inv, Typed, Compares, Collects
<1>3. PICK top, rank : Forest(Len(regions), parents, top, rank)
  BY <1>2 DEF MergedSoFar
<1>4. Numbered(regions') /\ Inner(regions, regions')
  BY <1>1, <1>2, <1>3, MergesAll
<1>5. Covers(words, regions')
  BY <1>2, <1>4, CoversInner
<1>6. Typed'
  BY <1>1, <1>4 DEF Inv, Typed, Stages
<1>7. Compares' /\ Orders'
  BY <1>1 DEF Compares, Orders
<1>8. Collects'
  BY <1>1, <1>5 DEF Collects
<1>9. Reads'
  BY <1>1 DEF Inv, Reads
<1>. QED  BY <1>6, <1>7, <1>8, <1>9 DEF Inv

LEMMA ExpandKeeps ==
  ASSUME Inv, Expand
  PROVE  Inv'
<1>1. /\ stage = "expand" /\ stage' = "read" /\ at' = 1
      /\ boxes' = [k \in DOMAIN Expanded(regions) |-> Expanded(regions)[k].box]
      /\ tool' = tool /\ direction' = direction /\ words' = words
      /\ regions' = regions /\ parents' = parents
      /\ other' = other /\ read' = read
  BY DEF Expand, page
<1>2. /\ Numbered(regions) /\ OnPage(words) /\ Covers(words, regions)
      /\ tool = "script"
  BY <1>1 DEF Inv, Typed, Collects
<1>3. ProperBoxes(boxes') /\ \A k \in DOMAIN regions : Held(regions[k].box, boxes')
  BY <1>1, <1>2, ExpandsAll
<1>4. Collected(words, boxes')
  BY <1>2, <1>3, CollectsCovered
<1>5. \A b \in DOMAIN boxes' : ~(b < 1)
  BY <1>3, SeqFacts DEF ProperBoxes
<1>6. Typed'
  BY <1>1, <1>3 DEF Inv, Typed, Stages
<1>7. Compares' /\ Orders'
  BY <1>1, <1>2 DEF Compares, Orders
<1>8. Collects'
  BY <1>1, <1>4 DEF Collects
<1>9. Reads'
  BY <1>1, <1>5 DEF Inv, Reads
<1>. QED  BY <1>6, <1>7, <1>8, <1>9 DEF Inv

LEMMA SanitizeKeeps ==
  ASSUME Inv, Sanitize
  PROVE  Inv'
<1>1. /\ stage = "sanitize" /\ stage' = stage /\ at \in DOMAIN regions
      /\ boxes' = Sanitized(boxes, regions[at].box) /\ at' = at + 1
      /\ tool' = tool /\ direction' = direction /\ words' = words
      /\ regions' = regions /\ parents' = parents
      /\ other' = other /\ read' = read
  BY DEF Sanitize, page
<1>2. /\ Numbered(regions) /\ ProperBoxes(boxes) /\ at \in Nat \ {0}
      /\ \A r \in DOMAIN regions : r < at => Held(regions[r].box, boxes)
  BY <1>1 DEF Inv, Typed, Collects
<1>3. /\ DOMAIN regions = 1 .. Len(regions) /\ Len(regions) \in Nat
      /\ \A r \in DOMAIN regions :
           regions[r].box \in Box /\ Proper(regions[r].box)
  BY <1>2, NumberedBoxes
<1>4. regions[at].box \in Box /\ Proper(regions[at].box)
  BY <1>1, <1>3
<1>5. /\ ProperBoxes(boxes') /\ Held(regions[at].box, boxes')
      /\ \A b \in Box : Held(b, boxes) => Held(b, boxes')
  BY <1>1, <1>2, <1>4, SanitizedHolds
<1>6. \A r \in DOMAIN regions : r < at + 1 => Held(regions[r].box, boxes')
  <2>1. \A r \in DOMAIN regions : r < at + 1 => r < at \/ r = at
    BY <1>2, <1>3
  <2>. QED  BY <1>2, <1>3, <1>5, <2>1
<1>7. at' \in Nat \ {0}
  BY <1>1, <1>2
<1>8. Typed'
  BY <1>1, <1>5, <1>7 DEF Inv, Typed
<1>9. Compares' /\ Orders'
  BY <1>1 DEF Compares, Orders
<1>10. Collects'
  BY <1>1, <1>6 DEF Inv, Collects
<1>11. Reads'
  BY <1>1 DEF Inv, Reads
<1>. QED  BY <1>8, <1>9, <1>10, <1>11 DEF Inv

LEMMA CollectedHeld ==
  ASSUME NEW some, OnPage(some), NEW boxed, Collected(some, boxed), NEW others,
         \A b \in Box : Held(b, boxed) => Held(b, others)
  PROVE  Collected(some, others)
<1>1. \A k \in DOMAIN some : some[k].box \in Box
  BY SeqFacts, WordFields DEF OnPage
<1>. QED  BY <1>1 DEF Collected

LEMMA DedupeKeeps ==
  ASSUME Inv, Dedupe
  PROVE  Inv'
<1>1. /\ stage = "sanitize" /\ stage' = "order" /\ at \notin DOMAIN regions
      /\ boxes' = Distinct(boxes)
      /\ tool' = tool /\ direction' = direction /\ words' = words
      /\ regions' = regions /\ parents' = parents /\ at' = at
      /\ other' = other /\ read' = read
  BY DEF Dedupe, page
<1>2. /\ Numbered(regions) /\ ProperBoxes(boxes) /\ at \in Nat \ {0}
      /\ OnPage(words) /\ Covers(words, regions)
      /\ \A r \in DOMAIN regions : r < at => Held(regions[r].box, boxes)
  BY <1>1 DEF Inv, Typed, Collects
<1>3. \A r \in DOMAIN regions : r < at
  <2>1. DOMAIN regions = 1 .. Len(regions) /\ Len(regions) \in Nat
    BY <1>2, NumberedBoxes
  <2>. QED  BY <1>1, <1>2, <2>1
<1>4. boxes \in Seq(Box)
  BY <1>2 DEF ProperBoxes
<1>5. boxes' \in Seq(Box) /\ SameElements(boxes', boxes)
  BY <1>1, <1>4, DistinctSame
<1>6. /\ ProperBoxes(boxes')
      /\ \A b \in Box : Held(b, boxes) => Held(b, boxes')
  BY <1>2, <1>5, SameAreHeld
<1>7. Collected(words, boxes)
  BY <1>2, <1>3, CollectsCovered
<1>8. Collected(words, boxes')
  BY <1>2, <1>6, <1>7, CollectedHeld
<1>9. Typed'
  BY <1>1, <1>6 DEF Inv, Typed, Stages
<1>10. Compares' /\ Orders'
  BY <1>1 DEF Compares, Orders
<1>11. Collects'
  BY <1>1, <1>8 DEF Collects
<1>12. Reads'
  BY <1>1 DEF Inv, Reads
<1>. QED  BY <1>9, <1>10, <1>11, <1>12 DEF Inv

LEMMA OrderKeeps ==
  ASSUME Inv, Order
  PROVE  Inv'
<1>1. /\ stage = "order" /\ stage' = "read" /\ at' = 1
      /\ boxes' = OrderRegionBoxes(boxes, direction)
      /\ tool' = tool /\ direction' = direction /\ words' = words
      /\ regions' = regions /\ parents' = parents
      /\ other' = other /\ read' = read
  BY DEF Order, page
<1>2. ProperBoxes(boxes) /\ OnPage(words) /\ Collected(words, boxes)
  BY <1>1 DEF Inv, Typed, Collects
<1>. DEFINE narrow == {b \in ToSet(boxes) : ~Spanning(b)}
<1>3. /\ ProperBoxes(boxes') /\ ToSet(boxes') = ToSet(boxes)
      /\ InColumns(narrow) =>
           \A a, b : Earlier(boxes', a, b) => InPlace(narrow, a, b, direction)
  BY <1>1, <1>2, OrderHolds
<1>4. InOrder(boxes', direction)
  <2>1. {b \in ToSet(boxes') : ~Spanning(b)} = narrow
    BY <1>3
  <2>. HIDE DEF narrow
  <2>. QED  BY <1>3, <2>1 DEF InOrder
<1>5. SameElements(boxes', boxes)
  BY <1>3, SameSets
<1>6. \A b \in Box : Held(b, boxes) => Held(b, boxes')
  <2>1. boxes' \in Seq(Box)
    BY <1>3 DEF ProperBoxes
  <2>. QED  BY <1>2, <1>5, <2>1, SameAreHeld
<1>7. Collected(words, boxes')
  BY <1>2, <1>6, CollectedHeld
<1>8. \A b \in DOMAIN boxes' : ~(b < 1)
  BY <1>3, SeqFacts DEF ProperBoxes
<1>9. Typed'
  BY <1>1, <1>3 DEF Inv, Typed, Stages
<1>10. Compares' /\ Orders'
  BY <1>1, <1>4 DEF Compares, Orders
<1>11. Collects'
  BY <1>1, <1>7 DEF Collects
<1>12. Reads'
  BY <1>1, <1>8 DEF Inv, Reads
<1>. QED  BY <1>9, <1>10, <1>11, <1>12 DEF Inv

(* What was said stays said when more is read.                              *)
LEMMA SaidAgain ==
  ASSUME NEW some, NEW box, NEW texts, AllSaid(some, box, texts), NEW more,
         \A r \in DOMAIN texts : r \in DOMAIN more /\ more[r] = texts[r]
  PROVE  AllSaid(some, box, more)
BY DEF AllSaid

LEMMA ReadRegionKeeps ==
  ASSUME Inv, ReadRegion
  PROVE  Inv'
<1>. DEFINE lines == TextIn(words, boxes[at])
            new == [box |-> boxes[at], lines |-> lines]
<1>1. /\ stage = "read" /\ stage' = stage /\ at \in DOMAIN boxes
      /\ at' = at + 1
      /\ tool' = tool /\ direction' = direction /\ words' = words
      /\ regions' = regions /\ parents' = parents
      /\ other' = other /\ boxes' = boxes
  BY DEF ReadRegion, page
<1>2. read' = IF LeftOut(lines) THEN read ELSE Append(read, new)
  BY DEF ReadRegion, WordsIn, TextIn, Lying
<1>3. /\ OnPage(words) /\ ProperBoxes(boxes) /\ at \in Nat \ {0}
      /\ read \in Seq(Reading)
      /\ \A r \in DOMAIN read : read[r].lines = TextIn(words, read[r].box)
      /\ \A b \in DOMAIN boxes : b < at => AllSaid(words, boxes[b], read)
  BY <1>1 DEF Inv, Typed, Reads
<1>4. /\ words \in Seq(Word) /\ boxes[at] \in Box
      /\ DOMAIN boxes = 1 .. Len(boxes) /\ Len(boxes) \in Nat
  BY <1>1, <1>3, SeqFacts DEF OnPage, ProperBoxes
<1>5. new \in Reading
  BY <1>4, TextInType DEF Reading
<1>6. /\ Append(read, new) \in Seq(Reading)
      /\ DOMAIN read = 1 .. Len(read) /\ Len(read) \in Nat
      /\ DOMAIN Append(read, new) = 1 .. Len(read) + 1
      /\ \A r \in 1 .. Len(read) : Append(read, new)[r] = read[r]
      /\ Append(read, new)[Len(read) + 1] = new
  <2>. HIDE DEF new
  <2>. QED  BY <1>3, <1>5, OneMore
<1>7. new.box = boxes[at] /\ new.lines = lines
  OBVIOUS
<1>8. \A k \in DOMAIN words : ~Blank(words[k]) /\ Inside(words[k].box, boxes[at])
        => Says(lines, words[k].text)
  BY <1>4, TextInSaysAll
<1>. HIDE DEF new, lines
<1>9. /\ \A r \in DOMAIN read : r \in DOMAIN read' /\ read'[r] = read[r]
      /\ read' \in Seq(Reading)
      /\ \A r \in DOMAIN read' : read'[r].lines = TextIn(words, read'[r].box)
  <2>1. CASE LeftOut(lines)
    BY <1>2, <1>3, <2>1
  <2>2. CASE ~LeftOut(lines)
    <3>1. read' = Append(read, new)
      BY <1>2, <2>2
    <3>2. \A r \in 1 .. Len(read) + 1 : r \in 1 .. Len(read) \/ r = Len(read) + 1
      BY <1>6
    <3>3. \A r \in 1 .. Len(read) : r \in 1 .. Len(read) + 1
      BY <1>6
    <3>4. new.lines = TextIn(words, new.box)
      BY <1>7 DEF lines
    <3>. QED  BY <1>3, <1>6, <3>1, <3>2, <3>3, <3>4
  <2>. QED  BY <2>1, <2>2
<1>10. AllSaid(words, boxes[at], read')
  <2>. SUFFICES ASSUME NEW k \in DOMAIN words, ~Blank(words[k]),
                       Inside(words[k].box, boxes[at])
                PROVE  \E r \in DOMAIN read' :
                         Says(read'[r].lines, words[k].text)
    BY DEF AllSaid
  <2>1. Says(lines, words[k].text)
    BY <1>8
  <2>2. CASE ~LeftOut(lines)
    <3>1. /\ Len(read) + 1 \in DOMAIN Append(read, new)
          /\ Append(read, new)[Len(read) + 1].lines = lines
      BY <1>6, <1>7
    <3>. QED  BY <1>2, <2>1, <2>2, <3>1
  <2>3. CASE LeftOut(lines)
    <3>1. Key(lines) # <<>>
      <4>1. \E i \in 1 .. Len(Flat(lines)) : Flat(lines)[i] = words[k].text
        BY <2>1 DEF Says, Contains
      <4>2. Flat(lines) # <<>>
        BY <4>1
      <4>. QED  BY <4>2 DEF Key
    <3>2. PICK r \in DOMAIN read : Key(read[r].lines) = Key(lines)
      BY <2>3, <3>1 DEF LeftOut
    <3>3. Says(read[r].lines, words[k].text)
      BY <2>1, <3>2 DEF Says, Key
    <3>. QED  BY <1>2, <2>3, <3>3
  <2>. QED  BY <2>2, <2>3
<1>11. \A b \in DOMAIN boxes : b < at + 1 => AllSaid(words, boxes[b], read')
  <2>1. \A b \in DOMAIN boxes : b < at + 1 => b < at \/ b = at
    BY <1>3, <1>4
  <2>2. ASSUME NEW b \in DOMAIN boxes, b < at
        PROVE  AllSaid(words, boxes[b], read')
    BY <1>3, <1>9, <2>2, SaidAgain
  <2>. QED  BY <1>10, <2>1, <2>2
<1>12. at' \in Nat \ {0}
  BY <1>1, <1>3
<1>13. Typed'
  BY <1>1, <1>9, <1>12 DEF Inv, Typed
<1>14. Compares'
  BY <1>1 DEF Compares
<1>15. Collects' /\ Orders'
  BY <1>1 DEF Inv, Collects, Orders
<1>16. Reads'
  BY <1>1, <1>9, <1>11 DEF Reads
<1>. QED  BY <1>13, <1>14, <1>15, <1>16 DEF Inv

LEMMA FinishKeeps ==
  ASSUME Inv, Finish
  PROVE  Inv'
<1>1. /\ stage = "read" /\ stage' = "done" /\ at \notin DOMAIN boxes
      /\ tool' = tool /\ direction' = direction /\ words' = words
      /\ regions' = regions /\ parents' = parents /\ at' = at
      /\ other' = other /\ boxes' = boxes /\ read' = read
  BY DEF Finish, page
<1>2. Typed'
  BY <1>1 DEF Inv, Typed, Stages
<1>3. Compares' /\ Orders'
  BY <1>1 DEF Compares, Orders
<1>4. Collects'
  BY <1>1 DEF Inv, Collects
<1>5. Reads'
  BY <1>1 DEF Inv, Reads
<1>. QED  BY <1>2, <1>3, <1>4, <1>5 DEF Inv

LEMMA NothingKeeps ==
  ASSUME Inv, UNCHANGED vars
  PROVE  Inv'
<1>1. /\ tool' = tool /\ direction' = direction /\ words' = words
      /\ regions' = regions /\ parents' = parents /\ at' = at
      /\ other' = other /\ boxes' = boxes /\ read' = read /\ stage' = stage
  BY DEF vars
<1>2. Typed'
  BY <1>1 DEF Inv, Typed
<1>3. Compares' /\ Orders'
  BY <1>1 DEF Inv, Compares, Orders
<1>4. Collects'
  BY <1>1 DEF Inv, Collects
<1>5. Reads'
  BY <1>1 DEF Inv, Reads
<1>. QED  BY <1>2, <1>3, <1>4, <1>5 DEF Inv

LEMMA InvHolds == Spec => []Inv
<1>1. Init => Inv
  BY StartsWell
<1>2. Inv /\ [Next]_vars => Inv'
  <2>. SUFFICES ASSUME Inv, [Next]_vars PROVE Inv'
    OBVIOUS
  <2>. QED  BY DetectKeeps, FailKeeps, CompareKeeps, ComparedKeeps, MergeKeeps,
               ExpandKeeps, SanitizeKeeps, DedupeKeeps, OrderKeeps,
               ReadRegionKeeps, FinishKeeps, NothingKeeps DEF Next
<1>. QED  BY <1>1, <1>2, PTL DEF Spec

-----------------------------------------------------------------------------
(* The theorems.                                                            *)

LEMMA TypedIsTypeOK == Inv => TypeOK
<1>. SUFFICES ASSUME Inv PROVE TypeOK
  OBVIOUS
<1>1. Typed
  BY DEF Inv
<1>2. words \in Seq(Word) /\ regions \in Seq(Region)
      /\ (\A k \in DOMAIN regions : regions[k].id = k)
  BY <1>1 DEF Typed, OnPage, Numbered
<1>3. parents \in Seq(Nat) /\ ToSet(parents) \subseteq DOMAIN parents
  <2>1. PICK n \in Nat : parents \in [1 .. n -> 1 .. n]
    BY <1>1 DEF Typed
  <2>2. parents \in [1 .. n -> Nat]
    BY <2>1
  <2>3. parents \in Seq(Nat)
    BY <2>2, FunctionIsSeq
  <2>. QED  BY <2>1, <2>3 DEF ToSet
<1>4. boxes \in Seq(Box) /\ \A k \in DOMAIN boxes : Proper(boxes[k])
  BY <1>1 DEF Typed, ProperBoxes
<1>. QED  BY <1>1, <1>2, <1>3, <1>4 DEF Typed, TypeOK

(* Type correctness, of any words on a page of any size: regions are         *)
(* numbered as they stand, and the boxes to read are parts of the page.     *)
THEOREM RegionTypes == Spec => []TypeOK
BY InvHolds, TypedIsTypeOK, PTL

(* No word that detect_text_regions counts gets lost on the way through      *)
(* merge_overlapping_regions, expand_regions_vertically,                    *)
(* sanitize_region_boxes, order_region_boxes and the texts left out.        *)
THEOREM DetectedWordsAreRead == Spec => []WordsAreRead
<1>1. Inv => WordsAreRead
  <2>. SUFFICES ASSUME Inv, stage = "done",
                       NEW k \in DOMAIN words, Detected(words[k])
                PROVE  \E r \in DOMAIN read :
                         Contains(Key(read[r].lines), words[k].text)
    BY DEF WordsAreRead
  <2>1. /\ Collected(words, boxes) /\ at \notin DOMAIN boxes
        /\ at \in Nat \ {0} /\ ProperBoxes(boxes)
        /\ \A b \in DOMAIN boxes : b < at => AllSaid(words, boxes[b], read)
    BY DEF Inv, Collects, Reads, Typed
  <2>2. \A b \in DOMAIN boxes : b < at
    <3>1. DOMAIN boxes = 1 .. Len(boxes) /\ Len(boxes) \in Nat
      BY <2>1, SeqFacts DEF ProperBoxes
    <3>. QED  BY <2>1, <3>1
  <2>3. /\ Counted(words[k]) /\ ~Lone(OfBlock(words, words[k].block))
        /\ ~Blank(words[k])
    BY DEF Detected, Counted
  <2>4. PICK b \in DOMAIN boxes : Inside(words[k].box, boxes[b])
    BY <2>1, <2>3 DEF Collected, Held
  <2>5. AllSaid(words, boxes[b], read)
    BY <2>1, <2>2
  <2>6. \E r \in DOMAIN read : Says(read[r].lines, words[k].text)
    BY <2>3, <2>4, <2>5 DEF AllSaid
  <2>. QED  BY <2>6 DEF Says, Key
<1>. QED  BY <1>1, InvHolds, PTL

(* The roots that find returns after all unions are those of the components *)
(* of should_merge_regions, whatever paths were halved in between.          *)
THEOREM ComponentsAreMerged == Spec => []RootsAreComponents
<1>1. Inv => RootsAreComponents
  <2>. SUFFICES ASSUME Inv, stage = "merge",
                       NEW a \in DOMAIN regions, NEW b \in DOMAIN regions
                PROVE  Root(parents, a) = Root(parents, b) <=>
                         \A some \in Closed : a \in some => b \in some
    BY DEF RootsAreComponents
  <2>1. /\ Numbered(regions) /\ at \in Nat /\ other \in Nat
        /\ at >= Len(regions) /\ MergedSoFar(regions, parents, at, other)
    BY DEF Inv, Typed, Compares
  <2>2. Closed = ClosedIn(regions)
    BY DEF Closed, ClosedIn
  <2>. QED  BY <2>1, <2>2, AllPairsMerged
<1>. QED  BY <1>1, InvHolds, PTL

(* order_region_boxes reads a page in columns column by column, each        *)
(* downwards, from the side the language starts at.                         *)
THEOREM ColumnsAreReadInOrder == Spec => []ColumnsInOrder
<1>1. Inv => ColumnsInOrder
  <2>. DEFINE narrow == {b \in ToSet(boxes) : ~Spanning(b)}
  <2>. SUFFICES ASSUME Inv, stage = "read", tool = "pipeline",
                       InColumns(narrow),
                       NEW j \in DOMAIN boxes, NEW i \in 1 .. j - 1
                PROVE  LET a == boxes[i]
                           b == boxes[j]
                       IN  /\ a \in narrow /\ b \in narrow =>
                                IF SameColumn(a, b) THEN a.top <= b.top
                                ELSE FirstColumn(a, b)
                           /\ a \in narrow /\ b \notin narrow =>
                                \E c \in narrow : b.bottom > c.top
                           /\ a \notin narrow /\ b \in narrow =>
                                \E c \in narrow : a.top < c.bottom
    BY DEF ColumnsInOrder
  <2>1. ProperBoxes(boxes) /\ InOrder(boxes, direction)
    BY DEF Inv, Typed, Orders
  <2>2. i \in DOMAIN boxes /\ i < j
    <3>1. DOMAIN boxes = 1 .. Len(boxes) /\ Len(boxes) \in Nat
      BY <2>1, SeqFacts DEF ProperBoxes
    <3>. QED  BY <3>1
  <2>3. Earlier(boxes, boxes[i], boxes[j])
    BY <2>2 DEF Earlier
  <2>4. InPlace(narrow, boxes[i], boxes[j], direction)
    BY <2>1, <2>3 DEF InOrder
  <2>. HIDE DEF narrow
  <2>. QED  BY <2>4 DEF InPlace, InTurn, FirstOf, FirstColumn
<1>. QED  BY <1>1, InvHolds, PTL

(* reconstruct_text puts every word of a crop in its place on its line and  *)
(* nothing else: lines are kept apart by block, paragraph and line, they are *)
(* not torn, and one empty line stands between blocks.                      *)
THEOREM TextsKeepLines == Spec => []LinesFollowKeys
<1>1. Inv => LinesFollowKeys
  <2>. SUFFICES ASSUME Inv, NEW r \in DOMAIN read
                PROVE
                  LET inside == WordsIn(read[r].box)
                      found == Only(inside, {w \in ToSet(inside) : ~Blank(w)})
                      lines == read[r].lines
                  IN  /\ Key(lines) = Texts(found)
                      /\ found # <<>> => Len(lines) = LineOf(found, Len(found))
                      /\ \A k \in DOMAIN found :
                           /\ LineOf(found, k) \in DOMAIN lines
                           /\ PlaceOf(found, k) \in DOMAIN lines[LineOf(found, k)]
                           /\ lines[LineOf(found, k)][PlaceOf(found, k)] =
                                found[k].text
    BY DEF LinesFollowKeys
  <2>1. /\ words \in Seq(Word)
        /\ read[r].lines = TextIn(words, read[r].box)
    BY DEF Inv, Typed, Reads, OnPage
  <2>2. WordsIn(read[r].box) = Lying(words, read[r].box)
    BY DEF WordsIn, Lying
  <2>. DEFINE inside == Lying(words, read[r].box)
  <2>3. inside \in Seq(Word)
    BY <2>1, LyingInside
  <2>4. read[r].lines = ReconstructText(inside)
    BY <2>1 DEF TextIn
  <2>. HIDE DEF inside
  <2>. DEFINE found == Only(inside, {w \in ToSet(inside) : ~Blank(w)})
              text == ReconstructText(inside)
  <2>5. /\ text \in Seq(Seq(STRING)) /\ found \in Seq(Word)
        /\ Flat(text) = Texts(found)
        /\ found # <<>> => Len(text) = LineOf(found, Len(found))
        /\ Placed(text, found)
    BY <2>3, TextTold
  <2>. HIDE DEF found, text
  <2>6. /\ DOMAIN found = 1 .. Len(found)
        /\ DOMAIN text = 1 .. Len(text)
        /\ \A l \in 1 .. Len(text) : DOMAIN text[l] = 1 .. Len(text[l])
    <3>1. \A l \in 1 .. Len(text) : text[l] \in Seq(STRING)
      BY <2>5, ElementOfSeq
    <3>. QED  BY <2>5, <3>1, LenProperties
  <2>7. \A k \in DOMAIN found :
          /\ LineOf(found, k) \in DOMAIN text
          /\ PlaceOf(found, k) \in DOMAIN text[LineOf(found, k)]
          /\ text[LineOf(found, k)][PlaceOf(found, k)] = found[k].text
    BY <2>5, <2>6 DEF Placed
  <2>. QED  BY <2>2, <2>4, <2>5, <2>7 DEF Key, inside, found, text
<1>. QED  BY <1>1, InvHolds, PTL

=============================================================================
