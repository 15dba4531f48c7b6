----------------------------- MODULE SpritesProofs -----------------------------
(***************************************************************************)
(* Theorems about the sprites of a line, for every sprite table, every     *)
(* size of screen and tiles, and every limit of sprites per line.          *)
(***************************************************************************)
EXTENDS Sprites, SequenceTheorems, WellFoundedInduction, TLAPS

(* What every phase knows of the scene it draws.                           *)
SceneOK ==
    /\ oam \in [Table -> [x : Xs, y : Ys, look : Looks]]
    /\ LY \in Lines /\ OBJ_height_px \in Heights

(* The collected sprites are on the line, and none that is has been missed.*)
Visible(n) == OnScreen(oam[n]) /\ OnLine(oam[n])

CollectedFrom(first) ==
    /\ sprites \in Seq(Table)
    /\ \A k \in 1..Len(sprites) : sprites[k] >= first /\ Visible(sprites[k])
    /\ \A n \in Table : n >= first /\ Visible(n) => \E k \in 1..Len(sprites) : sprites[k] = n

(* p may precede q in the order of drawing.                                *)
Before(p, q) == oam[p].x < oam[q].x \/ (oam[p].x = oam[q].x /\ p > q)

(* Of the sprites, the first n are in the order of drawing; the others are *)
(* still in the order of collection, which any earlier one has over them.  *)
SortedUpTo(n) ==
    \A m \in 1..Len(sprites) : \A k \in 1..(m - 1) :
        IF m <= n THEN Before(sprites[k], sprites[m]) ELSE sprites[k] > sprites[m]

(* After n sprites each of their pixels shows one drawn no earlier.        *)
DrawnUpTo(n) ==
    \A k \in 1..Len(sprites) : k <= n =>
        \A c \in Inked(oam[sprites[k]]) :
            \E m \in k..n : m <= Len(sprites) /\ picture[c] = sprites[m]

IInv ==
    /\ SceneOK
    /\ picture \in [Columns -> Table \cup {Background}]
    /\ \/ phase = "background" /\ i = 0 /\ sprites = <<>>
       \/ /\ phase = "collect" /\ i \in -1..(Count - 1)
          /\ CollectedFrom(i + 1) /\ SortedUpTo(0) /\ Len(sprites) <= Count - 1 - i
       \/ /\ phase = "sort" /\ i \in 2..(Count + 1) \cup {2}
          /\ CollectedFrom(0) /\ SortedUpTo(i - 1) /\ Len(sprites) <= Count
       \/ /\ phase \in {"draw", "done"} /\ i \in 1..(Count + 1)
          /\ CollectedFrom(0) /\ SortedUpTo(Len(sprites)) /\ Len(sprites) <= Count
          /\ DrawnUpTo(i - 1)
          /\ phase = "done" => i > Len(sprites) \/ i > MaxPerLine

-----------------------------------------------------------------------------

(* The element at b of s has been moved to a: what r has at place j.       *)
MovedTo(s, b, a, r, j) ==
    r[j] = IF j < a \/ j > b THEN s[j] ELSE IF j = a THEN s[b] ELSE s[j - 1]

(* What moving the element at b to a place a before it does.               *)
LEMMA MoveFacts ==
    ASSUME NEW S, NEW s \in Seq(S), NEW b \in 1..Len(s), NEW a \in 1..b
    PROVE  /\ InsertAt(RemoveAt(s, b), a, s[b]) \in Seq(S)
           /\ Len(InsertAt(RemoveAt(s, b), a, s[b])) = Len(s)
           /\ \A j \in 1..Len(s) : MovedTo(s, b, a, InsertAt(RemoveAt(s, b), a, s[b]), j)
<1> DEFINE u == RemoveAt(s, b)
           r == InsertAt(u, a, s[b])
<1> HIDE DEF u, r
<1>0. /\ b \in Int /\ a \in Int /\ Len(s) \in Nat /\ 1 <= a /\ a <= b /\ b <= Len(s)
      /\ s[b] \in S /\ \A j \in 1..Len(s) : s[j] \in S
  OBVIOUS
<1>1. /\ u \in Seq(S) /\ Len(u) = Len(s) - 1
      /\ \A j \in 1..(Len(s) - 1) : u[j] = IF j < b THEN s[j] ELSE s[j + 1]
  <2> DEFINE front == SubSeq(s, 1, b - 1)
             back == SubSeq(s, b + 1, Len(s))
  <2>1. /\ front \in Seq(S) /\ Len(front) = b - 1
        /\ \A j \in 1..(b - 1) : front[j] = s[j]
    BY <1>0, SubSeqProperties
  <2>2. /\ back \in Seq(S) /\ Len(back) = Len(s) - b
        /\ \A j \in 1..(Len(s) - b) : back[j] = s[b + j]
    <3>1. /\ back \in Seq(S) /\ Len(back) = IF b + 1 <= Len(s) THEN Len(s) - (b + 1) + 1 ELSE 0
          /\ \A j \in 1..(Len(s) - (b + 1) + 1) : back[j] = s[b + 1 + j - 1]
      BY <1>0, SubSeqProperties
    <3>2. QED
      BY <1>0, <3>1
  <2> HIDE DEF front, back
  <2>3. /\ front \o back \in Seq(S) /\ Len(front \o back) = Len(front) + Len(back)
        /\ \A j \in 1..(Len(front) + Len(back)) :
             (front \o back)[j] = IF j <= Len(front) THEN front[j] ELSE back[j - Len(front)]
    BY <2>1, <2>2, ConcatProperties
  <2>4. u = front \o back
    BY DEF RemoveAt, u, front, back
  <2>5. ASSUME NEW j \in 1..(Len(s) - 1)
        PROVE  u[j] = IF j < b THEN s[j] ELSE s[j + 1]
    <3>1. CASE j < b
      BY <1>0, <2>1, <2>2, <2>3, <2>4, <3>1
    <3>2. CASE j >= b
      <4>1. u[j] = back[j - (b - 1)] /\ j - (b - 1) \in 1..(Len(s) - b)
        BY <1>0, <2>1, <2>2, <2>3, <2>4, <3>2
      <4>2. u[j] = s[b + (j - (b - 1))] /\ b + (j - (b - 1)) = j + 1
        BY <1>0, <2>2, <4>1
      <4>3. QED
        BY <1>0, <3>2, <4>2
    <3>3. QED
      BY <1>0, <3>1, <3>2
  <2>6. u \in Seq(S) /\ Len(u) = Len(s) - 1
    <3>1. Len(front) = b - 1 /\ Len(back) = Len(s) - b /\ b \in Int /\ Len(s) \in Int
      BY <1>0, <2>1, <2>2
    <3>2. Len(front) + Len(back) = Len(s) - 1
      BY <3>1
    <3>3. u \in Seq(S) /\ Len(u) = Len(front) + Len(back)
      BY <2>3, <2>4, Zenon
    <3>4. QED
      BY <3>2, <3>3, Zenon
  <2>7. \A j \in 1..(Len(s) - 1) : u[j] = IF j < b THEN s[j] ELSE s[j + 1]
    BY <2>5
  <2>8. QED
    BY <2>6, <2>7
<1>2. s[b] \in S /\ a \in 1..(Len(u) + 1) /\ Len(u) \in Nat /\ \A j \in 1..Len(u) : u[j] \in S
  BY <1>0, <1>1
<1>3. /\ r \in Seq(S) /\ Len(r) = Len(u) + 1
      /\ \A j \in 1..(Len(u) + 1) :
           r[j] = IF j < a THEN u[j] ELSE IF j = a THEN s[b] ELSE u[j - 1]
  <2> DEFINE front == SubSeq(u, 1, a - 1)
             back == SubSeq(u, a, Len(u))
             e == <<s[b]>>
  <2>1. /\ front \in Seq(S) /\ Len(front) = a - 1
        /\ \A j \in 1..(a - 1) : front[j] = u[j]
    BY <1>0, <1>2, SubSeqProperties
  <2>2. /\ back \in Seq(S) /\ Len(back) = Len(u) - a + 1
        /\ \A j \in 1..(Len(u) - a + 1) : back[j] = u[a + j - 1]
    BY <1>0, <1>2, SubSeqProperties
  <2>3. e \in Seq(S) /\ Len(e) = 1 /\ e[1] = s[b]
    BY <1>0
  <2> HIDE DEF front, back, e
  <2> DEFINE fe == front \o e
  <2>4. /\ fe \in Seq(S) /\ Len(fe) = a
        /\ \A j \in 1..a : fe[j] = IF j <= a - 1 THEN front[j] ELSE e[j - (a - 1)]
    <3>1. /\ fe \in Seq(S) /\ Len(fe) = Len(front) + Len(e)
          /\ \A j \in 1..(Len(front) + Len(e)) :
               fe[j] = IF j <= Len(front) THEN front[j] ELSE e[j - Len(front)]
      BY <2>1, <2>3, ConcatProperties
    <3> HIDE DEF fe
    <3>2. QED
      BY <1>0, <2>1, <2>3, <3>1
  <2> HIDE DEF fe
  <2>5. /\ fe \o back \in Seq(S) /\ Len(fe \o back) = Len(u) + 1
        /\ \A j \in 1..(Len(u) + 1) :
             (fe \o back)[j] = IF j <= a THEN fe[j] ELSE back[j - a]
    <3>1. /\ fe \o back \in Seq(S) /\ Len(fe \o back) = Len(fe) + Len(back)
          /\ \A j \in 1..(Len(fe) + Len(back)) :
               (fe \o back)[j] = IF j <= Len(fe) THEN fe[j] ELSE back[j - Len(fe)]
      BY <2>2, <2>4, ConcatProperties
    <3>2. Len(fe) = a /\ Len(fe) + Len(back) = Len(u) + 1
      BY <1>0, <1>2, <2>2, <2>4
    <3>3. QED
      BY <3>1, <3>2
  <2>6. r = fe \o back
    BY DEF InsertAt, r, fe, front, back, e
  <2>7. ASSUME NEW j \in 1..(Len(u) + 1)
        PROVE  r[j] = IF j < a THEN u[j] ELSE IF j = a THEN s[b] ELSE u[j - 1]
    <3>1. CASE j < a
      BY <1>0, <1>2, <2>1, <2>4, <2>5, <2>6, <3>1
    <3>2. CASE j = a
      BY <1>0, <1>2, <2>3, <2>4, <2>5, <2>6, <3>2
    <3>3. CASE j > a
      <4>1. r[j] = back[j - a] /\ j - a \in 1..(Len(u) - a + 1)
        BY <1>0, <1>2, <2>5, <2>6, <3>3
      <4>2. r[j] = u[a + (j - a) - 1] /\ a + (j - a) - 1 = j - 1
        BY <1>0, <2>2, <4>1
      <4>3. QED
        BY <1>0, <3>3, <4>2
    <3>4. QED
      BY <1>0, <3>1, <3>2, <3>3
  <2>8. r \in Seq(S) /\ Len(r) = Len(u) + 1
    BY <2>5, <2>6
  <2>9. \A j \in 1..(Len(u) + 1) :
          r[j] = IF j < a THEN u[j] ELSE IF j = a THEN s[b] ELSE u[j - 1]
    BY <2>7
  <2>10. QED
    BY <2>8, <2>9
<1>4. ASSUME NEW j \in 1..Len(s)
      PROVE  r[j] = IF j < a \/ j > b THEN s[j] ELSE IF j = a THEN s[b] ELSE s[j - 1]
  <2>1. CASE j < a
    <3>1. j \in 1..(Len(u) + 1) /\ j \in 1..(Len(s) - 1) /\ j < b
      BY <1>0, <1>1, <2>1
    <3>2. r[j] = u[j] /\ u[j] = s[j]
      BY <1>1, <1>3, <2>1, <3>1
    <3>3. QED
      BY <2>1, <3>2
  <2>2. CASE j = a
    BY <1>0, <1>1, <1>3, <2>2
  <2>3. CASE j > a
    <3>1. r[j] = u[j - 1] /\ j - 1 \in 1..(Len(s) - 1)
      BY <1>0, <1>1, <1>3, <2>3
    <3>2. QED
      BY <1>0, <1>1, <2>3, <3>1
  <2>4. QED
    BY <2>1, <2>2, <2>3
<1>5. QED
  BY <1>0, <1>1, <1>3, <1>4 DEF r, u, MovedTo

(* The same for one place.                                                 *)
LEMMA MovedElement ==
    ASSUME NEW S, NEW s \in Seq(S), NEW b \in 1..Len(s), NEW a \in 1..b, NEW j \in 1..Len(s)
    PROVE  InsertAt(RemoveAt(s, b), a, s[b])[j] =
             IF j < a \/ j > b THEN s[j] ELSE IF j = a THEN s[b] ELSE s[j - 1]
<1>1. MovedTo(s, b, a, InsertAt(RemoveAt(s, b), a, s[b]), j)
  BY MoveFacts
<1>2. QED
  BY <1>1 DEF MovedTo

(* A set of numbers up to b is empty or has a largest one.                 *)
LEMMA LargestExists ==
    ASSUME NEW b \in Nat, NEW T \in SUBSET (1..b), T # {}
    PROVE  \E j \in T : \A k \in T : k <= j
<1> DEFINE U == {b - j : j \in T}
           Less == {p \in Nat \X Nat : p[1] < p[2]}
<1>1. U \subseteq Nat /\ U # {}
  <2>1. \A j \in T : b - j \in Nat
    OBVIOUS
  <2>2. QED
    BY <2>1
<1>2. IsWellFoundedOn(Less, Nat)
  BY NatLessThanWellFounded DEF OpToRel
<1>3. PICK x \in U : \A y \in U : <<y, x>> \notin Less
  <2> HIDE DEF U, Less
  <2>1. QED
    BY <1>1, <1>2, WFMin
<1>4. PICK j \in T : x = b - j
  BY <1>3
<1>5. ASSUME NEW k \in T PROVE k <= j
  <2>1. b - k \in U /\ b - k \in Nat /\ x \in Nat
    BY <1>1
  <2>2. <<b - k, x>> \notin Less
    BY <1>3, <2>1
  <2>3. ~(b - k < x)
    BY <2>1, <2>2
  <2>4. QED
    BY <1>4, <2>3
<1>6. QED
  BY <1>5

-----------------------------------------------------------------------------

LEMMA SceneFacts ==
    ASSUME SceneOK
    PROVE  /\ \A n \in Table : oam[n].x \in Nat /\ oam[n].y \in Nat /\ oam[n].y < ByteSpan
           /\ LY \in Nat /\ LY < ScreenH /\ ScreenH \in Nat
           /\ Width \in Nat \ {0} /\ OBJ_height_px \in {Width, 2 * Width}
           /\ ByteSpan \in Nat /\ ByteSpan >= ScreenH + 4 * Width
           /\ Count \in Nat /\ MaxPerLine \in Nat
<1>1. /\ Count \in Nat /\ MaxPerLine \in Nat /\ Width \in Nat \ {0} /\ ScreenH \in Nat
      /\ ByteSpan \in Nat /\ ByteSpan >= ScreenH + 4 * Width
      /\ Xs \subseteq 0..(ByteSpan - 1) /\ Ys \subseteq 0..(ByteSpan - 1)
      /\ Lines \subseteq 0..(ScreenH - 1)
  BY SpritesAssumption
<1>2. LY \in 0..(ScreenH - 1) /\ OBJ_height_px \in {Width, 2 * Width}
  BY <1>1 DEF SceneOK, Heights
<1>3. ASSUME NEW n \in Table
      PROVE  oam[n].x \in 0..(ByteSpan - 1) /\ oam[n].y \in 0..(ByteSpan - 1)
  BY <1>1 DEF SceneOK
<1>4. QED
  BY <1>1, <1>2, <1>3

(* The wrap of a byte that is short of it by less than its span.           *)
LEMMA WrapFacts ==
    ASSUME NEW m \in Nat \ {0}, NEW d \in Int
    PROVE  /\ d \in 0..(m - 1) => d % m = d
           /\ d \in (-m)..(-1) => d % m = d + m
  OBVIOUS

(* A sprite is collected only for one of its own rows, and for each of     *)
(* them if it starts on the screen: the byte that wraps starts below it.   *)
LEMMA RowOfVisible ==
    ASSUME SceneOK, NEW n \in Table
    PROVE  /\ Visible(n) => Row(oam[n]) \in 0..(OBJ_height_px - 1)
           /\ oam[n].y >= YOffset /\ Row(oam[n]) \in 0..(OBJ_height_px - 1) => Visible(n)
<1> DEFINE y == oam[n].y
           h == OBJ_height_px
           top == (y - YOffset) % ByteSpan
<1>1. /\ y \in Nat /\ y < ByteSpan /\ h \in Nat /\ h <= 2 * Width /\ YOffset = 2 * Width
      /\ Width \in Nat \ {0} /\ LY \in Nat /\ LY < ScreenH /\ ScreenH \in Nat
      /\ ByteSpan \in Nat /\ ByteSpan >= ScreenH + 4 * Width
  BY SceneFacts DEF YOffset
<1>2. (y - YOffset) \in Int /\ ByteSpan \in Nat \ {0}
  BY <1>1
<1>3. /\ y >= YOffset => top = y - YOffset
      /\ y < YOffset => top = y - YOffset + ByteSpan
  <2>1. /\ y >= YOffset => (y - YOffset) \in 0..(ByteSpan - 1)
        /\ y < YOffset => (y - YOffset) \in (-ByteSpan)..(-1)
    BY <1>1
  <2>2. QED
    BY <1>2, <2>1, WrapFacts
<1> HIDE DEF top
<1>4. Visible(n) <=> /\ y # 0 /\ y < ScreenH + YOffset /\ y + h >= YOffset
                     /\ top + h > LY /\ top <= LY
  BY DEF Visible, OnScreen, OnLine, top
<1>5. Row(oam[n]) = LY - (y - YOffset)
  BY DEF Row
<1>6. QED
  BY <1>1, <1>3, <1>4, <1>5

LEMMA InitEstablishesInv == Init => IInv
<1> SUFFICES ASSUME Init PROVE IInv
  OBVIOUS
<1>1. SceneOK /\ phase = "background" /\ i = 0 /\ sprites = <<>>
  BY DEF Init, SceneOK
<1>2. picture \in [Columns -> Table \cup {Background}]
  BY DEF Init
<1>3. QED
  BY <1>1, <1>2 DEF IInv

(* What does not move with the phases.                                     *)
LEMMA SceneStays ==
    ASSUME SceneOK, UNCHANGED scene
    PROVE  /\ SceneOK' /\ oam' = oam
           /\ \A n : Visible(n)' <=> Visible(n)
           /\ \A p, q : Before(p, q)' <=> Before(p, q)
           /\ \A t : Inked(t)' = Inked(t)
  BY DEF SceneOK, scene, Visible, OnScreen, OnLine, Before, Inked, Texel, Row

LEMMA BackgroundKeepsInv == IInv /\ DrawBackground => IInv'
<1> SUFFICES ASSUME IInv, DrawBackground PROVE IInv'
  OBVIOUS
<1>1. /\ phase' = "collect" /\ i' = Count - 1 /\ sprites' = <<>> /\ UNCHANGED scene
      /\ picture' = picture /\ SceneOK /\ picture \in [Columns -> Table \cup {Background}]
  BY DEF IInv, DrawBackground
<1>2. SceneOK' /\ Count \in Nat
  BY <1>1, SceneStays, SceneFacts
<1>3. CollectedFrom(i + 1)' /\ SortedUpTo(0)' /\ Len(sprites') <= Count - 1 - i'
  BY <1>1, <1>2 DEF CollectedFrom, SortedUpTo, Table
<1>4. QED
  BY <1>1, <1>2, <1>3 DEF IInv

LEMMA CollectKeepsInv == IInv /\ Collect => IInv'
<1> SUFFICES ASSUME IInv, Collect PROVE IInv'
  OBVIOUS
<1>1. /\ phase' = "collect" /\ i' = i - 1 /\ UNCHANGED scene /\ picture' = picture
      /\ SceneOK /\ picture \in [Columns -> Table \cup {Background}]
      /\ i \in 0..(Count - 1) /\ CollectedFrom(i + 1) /\ SortedUpTo(0)
      /\ Len(sprites) <= Count - 1 - i
      /\ sprites' = IF Visible(i) THEN Append(sprites, i) ELSE sprites
  <2>1. phase = "collect" /\ i >= 0
    BY DEF Collect
  <2>2. Count \in Nat
    BY SceneFacts DEF IInv
  <2>3. i \in -1..(Count - 1)
    BY <2>1 DEF IInv
  <2>4. i \in 0..(Count - 1)
    BY <2>1, <2>2, <2>3
  <2>5. QED
    BY <2>1, <2>4 DEF IInv, Collect, Visible
<1>2. /\ SceneOK' /\ \A n : Visible(n)' <=> Visible(n)
      /\ Count \in Nat /\ i \in Table /\ i \in Int
  BY <1>1, SceneStays, SceneFacts DEF Table
<1>3. sprites \in Seq(Table) /\ Len(sprites) \in Nat
  BY <1>1 DEF CollectedFrom
<1>4. CASE ~Visible(i)
  <2>1. sprites' = sprites
    BY <1>1, <1>4
  <2>2. SortedUpTo(0)'
    BY <1>1, <1>3, <2>1 DEF SortedUpTo
  <2>3. \A n \in Table : n >= i /\ Visible(n) => n >= i + 1
    BY <1>2, <1>4 DEF Table
  <2>4. \A k \in 1..Len(sprites) : sprites[k] \in Table /\ sprites[k] >= i
    BY <1>1, <1>2, <1>3 DEF CollectedFrom, Table
  <2>5. CollectedFrom(i + 1)'
    BY <1>1, <1>2, <1>3, <2>1, <2>3, <2>4 DEF CollectedFrom
  <2>6. QED
    BY <1>1, <1>2, <1>3, <2>1, <2>2, <2>5 DEF IInv
<1>5. CASE Visible(i)
  <2>1. /\ sprites' \in Seq(Table) /\ Len(sprites') = Len(sprites) + 1
        /\ \A k \in 1..Len(sprites) : sprites'[k] = sprites[k]
        /\ sprites'[Len(sprites) + 1] = i
    BY <1>1, <1>2, <1>3, <1>5
  <2>2. \A k \in 1..Len(sprites) : sprites[k] \in Table /\ sprites[k] >= i + 1
    BY <1>1, <1>3 DEF CollectedFrom
  <2>3. SortedUpTo(0)'
    <3> SUFFICES ASSUME NEW m \in 1..Len(sprites'), NEW k \in 1..(m - 1)
                 PROVE  sprites'[k] > sprites'[m]
      BY <1>3, <2>1 DEF SortedUpTo
    <3>1. CASE m \in 1..Len(sprites)
      BY <1>1, <1>3, <2>1, <3>1 DEF SortedUpTo
    <3>2. CASE m = Len(sprites) + 1
      <4>1. k \in 1..Len(sprites)
        BY <1>3, <3>2
      <4>2. QED
        BY <1>2, <2>1, <2>2, <3>2, <4>1 DEF Table
    <3>3. QED
      BY <1>3, <2>1, <3>1, <3>2
  <2>4. CollectedFrom(i + 1)'
    <3>1. ASSUME NEW k \in 1..Len(sprites')
          PROVE  sprites'[k] >= i /\ Visible(sprites'[k])
      <4>1. CASE k \in 1..Len(sprites)
        BY <1>1, <1>2, <2>1, <2>2, <4>1 DEF CollectedFrom, Table
      <4>2. CASE k = Len(sprites) + 1
        BY <1>2, <1>5, <2>1, <4>2
      <4>3. QED
        BY <1>3, <2>1, <4>1, <4>2
    <3>2. ASSUME NEW n \in Table, n >= i, Visible(n)
          PROVE  \E k \in 1..Len(sprites') : sprites'[k] = n
      <4>1. CASE n = i
        BY <1>3, <2>1, <4>1
      <4>2. CASE n >= i + 1
        <5>1. PICK k \in 1..Len(sprites) : sprites[k] = n
          BY <1>1, <3>2, <4>2 DEF CollectedFrom
        <5>2. k \in 1..Len(sprites') /\ sprites'[k] = n
          BY <1>3, <2>1, <5>1
        <5>3. QED
          BY <5>2
      <4>3. QED
        BY <1>2, <3>2, <4>1, <4>2 DEF Table
    <3>3. i' + 1 = i
      BY <1>1, <1>2
    <3>4. QED
      BY <1>2, <2>1, <3>1, <3>2, <3>3 DEF CollectedFrom
  <2>5. Len(sprites') <= Count - 1 - i'
    BY <1>1, <1>2, <1>3, <2>1
  <2>6. QED
    BY <1>1, <1>2, <2>3, <2>4, <2>5 DEF IInv
<1>6. QED
  BY <1>4, <1>5

LEMMA CollectedKeepsInv == IInv /\ Collected => IInv'
<1> SUFFICES ASSUME IInv, Collected PROVE IInv'
  OBVIOUS
<1>1. /\ phase' = "sort" /\ i' = 2 /\ UNCHANGED scene /\ picture' = picture /\ sprites' = sprites
      /\ SceneOK /\ picture \in [Columns -> Table \cup {Background}]
      /\ i = -1 /\ CollectedFrom(i + 1) /\ SortedUpTo(0) /\ Len(sprites) <= Count - 1 - i
  <2>1. phase = "collect" /\ i < 0
    BY DEF Collected
  <2>2. Count \in Nat /\ i \in -1..(Count - 1)
    BY <2>1, SceneFacts DEF IInv
  <2>3. i = -1
    BY <2>1, <2>2
  <2>4. QED
    BY <2>1, <2>3 DEF IInv, Collected
<1>2. SceneOK' /\ (\A n : Visible(n)' <=> Visible(n)) /\ Count \in Nat
  BY <1>1, SceneStays, SceneFacts
<1>3. CollectedFrom(0)'
  BY <1>1, <1>2 DEF CollectedFrom
<1>4. SortedUpTo(1)'
  <2> SUFFICES ASSUME NEW m \in 1..Len(sprites), NEW k \in 1..(m - 1)
               PROVE  m > 1 /\ sprites[k] > sprites[m]
    BY <1>1 DEF SortedUpTo
  <2>1. Len(sprites) \in Nat
    BY <1>1 DEF CollectedFrom
  <2>2. QED
    BY <1>1, <2>1 DEF SortedUpTo
<1>5. Len(sprites') <= Count /\ i' - 1 = 1
  BY <1>1, <1>2
<1>6. QED
  BY <1>1, <1>2, <1>3, <1>4, <1>5 DEF IInv

(* The place the sort finds for the next sprite: after those that precede  *)
(* it, before the others, as far as the sprites are sorted.                *)
LEMMA PlaceFacts ==
    ASSUME SceneOK, sprites \in Seq(Table), NEW b \in 2..Len(sprites), SortedUpTo(b - 1)
    PROVE  LET stay == {j \in 1..(b - 1) : oam[sprites[j]].x <= oam[sprites[b]].x}
               after == IF stay = {} THEN 0 ELSE CHOOSE j \in stay : \A k \in stay : k <= j
           IN  /\ after \in 0..(b - 1)
               /\ \A j \in 1..after : Before(sprites[j], sprites[b])
               /\ \A j \in (after + 1)..(b - 1) : Before(sprites[b], sprites[j])
<1> DEFINE X(j) == oam[sprites[j]].x
           stay == {j \in 1..(b - 1) : X(j) <= X(b)}
           after == IF stay = {} THEN 0 ELSE CHOOSE j \in stay : \A k \in stay : k <= j
<1>1. /\ Len(sprites) \in Nat /\ b \in Nat /\ b <= Len(sprites)
      /\ \A j \in 1..Len(sprites) : sprites[j] \in Table /\ X(j) \in Nat /\ sprites[j] \in Nat
  <2>1. \A j \in 1..Len(sprites) : sprites[j] \in Table
    OBVIOUS
  <2>2. \A n \in Table : oam[n].x \in Nat /\ n \in Nat
    BY SceneFacts DEF Table
  <2>3. QED
    BY <2>1, <2>2
<1>2. after \in 0..(b - 1) /\ (after # 0 => after \in stay) /\ \A j \in stay : j <= after
  <2>1. CASE stay = {}
    BY <1>1, <2>1
  <2>2. CASE stay # {}
    <3>1. stay \in SUBSET (1..(b - 1)) /\ b - 1 \in Nat
      BY <1>1
    <3> HIDE DEF stay
    <3>2. \E j \in stay : \A k \in stay : k <= j
      BY <2>2, <3>1, LargestExists
    <3>3. after \in stay /\ \A k \in stay : k <= after
      BY <2>2, <3>2
    <3> HIDE DEF after
    <3>4. QED
      BY <1>1, <3>1, <3>3
  <2>3. QED
    BY <2>1, <2>2
<1> HIDE DEF after
<1>3. ASSUME NEW j \in 1..after PROVE Before(sprites[j], sprites[b])
  <2>1. after \in stay /\ j \in 1..Len(sprites) /\ after \in 1..Len(sprites)
    BY <1>1, <1>2
  <2>2. sprites[j] > sprites[b]
    BY <1>1, <1>2, <2>1 DEF SortedUpTo
  <2>3. X(j) <= X(after)
    <3>1. CASE j = after
      BY <1>1, <2>1, <3>1
    <3>2. CASE j < after
      <4>1. Before(sprites[j], sprites[after])
        BY <1>1, <1>2, <2>1, <3>2 DEF SortedUpTo
      <4>2. QED
        BY <1>1, <2>1, <4>1 DEF Before
    <3>3. QED
      BY <1>1, <1>2, <3>1, <3>2
  <2>4. X(j) <= X(b)
    BY <1>1, <2>1, <2>3
  <2>5. QED
    BY <1>1, <2>1, <2>2, <2>4 DEF Before
<1>4. ASSUME NEW j \in (after + 1)..(b - 1) PROVE Before(sprites[b], sprites[j])
  <2>1. j \in 1..(b - 1) /\ j \notin stay /\ j \in 1..Len(sprites)
    BY <1>1, <1>2
  <2>2. QED
    BY <1>1, <2>1 DEF Before
<1>5. QED
  BY <1>2, <1>3, <1>4 DEF after

(* One pass of the sort moves a sprite into the sorted part and loses none.*)
LEMMA InsertKeepsInv == IInv /\ Insert => IInv'
<1> SUFFICES ASSUME IInv, Insert PROVE IInv'
  OBVIOUS
<1> DEFINE stay == {j \in 1..(i - 1) : oam[sprites[j]].x <= oam[sprites[i]].x}
           after == IF stay = {} THEN 0 ELSE CHOOSE j \in stay : \A k \in stay : k <= j
           a == after + 1
           new == InsertAt(RemoveAt(sprites, i), a, sprites[i])
<1>1. /\ phase = "sort" /\ phase' = "sort" /\ i' = i + 1 /\ UNCHANGED scene /\ picture' = picture
      /\ SceneOK /\ picture \in [Columns -> Table \cup {Background}]
      /\ i \in 2..(Count + 1) \cup {2} /\ CollectedFrom(0) /\ SortedUpTo(i - 1)
      /\ Len(sprites) <= Count /\ i <= Len(sprites) /\ sprites' = new
  BY DEF IInv, Insert
<1>2. /\ SceneOK' /\ (\A n : Visible(n)' <=> Visible(n))
      /\ (\A p, q : Before(p, q)' <=> Before(p, q)) /\ Count \in Nat
  BY <1>1, SceneStays, SceneFacts
<1>3. /\ sprites \in Seq(Table) /\ Len(sprites) \in Nat /\ i \in 2..Len(sprites) /\ i \in Nat
      /\ \A k \in 1..Len(sprites) : sprites[k] \in Table
  BY <1>1, <1>2 DEF CollectedFrom
<1>4. /\ after \in 0..(i - 1)
      /\ \A j \in 1..after : Before(sprites[j], sprites[i])
      /\ \A j \in (after + 1)..(i - 1) : Before(sprites[i], sprites[j])
  BY <1>1, <1>3, PlaceFacts
<1> HIDE DEF after
<1>5. /\ new \in Seq(Table) /\ Len(new) = Len(sprites)
      /\ \A j \in 1..Len(sprites) :
           new[j] = IF j < a \/ j > i THEN sprites[j]
                    ELSE IF j = a THEN sprites[i] ELSE sprites[j - 1]
  <2>1. a \in 1..i /\ i \in 1..Len(sprites)
    BY <1>3, <1>4
  <2> HIDE DEF a
  <2>2. new \in Seq(Table) /\ Len(new) = Len(sprites)
    BY <1>3, <2>1, MoveFacts
  <2>3. ASSUME NEW j \in 1..Len(sprites)
        PROVE  new[j] = IF j < a \/ j > i THEN sprites[j]
                        ELSE IF j = a THEN sprites[i] ELSE sprites[j - 1]
    BY <1>3, <2>1, MovedElement
  <2>4. QED
    BY <2>2, <2>3
<1> HIDE DEF new
(* Where the sprite at each place comes from, and where each goes.         *)
<1> DEFINE from(j) == IF j < a \/ j > i THEN j ELSE IF j = a THEN i ELSE j - 1
<1>6. /\ \A j \in 1..Len(sprites) : from(j) \in 1..Len(sprites) /\ new[j] = sprites[from(j)]
      /\ \A k \in 1..Len(sprites) : \E j \in 1..Len(sprites) : from(j) = k
  <2>1. ASSUME NEW j \in 1..Len(sprites)
        PROVE  from(j) \in 1..Len(sprites) /\ new[j] = sprites[from(j)]
    BY <1>3, <1>4, <1>5
  <2>2. ASSUME NEW k \in 1..Len(sprites)
        PROVE  \E j \in 1..Len(sprites) : from(j) = k
    <3>1. CASE k < a \/ k > i
      BY <3>1
    <3>2. CASE k = i
      <4>1. a \in 1..Len(sprites) /\ from(a) = i
        BY <1>3, <1>4
      <4>2. QED
        BY <3>2, <4>1
    <3>3. CASE a <= k /\ k < i
      <4>1. k + 1 \in 1..Len(sprites) /\ from(k + 1) = k
        BY <1>3, <1>4, <3>3
      <4>2. QED
        BY <4>1
    <3>4. QED
      BY <1>3, <1>4, <3>1, <3>2, <3>3
  <2>3. QED
    BY <2>1, <2>2
<1>7. SortedUpTo(i - 1)'
  <2> SUFFICES ASSUME NEW m \in 1..Len(sprites), NEW k \in 1..(m - 1)
               PROVE  IF m <= i THEN Before(new[k], new[m]) ELSE new[k] > new[m]
    BY <1>1, <1>2, <1>3, <1>5 DEF SortedUpTo
  <2>1. /\ m \in Nat /\ k \in 1..Len(sprites) /\ k < m /\ a \in 1..i
        /\ \A u \in 1..Len(sprites) : \A v \in 1..(u - 1) :
             IF u <= i - 1 THEN Before(sprites[v], sprites[u]) ELSE sprites[v] > sprites[u]
    BY <1>1, <1>3, <1>4 DEF SortedUpTo
  <2>2. CASE m > i
    <3>1. from(m) = m /\ from(k) \in 1..(m - 1)
      BY <1>3, <2>1, <2>2
    <3>2. new[m] = sprites[m] /\ new[k] = sprites[from(k)]
      BY <1>6, <2>1, <3>1
    <3> HIDE DEF from
    <3>3. QED
      BY <1>3, <2>1, <2>2, <3>1, <3>2
  <2>3. CASE m = a
    <3>1. new[m] = sprites[i] /\ new[k] = sprites[k] /\ k \in 1..after
      BY <1>3, <1>4, <1>5, <2>1, <2>3
    <3>2. QED
      BY <1>4, <2>1, <2>3, <3>1
  <2>4. CASE m <= i /\ k = a
    <3>1. new[m] = sprites[m - 1] /\ new[k] = sprites[i] /\ m - 1 \in (after + 1)..(i - 1)
      BY <1>3, <1>4, <1>5, <2>1, <2>4
    <3>2. QED
      BY <1>4, <2>4, <3>1
  <2>5. CASE m <= i /\ m # a /\ k # a
    <3>1. /\ from(m) \in 1..(i - 1) /\ from(m) \in 1..Len(sprites)
          /\ from(k) \in 1..(from(m) - 1)
      BY <1>3, <2>1, <2>5
    <3>2. new[m] = sprites[from(m)] /\ new[k] = sprites[from(k)]
      BY <1>6, <2>1
    <3> HIDE DEF from
    <3>3. QED
      BY <1>3, <2>1, <2>5, <3>1, <3>2
  <2>6. QED
    BY <1>3, <2>1, <2>2, <2>3, <2>4, <2>5
<1>8. CollectedFrom(0)'
  <2> HIDE DEF from
  <2>1. \A k \in 1..Len(sprites) : new[k] >= 0 /\ Visible(new[k])
    BY <1>1, <1>6 DEF CollectedFrom
  <2>2. ASSUME NEW n \in Table, n >= 0, Visible(n)
        PROVE  \E j \in 1..Len(sprites) : new[j] = n
    <3>1. PICK k \in 1..Len(sprites) : sprites[k] = n
      BY <1>1, <2>2 DEF CollectedFrom
    <3>2. PICK j \in 1..Len(sprites) : from(j) = k
      BY <1>6
    <3>3. QED
      BY <1>6, <3>1, <3>2
  <2>3. QED
    BY <1>1, <1>2, <1>5, <2>1, <2>2 DEF CollectedFrom
<1>9. i' \in 2..(Count + 1) \cup {2} /\ i' - 1 = i /\ Len(sprites') <= Count
  BY <1>1, <1>2, <1>3, <1>5
<1>10. QED
  BY <1>1, <1>2, <1>7, <1>8, <1>9 DEF IInv

LEMMA SortedKeepsInv == IInv /\ Sorted => IInv'
<1> SUFFICES ASSUME IInv, Sorted PROVE IInv'
  OBVIOUS
<1>1. /\ phase' = "draw" /\ i' = 1 /\ UNCHANGED scene /\ picture' = picture /\ sprites' = sprites
      /\ SceneOK /\ picture \in [Columns -> Table \cup {Background}]
      /\ i \in 2..(Count + 1) \cup {2} /\ CollectedFrom(0) /\ SortedUpTo(i - 1)
      /\ Len(sprites) <= Count /\ i > Len(sprites)
  BY DEF IInv, Sorted
<1>2. /\ SceneOK' /\ (\A n : Visible(n)' <=> Visible(n))
      /\ (\A p, q : Before(p, q)' <=> Before(p, q)) /\ Count \in Nat
      /\ Len(sprites) \in Nat /\ i \in Nat
  BY <1>1, SceneStays, SceneFacts DEF CollectedFrom
<1>3. CollectedFrom(0)' /\ SortedUpTo(Len(sprites))' /\ DrawnUpTo(0)'
  <2>1. CollectedFrom(0)'
    BY <1>1, <1>2 DEF CollectedFrom
  <2>2. SortedUpTo(Len(sprites))'
    BY <1>1, <1>2 DEF SortedUpTo
  <2>3. DrawnUpTo(0)'
    BY <1>1, <1>2 DEF DrawnUpTo
  <2>4. QED
    BY <2>1, <2>2, <2>3
<1>4. i' \in 1..(Count + 1) /\ i' - 1 = 0
  BY <1>1, <1>2
<1>5. QED
  BY <1>1, <1>2, <1>3, <1>4 DEF IInv

LEMMA DrawKeepsInv == IInv /\ Draw => IInv'
<1> SUFFICES ASSUME IInv, Draw PROVE IInv'
  OBVIOUS
<1>1. /\ phase = "draw" /\ phase' = "draw" /\ i' = i + 1 /\ UNCHANGED scene /\ sprites' = sprites
      /\ SceneOK /\ picture \in [Columns -> Table \cup {Background}]
      /\ i \in 1..(Count + 1) /\ CollectedFrom(0) /\ SortedUpTo(Len(sprites))
      /\ Len(sprites) <= Count /\ i <= Len(sprites) /\ DrawnUpTo(i - 1)
      /\ picture' = [c \in Columns |->
                       IF c \in Inked(oam[sprites[i]]) THEN sprites[i] ELSE picture[c]]
  BY DEF IInv, Draw
<1>2. /\ SceneOK' /\ (\A n : Visible(n)' <=> Visible(n)) /\ oam' = oam
      /\ (\A p, q : Before(p, q)' <=> Before(p, q)) /\ Count \in Nat
      /\ (\A t : Inked(t)' = Inked(t)) /\ (\A t : Inked(t) \subseteq Columns)
  BY <1>1, SceneStays, SceneFacts DEF Inked
<1>3. /\ Len(sprites) \in Nat /\ i \in 1..Len(sprites) /\ sprites[i] \in Table /\ i \in Nat
  BY <1>1, <1>2 DEF CollectedFrom
<1>4. picture' \in [Columns -> Table \cup {Background}]
  BY <1>1, <1>3
<1>5. CollectedFrom(0)' /\ SortedUpTo(Len(sprites))'
  <2>1. CollectedFrom(0)'
    BY <1>1, <1>2 DEF CollectedFrom
  <2>2. SortedUpTo(Len(sprites))'
    BY <1>1, <1>2 DEF SortedUpTo
  <2>3. QED
    BY <2>1, <2>2
<1>6. DrawnUpTo(i - 1)'
  <2>1. ASSUME NEW k \in 1..Len(sprites), k <= i, NEW c \in Inked(oam[sprites[k]])
        PROVE  \E m \in k..i : m <= Len(sprites) /\ picture'[c] = sprites[m]
    <3>1. c \in Columns /\ k \in Nat
      BY <1>2
    <3>2. CASE c \in Inked(oam[sprites[i]])
      BY <1>1, <1>3, <2>1, <3>1, <3>2
    <3>3. CASE c \notin Inked(oam[sprites[i]])
      <4>1. k <= i - 1
        BY <1>3, <2>1, <3>1, <3>3
      <4>2. PICK m \in k..(i - 1) : m <= Len(sprites) /\ picture[c] = sprites[m]
        BY <1>1, <4>1 DEF DrawnUpTo
      <4>3. m \in k..i /\ picture'[c] = sprites[m]
        BY <1>1, <1>3, <3>1, <3>3, <4>2
      <4>4. QED
        BY <4>2, <4>3
    <3>4. QED
      BY <3>2, <3>3
  <2>2. QED
    BY <1>1, <1>2, <1>3, <2>1 DEF DrawnUpTo
<1>7. i' \in 1..(Count + 1) /\ i' - 1 = i
  BY <1>1, <1>2, <1>3
<1>8. QED
  BY <1>1, <1>2, <1>4, <1>5, <1>6, <1>7 DEF IInv

(* A step that changes nothing but the phase keeps what was drawn.         *)
LEMMA QuietKeepsInv == IInv /\ (Drawn \/ UNCHANGED vars) => IInv'
<1> SUFFICES ASSUME IInv, Drawn \/ UNCHANGED vars PROVE IInv'
  OBVIOUS
<1>1. UNCHANGED <<scene, i, sprites, picture>> /\ SceneOK
  BY DEF IInv, Drawn, vars, scene
<1>2. /\ SceneOK' /\ (\A n : Visible(n)' <=> Visible(n)) /\ oam' = oam
      /\ (\A p, q : Before(p, q)' <=> Before(p, q)) /\ (\A t : Inked(t)' = Inked(t))
  BY <1>1, SceneStays
<1>3. /\ CollectedFrom(i + 1) => CollectedFrom(i + 1)'
      /\ CollectedFrom(0) => CollectedFrom(0)'
      /\ SortedUpTo(0) => SortedUpTo(0)'
      /\ SortedUpTo(i - 1) => SortedUpTo(i - 1)'
      /\ SortedUpTo(Len(sprites)) => SortedUpTo(Len(sprites))'
      /\ DrawnUpTo(i - 1) => DrawnUpTo(i - 1)'
  <2>1. /\ CollectedFrom(i + 1) => CollectedFrom(i + 1)'
        /\ CollectedFrom(0) => CollectedFrom(0)'
    BY <1>1, <1>2 DEF CollectedFrom
  <2>2. /\ SortedUpTo(0) => SortedUpTo(0)'
        /\ SortedUpTo(i - 1) => SortedUpTo(i - 1)'
        /\ SortedUpTo(Len(sprites)) => SortedUpTo(Len(sprites))'
    BY <1>1, <1>2 DEF SortedUpTo
  <2>3. DrawnUpTo(i - 1) => DrawnUpTo(i - 1)'
    BY <1>1, <1>2 DEF DrawnUpTo
  <2>4. QED
    BY <2>1, <2>2, <2>3
<1>4. CASE UNCHANGED vars
  <2>1. phase' = phase /\ i' = i /\ sprites' = sprites /\ picture' = picture
    BY <1>4 DEF vars
  <2>2. CASE phase = "background"
    BY <1>2, <2>1, <2>2 DEF IInv
  <2>3. CASE phase = "collect"
    BY <1>2, <1>3, <2>1, <2>3 DEF IInv
  <2>4. CASE phase = "sort"
    <3>1. /\ i \in 2..(Count + 1) \cup {2} /\ CollectedFrom(0) /\ SortedUpTo(i - 1)
          /\ Len(sprites) <= Count /\ picture \in [Columns -> Table \cup {Background}]
      BY <2>4 DEF IInv
    <3>2. CollectedFrom(0)' /\ SortedUpTo(i - 1)'
      BY <1>3, <3>1
    <3>3. QED
      BY <1>2, <2>1, <2>4, <3>1, <3>2 DEF IInv
  <2>5. CASE phase \in {"draw", "done"}
    <3>1. /\ i \in 1..(Count + 1) /\ CollectedFrom(0) /\ SortedUpTo(Len(sprites))
          /\ Len(sprites) <= Count /\ DrawnUpTo(i - 1)
          /\ phase = "done" => i > Len(sprites) \/ i > MaxPerLine
          /\ picture \in [Columns -> Table \cup {Background}]
      BY <2>5 DEF IInv
    <3>2. CollectedFrom(0)' /\ SortedUpTo(Len(sprites))' /\ DrawnUpTo(i - 1)'
      BY <1>3, <3>1
    <3>3. QED
      BY <1>2, <2>1, <2>5, <3>1, <3>2 DEF IInv
  <2>6. QED
    BY <2>2, <2>3, <2>4, <2>5 DEF IInv
<1>5. CASE Drawn
  <2>1. /\ phase = "draw" /\ phase' = "done" /\ (i > Len(sprites) \/ i > MaxPerLine)
        /\ i' = i /\ sprites' = sprites /\ picture' = picture
    BY <1>5 DEF Drawn
  <2>2. /\ i \in 1..(Count + 1) /\ CollectedFrom(0) /\ SortedUpTo(Len(sprites))
        /\ Len(sprites) <= Count /\ DrawnUpTo(i - 1)
        /\ picture \in [Columns -> Table \cup {Background}]
    BY <2>1 DEF IInv
  <2>3. CollectedFrom(0)' /\ SortedUpTo(Len(sprites))' /\ DrawnUpTo(i - 1)'
    BY <1>3, <2>2
  <2>4. QED
    BY <1>2, <2>1, <2>2, <2>3 DEF IInv
<1>6. QED
  BY <1>4, <1>5

LEMMA NextKeepsInv == IInv /\ [Next]_vars => IInv'
  BY BackgroundKeepsInv, CollectKeepsInv, CollectedKeepsInv, InsertKeepsInv, SortedKeepsInv,
     DrawKeepsInv, QuietKeepsInv DEF Next

-----------------------------------------------------------------------------

(* The inductive invariant: what each phase has done so far to the sprites *)
(* of the table that are on the line.                                      *)
THEOREM InvHolds == Spec => []IInv
  BY InitEstablishesInv, NextKeepsInv, PTL DEF Spec

(* The buffer of collected sprites never overflows, and the counters and   *)
(* the picture keep their types.                                           *)
THEOREM SpritesTypeCorrect == Spec => []TypeOK
<1>1. IInv => TypeOK
  <2> SUFFICES ASSUME IInv PROVE TypeOK
    OBVIOUS
  <2>1. Count \in Nat \ {0} /\ picture \in [Columns -> Table \cup {Background}]
    BY SpritesAssumption DEF IInv
  <2>2. CASE phase = "background"
    BY <2>1, <2>2 DEF IInv, TypeOK
  <2>3. CASE phase = "collect"
    <3>1. i \in -1..(Count - 1) /\ sprites \in Seq(Table) /\ Len(sprites) <= Count - 1 - i
      BY <2>3 DEF IInv, CollectedFrom
    <3>2. Len(sprites) <= Count /\ i \in -1..(Count + 1)
      BY <2>1, <3>1
    <3>3. QED
      BY <2>1, <2>3, <3>1, <3>2 DEF TypeOK
  <2>4. CASE phase \in {"sort", "draw", "done"}
    <3>1. /\ i \in 1..(Count + 1) \cup {2} /\ sprites \in Seq(Table) /\ Len(sprites) <= Count
      BY <2>1, <2>4 DEF IInv, CollectedFrom
    <3>2. i \in -1..(Count + 1)
      BY <2>1, <3>1
    <3>3. QED
      BY <2>1, <2>4, <3>1, <3>2 DEF TypeOK
  <2>5. QED
    BY <2>2, <2>3, <2>4 DEF IInv
<1>2. QED
  BY <1>1, InvHolds, PTL

(* The assertion of gb_DISPLAY_render_sprite_line holds: every sprite      *)
(* collected is drawn by one of its own rows.                              *)
THEOREM RowsAlwaysExist == Spec => []RowsExist
<1>1. IInv => RowsExist
  <2> SUFFICES ASSUME IInv PROVE RowsExist
    OBVIOUS
  <2>1. SceneOK
    BY DEF IInv
  <2>2. CASE phase = "background"
    BY <2>2 DEF IInv, RowsExist
  <2>3. CASE phase # "background"
    <3>1. \A k \in 1..Len(sprites) : sprites[k] \in Table /\ Visible(sprites[k])
      BY <2>3 DEF IInv, CollectedFrom
    <3>2. QED
      BY <2>1, <3>1, RowOfVisible DEF RowsExist
  <2>4. QED
    BY <2>2, <2>3
<1>2. QED
  BY <1>1, InvHolds, PTL

(* The collection and the sort lose and repeat no sprite.                  *)
THEOREM EachExactlyOnce == Spec => []EachOnce
<1>1. IInv => EachOnce
  <2> SUFFICES ASSUME IInv, phase \in {"sort", "draw", "done"}
               PROVE  /\ \A k, m \in 1..Len(sprites) : sprites[k] = sprites[m] => k = m
                      /\ \A n \in Table :
                           oam[n].y >= YOffset /\ Row(oam[n]) \in 0..(OBJ_height_px - 1)
                             => \E k \in 1..Len(sprites) : sprites[k] = n
    BY DEF EachOnce
  <2>1. /\ SceneOK /\ CollectedFrom(0) /\ \E n : SortedUpTo(n)
        /\ sprites \in Seq(Table) /\ Len(sprites) \in Nat
        /\ \A k \in 1..Len(sprites) : sprites[k] \in Table
    BY DEF IInv, CollectedFrom
  <2>2. \A n \in Table : n \in Nat /\ oam[n].x \in Nat
    BY <2>1, SceneFacts DEF Table
  <2>3. ASSUME NEW m \in 1..Len(sprites), NEW k \in 1..(m - 1)
        PROVE  sprites[k] # sprites[m]
    <3>1. Before(sprites[k], sprites[m]) \/ sprites[k] > sprites[m]
      BY <2>1 DEF SortedUpTo
    <3>2. sprites[k] \in Table /\ sprites[m] \in Table
      BY <2>1
    <3>3. QED
      BY <2>2, <3>1, <3>2 DEF Before
  <2>4. \A k, m \in 1..Len(sprites) : sprites[k] = sprites[m] => k = m
    <3> SUFFICES ASSUME NEW k \in 1..Len(sprites), NEW m \in 1..Len(sprites), k < m
                 PROVE  sprites[k] # sprites[m]
      BY <2>1
    <3>1. k \in 1..(m - 1)
      BY <2>1
    <3>2. QED
      BY <2>3, <3>1
  <2>5. ASSUME NEW n \in Table, oam[n].y >= YOffset, Row(oam[n]) \in 0..(OBJ_height_px - 1)
        PROVE  \E k \in 1..Len(sprites) : sprites[k] = n
    <3>1. Visible(n) /\ n >= 0
      BY <2>1, <2>2, <2>5, RowOfVisible
    <3>2. QED
      BY <2>1, <3>1 DEF CollectedFrom
  <2>6. QED
    BY <2>4, <2>5
<1>2. QED
  BY <1>1, InvHolds, PTL

(* What is known of the finished line: the order, and what was drawn.      *)
LEMMA FinishedLine ==
    ASSUME IInv, phase = "done"
    PROVE  /\ SceneOK /\ Len(sprites) \in Nat /\ MaxPerLine \in Nat
           /\ \A k \in 1..Len(sprites) : /\ sprites[k] \in Table
                                         /\ sprites[k] \in Nat /\ sprites[k] < Count
                                         /\ oam[sprites[k]].x \in Nat
           /\ \A m \in 1..Len(sprites) : \A k \in 1..(m - 1) : Before(sprites[k], sprites[m])
           /\ \A n \in Shown : \E k \in 1..Len(sprites) : k <= MaxPerLine /\ n = sprites[k]
           /\ \A n \in Omitted : \E k \in 1..Len(sprites) : k > MaxPerLine /\ n = sprites[k]
           /\ \A k \in 1..Len(sprites) : k <= MaxPerLine =>
                \A c \in Inked(oam[sprites[k]]) :
                    \E m \in 1..Len(sprites) : k <= m /\ picture[c] = sprites[m]
<1>1. /\ SceneOK /\ sprites \in Seq(Table) /\ Len(sprites) \in Nat /\ MaxPerLine \in Nat
      /\ Count \in Nat /\ i \in 1..(Count + 1) /\ SortedUpTo(Len(sprites)) /\ DrawnUpTo(i - 1)
      /\ (i > Len(sprites) \/ i > MaxPerLine)
  BY SceneFacts DEF IInv, CollectedFrom
<1>2. \A n \in Table : n \in Nat /\ n < Count /\ oam[n].x \in Nat
  BY <1>1, SceneFacts DEF Table
<1>3. \A k \in 1..Len(sprites) : sprites[k] \in Table
  BY <1>1
<1>4. \A m \in 1..Len(sprites) : \A k \in 1..(m - 1) : Before(sprites[k], sprites[m])
  BY <1>1 DEF SortedUpTo
<1>5. \A n \in Shown : \E k \in 1..Len(sprites) : k <= MaxPerLine /\ n = sprites[k]
  BY <1>1 DEF Shown
<1>6. ASSUME NEW n \in Omitted
      PROVE  \E k \in 1..Len(sprites) : k > MaxPerLine /\ n = sprites[k]
  <2>1. PICK k \in 1..Len(sprites) : n = sprites[k]
    BY DEF Omitted
  <2>2. k > MaxPerLine
    BY <1>1, <2>1 DEF Omitted, Shown
  <2>3. QED
    BY <2>1, <2>2
<1>7. ASSUME NEW k \in 1..Len(sprites), k <= MaxPerLine, NEW c \in Inked(oam[sprites[k]])
      PROVE  \E m \in 1..Len(sprites) : k <= m /\ picture[c] = sprites[m]
  <2>1. k <= i - 1
    BY <1>1, <1>7
  <2>2. PICK m \in k..(i - 1) : m <= Len(sprites) /\ picture[c] = sprites[m]
    BY <1>1, <2>1 DEF DrawnUpTo
  <2>3. m \in 1..Len(sprites) /\ k <= m
    BY <1>1, <2>2
  <2>4. QED
    BY <2>2, <2>3
<1>8. QED
  BY <1>1, <1>2, <1>3, <1>4, <1>5, <1>6, <1>7

(* Past the limit the sprites to the right are left out.                   *)
THEOREM LimitDropsRightmost == Spec => []LimitKeepsLeftmost
<1>1. IInv => LimitKeepsLeftmost
  <2> SUFFICES ASSUME IInv, phase = "done", NEW m \in Omitted, NEW n \in Shown
               PROVE  oam[n].x <= oam[m].x
    BY DEF LimitKeepsLeftmost
  <2>1. PICK k \in 1..Len(sprites) : k <= MaxPerLine /\ n = sprites[k]
    BY FinishedLine
  <2>2. PICK l \in 1..Len(sprites) : l > MaxPerLine /\ m = sprites[l]
    BY FinishedLine
  <2>3. k \in 1..(l - 1) /\ oam[n].x \in Nat /\ oam[m].x \in Nat
    BY <2>1, <2>2, FinishedLine
  <2>4. Before(sprites[k], sprites[l])
    BY <2>3, FinishedLine
  <2>5. QED
    BY <2>1, <2>2, <2>3, <2>4 DEF Before
<1>2. QED
  BY <1>1, InvHolds, PTL

(* Of sprites at the same place the first in the table is seen, and every  *)
(* sprite drawn is seen above the background.                              *)
THEOREM FirstInTableWins == Spec => []TableOrderBreaksTies
<1>1. IInv => TableOrderBreaksTies
  <2> SUFFICES ASSUME IInv, phase = "done", NEW n \in Shown, NEW c \in Inked(oam[n])
               PROVE  /\ picture[c] # Background
                      /\ oam[picture[c]].x = oam[n].x => picture[c] <= n
    BY DEF TableOrderBreaksTies
  <2>1. PICK k \in 1..Len(sprites) : k <= MaxPerLine /\ n = sprites[k]
    BY FinishedLine
  <2>2. PICK m \in 1..Len(sprites) : k <= m /\ picture[c] = sprites[m]
    BY <2>1, FinishedLine
  <2>3. /\ sprites[m] \in Nat /\ sprites[m] < Count /\ oam[sprites[m]].x \in Nat
        /\ n \in Nat /\ oam[n].x \in Nat /\ Len(sprites) \in Nat
    BY <2>1, FinishedLine
  <2>4. k = m \/ Before(sprites[k], sprites[m])
    <3>1. k = m \/ k \in 1..(m - 1)
      BY <2>2, <2>3
    <3>2. QED
      BY <3>1, FinishedLine
  <2>5. QED
    BY <2>1, <2>2, <2>3, <2>4 DEF Before, Background
<1>2. QED
  BY <1>1, InvHolds, PTL


-----------------------------------------------------------------------------
(* The background.                                                         *)

(* Quotient and remainder, with nothing but their types and their sum.     *)
LEMMA DivisionFacts ==
    ASSUME NEW n \in Nat \ {0}, NEW a \in Int
    PROVE  /\ a % n \in 0..(n - 1) /\ a \div n \in Int
           /\ a = (a \div n) * n + (a % n)
BY SMT

(* A multiple leaves no remainder.                                         *)
LEMMA MultiplesDivide ==
    ASSUME NEW n \in Nat \ {0}, NEW k \in Int
    PROVE  (k * n) % n = 0
BY SMT

(* What is below m times n has a quotient below m.                         *)
LEMMA QuotientBound ==
    ASSUME NEW n \in Nat \ {0}, NEW m \in Nat \ {0}, NEW a \in Int, 0 <= a, a < m * n
    PROVE  a \div n \in 0..(m - 1)
BY SMT

(* A side of the map is not empty.                                         *)
LEMMA ProductIsPositive ==
    ASSUME NEW n \in Nat \ {0}, NEW m \in Nat \ {0}
    PROVE  m * n \in Nat \ {0}
BY SMT

(* A row and a column of a square map name one of its places.              *)
LEMMA PlaceInSquare ==
    ASSUME NEW m \in Nat \ {0}, NEW r \in 0..(m - 1), NEW k \in 0..(m - 1)
    PROVE  r * m + k \in 0..(m * m - 1)
<1>1. (m - 1 - r) * m >= 0 /\ r * m >= 0
  BY SMT
<1>2. (m - 1 - r) * m = m * m - m - r * m
  BY SMT
<1>3. m * m \in Int /\ r * m \in Int
  BY SMT
<1>4. QED
  BY <1>1, <1>2, <1>3, SMT

(* The order of additions and subtractions the proofs below change.        *)
LEMMA Regrouped ==
    ASSUME NEW a \in Int, NEW b \in Int, NEW c \in Int, NEW d \in Int
    PROVE  /\ a + b - c = (a + b) - c
           /\ a + b - c - d = a + b - (d + c)
BY SMT

(* A position p on the endless tiling, one place of the map at a time: the *)
(* tile and the pixel in it are those of the map repeated.                 *)
LEMMA PlaceOnMap ==
    ASSUME NEW p \in Int
    PROVE  LET v == p % VramW
           IN  /\ v \div Width \in 0..(MapWidth - 1)
               /\ v % Width \in 0..(Width - 1)
               /\ ((v \div Width) * Width + (v % Width) - p) % VramW = 0
<1> DEFINE v == p % VramW
<1>1. Width \in Nat \ {0} /\ MapWidth \in Nat \ {0}
  BY SpritesAssumption
<1>2. VramW \in Nat \ {0} /\ VramW = MapWidth * Width
  BY <1>1, ProductIsPositive DEF VramW
<1>3. v \in 0..(VramW - 1) /\ p \div VramW \in Int /\ p = (p \div VramW) * VramW + v
  BY <1>2, DivisionFacts
<1> HIDE DEF v
<1>4. v \in Int /\ 0 <= v /\ v < MapWidth * Width
  BY <1>2, <1>3
<1>5. v \div Width \in 0..(MapWidth - 1)
  BY <1>1, <1>4, QuotientBound
<1>6. v % Width \in 0..(Width - 1) /\ (v \div Width) * Width + (v % Width) = v
  BY <1>1, <1>4, DivisionFacts
<1>7. (v - p) % VramW = 0
  <2> DEFINE k == -(p \div VramW)
  <2>1. k \in Int /\ v - p = k * VramW
    BY <1>2, <1>3, <1>4
  <2> HIDE DEF k
  <2>2. QED
    BY <1>2, <2>1, MultiplesDivide
<1>8. ((v \div Width) * Width + (v % Width) - p) % VramW = 0
  <2>1. Width \in Int /\ v \div Width \in Int /\ v % Width \in Int
    BY <1>1, <1>5, <1>6
  <2>2. (v \div Width) * Width \in Int
    BY <2>1
  <2>3. (v \div Width) * Width + (v % Width) - p = ((v \div Width) * Width + (v % Width)) - p
    BY <2>1, <2>2, Regrouped
  <2>4. QED
    BY <1>6, <1>7, <2>3
<1>9. QED
  BY <1>5, <1>6, <1>8 DEF v

(* The signed area: flipping the top bit of a code and counting from the   *)
(* middle of the tile data is adding the code, signed, to 100h.            *)
LEMMA FlippedIsSigned ==
    ASSUME NEW code \in 0..(Codes - 1)
    PROVE  (Codes \div 2) + Flipped(code) = Codes + SignedCode(code)
<1> DEFINE h == Codes \div 2
<1>1. Codes \in Nat /\ Codes % 2 = 0
  BY SpritesAssumption
<1>2. h \in Nat /\ Codes = 2 * h /\ Codes \in Nat \ {0}
  BY <1>1
<1>3. Flipped(code) = (code + h) % Codes /\ SignedCode(code) = IF code >= h THEN code - Codes ELSE code
  BY DEF Flipped, SignedCode
<1> HIDE DEF h
<1>4. CASE code < h
  <2>1. (code + h) % Codes = code + h
    BY <1>2, <1>4
  <2>2. QED
    BY <1>2, <1>3, <1>4, <2>1 DEF h
<1>5. CASE code >= h
  <2>1. (code + h) % Codes = code + h - Codes
    BY <1>2, <1>5
  <2>2. QED
    BY <1>2, <1>3, <1>5, <2>1 DEF h
<1>6. QED
  BY <1>2, <1>4, <1>5

(* What TilingIsSeamless says of a column, kept from the background loop   *)
(* on.                                                                     *)
SeamlessAt(c) ==
    \E col, row \in 0..(MapWidth - 1) :
        LET g == ground[c]
            code == Maps[screen.map][row * MapWidth + col]
        IN  /\ (col * Width + g.x - c - screen.SCX) % VramW = 0
            /\ (row * Width + g.y - LY - screen.SCY) % VramW = 0
            /\ g.x \in 0..(Width - 1) /\ g.y \in 0..(Width - 1)
            /\ g.tile = IF screen.is_CHR_map_index_signed THEN Codes + SignedCode(code) ELSE code

GroundInv ==
    /\ LY \in Lines /\ screen \in Screens
    /\ phase \in {"background", "collect", "sort", "draw", "done"}
    /\ phase # "background" => \A c \in Columns : SeamlessAt(c)

LEMMA BackgroundIsSeamless ==
    ASSUME LY \in Lines, screen \in Screens, DrawBackground, NEW c \in Columns
    PROVE  SeamlessAt(c)'
<1> DEFINE px == screen.SCX + c
           py == screen.SCY + LY
           vx == px % VramW
           vy == py % VramW
           col == vx \div Width
           row == vy \div Width
           code == Maps[screen.map][row * MapWidth + col]
<1>1. /\ MapWidth \in Nat \ {0} /\ Width \in Nat \ {0} /\ ScreenW \in Nat /\ ScreenH \in Nat
      /\ screen.SCX \in 0..(MapWidth * Width - 1) /\ screen.SCY \in 0..(MapWidth * Width - 1)
      /\ screen.map \in 1..2 /\ screen.is_CHR_map_index_signed \in BOOLEAN
      /\ Lines \subseteq 0..(ScreenH - 1)
      /\ Maps \in [1..2 -> [0..(MapWidth * MapWidth - 1) -> 0..(Codes - 1)]]
  BY SpritesAssumption
<1>2. MapWidth * Width \in Int /\ screen.SCX \in Int /\ screen.SCY \in Int /\ c \in Int /\ LY \in Int
  BY <1>1, ProductIsPositive DEF Columns
<1>3. px \in Int /\ py \in Int
  BY <1>2
<1>4. /\ ground'[c] = [tile |-> TileOf(code), x |-> vx % Width, y |-> vy % Width]
      /\ LY' = LY /\ screen' = screen
  BY DEF DrawBackground, scene
<1> HIDE DEF px, py
<1>5. /\ col \in 0..(MapWidth - 1) /\ vx % Width \in 0..(Width - 1)
      /\ (col * Width + (vx % Width) - px) % VramW = 0
      /\ row \in 0..(MapWidth - 1) /\ vy % Width \in 0..(Width - 1)
      /\ (row * Width + (vy % Width) - py) % VramW = 0
  BY <1>3, PlaceOnMap
<1> HIDE DEF vx, vy, col, row
<1> DEFINE gx == vx % Width
           gy == vy % Width
<1>6. /\ (col * Width + gx - c - screen.SCX) = (col * Width + gx - px)
      /\ (row * Width + gy - LY - screen.SCY) = (row * Width + gy - py)
  <2>1. col \in Int /\ row \in Int /\ Width \in Int /\ gx \in Int /\ gy \in Int
    BY <1>1, <1>5
  <2>2. col * Width \in Int /\ row * Width \in Int
    BY <2>1
  <2> HIDE DEF gx, gy
  <2>3. QED
    BY <1>2, <2>1, <2>2, Regrouped DEF px, py
<1>7. row * MapWidth + col \in 0..(MapWidth * MapWidth - 1)
  BY <1>1, <1>5, PlaceInSquare
<1>8. code \in 0..(Codes - 1)
  BY <1>1, <1>7
<1> HIDE DEF code
<1>9. TileOf(code) = IF screen.is_CHR_map_index_signed THEN Codes + SignedCode(code) ELSE code
  BY <1>8, FlippedIsSigned DEF TileOf
<1>10. /\ (col * Width + ground'[c].x - c - screen.SCX) % VramW = 0
       /\ (row * Width + ground'[c].y - LY - screen.SCY) % VramW = 0
       /\ ground'[c].x \in 0..(Width - 1) /\ ground'[c].y \in 0..(Width - 1)
       /\ ground'[c].tile = IF screen.is_CHR_map_index_signed THEN Codes + SignedCode(code) ELSE code
  BY <1>4, <1>5, <1>6, <1>9
<1>11. QED
  BY <1>4, <1>5, <1>10 DEF SeamlessAt, code

(* The picture's background has no seam, wherever it is scrolled to and    *)
(* however its tiles are addressed.                                        *)
THEOREM BackgroundHasNoSeam == Spec => []TilingIsSeamless
<1>1. Init => GroundInv
  BY DEF Init, GroundInv
<1>2. GroundInv /\ [Next]_vars => GroundInv'
  <2> SUFFICES ASSUME GroundInv, [Next]_vars PROVE GroundInv'
    OBVIOUS
  <2>1. CASE DrawBackground
    <3>1. /\ LY' = LY /\ screen' = screen /\ phase' = "collect"
      BY <2>1 DEF DrawBackground, scene
    <3>2. \A c \in Columns : SeamlessAt(c)'
      BY <2>1, BackgroundIsSeamless DEF GroundInv
    <3>3. QED
      BY <3>1, <3>2 DEF GroundInv
  <2>2. ASSUME UNCHANGED <<LY, screen, ground>>, phase # "background" \/ phase' = "background",
               phase' \in {"background", "collect", "sort", "draw", "done"}
        PROVE  GroundInv'
    <3>1. \A c \in Columns : SeamlessAt(c)' <=> SeamlessAt(c)
      BY <2>2 DEF SeamlessAt
    <3>2. QED
      BY <2>2, <3>1 DEF GroundInv
  <2>3. CASE Collect \/ Collected \/ Insert \/ Sorted \/ Draw \/ Drawn \/ UNCHANGED vars
    <3>1. /\ UNCHANGED <<LY, screen, ground>> /\ (phase # "background" \/ phase' = "background")
          /\ phase' \in {"background", "collect", "sort", "draw", "done"}
      BY <2>3 DEF GroundInv, Collect, Collected, Insert, Sorted, Draw, Drawn, vars, scene
    <3>2. QED
      BY <2>2, <3>1
  <2>4. QED
    BY <2>1, <2>3 DEF Next
<1>3. GroundInv => TilingIsSeamless
  BY DEF GroundInv, TilingIsSeamless, SeamlessAt
<1>4. QED
  BY <1>1, <1>2, <1>3, PTL DEF Spec

=============================================================================
