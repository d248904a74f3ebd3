----------------------------- MODULE ViewportProofs -----------------------------
(***************************************************************************)
(* Theorems about Viewport, for every list, terminal and set of keys: the   *)
(* selection is always a target, on the ping screen one that is drawn, and  *)
(* the history fills its line.                                              *)
(***************************************************************************)
EXTENDS Viewport, FiniteSetTheorems, TLAPS

\* A finite set of integers that is not empty has a least element, which is Min.
\* Counting the smaller elements maps the set one to one, so onto, the numbers
\* below its cardinality; the element that has none below it is the least.
LEMMA MinIsLeast ==
  ASSUME NEW S, S \subseteq Int, IsFiniteSet(S), S # {}
  PROVE  Min(S) \in S /\ \A y \in S : Min(S) <= y
<1> DEFINE below(x) == {y \in S : y < x}
           n == Cardinality(S)
           c == [x \in S |-> Cardinality(below(x))]
<1>1. n \in Nat /\ n > 0
  BY FS_CardinalityType, FS_EmptySet
<1>2. ASSUME NEW x \in S
      PROVE  IsFiniteSet(below(x)) /\ Cardinality(below(x)) \in 0 .. n - 1
  <2>1. below(x) \in SUBSET S /\ x \notin below(x)
    OBVIOUS
  <2>2. IsFiniteSet(below(x)) /\ Cardinality(below(x)) <= n /\ Cardinality(below(x)) # n
    BY <2>1, FS_Subset
  <2> QED
    BY <1>1, <2>2, FS_CardinalityType
<1>3. ASSUME NEW x \in S, NEW z \in S, x < z
      PROVE  Cardinality(below(x)) # Cardinality(below(z))
  <2>1. \A y \in S : y < x => y < z
    BY <1>3
  <2>2. below(x) \in SUBSET below(z) /\ x \in below(z) /\ x \notin below(x)
    <3>1. below(x) \in SUBSET below(z)
      BY <2>1
    <3>2. x \in below(z)
      BY <1>3
    <3>3. ~ (x < x)
      OBVIOUS
    <3> QED
      BY <3>1, <3>2, <3>3
  <2>3. IsFiniteSet(below(z))
    BY <1>2
  <2> HIDE DEF below
  <2> QED
    BY <2>2, <2>3, FS_Subset
<1>4. c \in [S -> 0 .. n - 1]
  BY <1>2
<1>5. \A x, z \in S : c[x] = c[z] => x = z
  <2> HIDE DEF below
  <2>1. \A x, z \in S : x # z => x < z \/ z < x
    OBVIOUS
  <2> QED
    BY <1>3, <2>1
<1>6. IsFiniteSet(0 .. n - 1) /\ Cardinality(0 .. n - 1) = n
  BY <1>1, FS_Interval
<1>7. c \in Injection(S, 0 .. n - 1)
  BY <1>4, <1>5 DEF Injection, IsInjective
<1>8. c \in Surjection(S, 0 .. n - 1)
  BY <1>6, <1>7, FS_Injection
<1>9. PICK x \in S : Cardinality(below(x)) = 0
  <2>1. \E x \in S : c[x] = 0
    <3> HIDE DEF c
    <3> QED
      BY <1>1, <1>8 DEF Surjection
  <2> HIDE DEF below
  <2> QED
    BY <2>1
<1>10. below(x) = {}
  BY <1>2, <1>9, FS_EmptySet
<1>11. \A y \in S : x <= y
  BY <1>10
<1> QED
  BY <1>11 DEF Min

\* Bottom is a target, wherever the list starts and whatever the screen.
LEMMA BottomIsARow ==
  ASSUME NEW from \in Nat, NEW h
  PROVE  Bottom(from, h) \in Rows
<1> DEFINE full == {k \in from .. NTAR - 1 : LinesTo(from, k, h) >= h}
<1>1. full \subseteq Rows
  BY TargetsAssumption DEF Rows
<1>2. full # {} => Min(full) \in full
  <2>1. IsFiniteSet(Rows)
    BY TargetsAssumption, FS_Interval DEF Rows
  <2> HIDE DEF full
  <2>2. IsFiniteSet(full)
    BY <1>1, <2>1, FS_Subset
  <2>3. full \subseteq Int
    BY <1>1 DEF Rows
  <2> SUFFICES ASSUME full # {} PROVE Min(full) \in full
    OBVIOUS
  <2> QED
    BY <2>2, <2>3, MinIsLeast
<1>3. Bottom(from, h) = IF full = {} THEN NTAR - 1
                        ELSE IF LinesTo(from, Min(full), h) = h THEN Min(full)
                        ELSE AtLeastZero(Min(full) - 1)
  BY DEF Bottom
<1> HIDE DEF full
<1>4. full # {} => Min(full) \in Rows
  BY <1>1, <1>2
<1> QED
  BY <1>3, <1>4, TargetsAssumption DEF Rows, AtLeastZero

\* A list that starts past its last target has that target at the bottom.
LEMMA BottomPastTheList ==
  ASSUME NEW h
  PROVE  Bottom(NTAR, h) = NTAR - 1
<1>1. {k \in NTAR .. NTAR - 1 : LinesTo(NTAR, k, h) >= h} = {}
  BY TargetsAssumption
<1> QED
  BY <1>1 DEF Bottom

\* scroll keeps `sel` and `top` in the list.
LEMMA ScrollTypes ==
  ASSUME NEW d \in {-1, 0, 1}, NEW h, sel \in Rows, top \in 0 .. NTAR, Scroll(d, h)
  PROVE  sel' \in Rows /\ top' \in 0 .. NTAR
<1>0. NTAR \in Nat /\ NTAR >= 1 /\ Rows = 0 .. NTAR - 1
  BY TargetsAssumption DEF Rows
<1>1. CASE Fits(h) /\ top' = 0 /\ UNCHANGED sel
  BY <1>0, <1>1
<1>2. CASE ScrollPings(d, h)
  <2> DEFINE b == Bottom(top, h)
  <2>1. b \in Rows
    BY BottomIsARow, <1>0
  <2>2. top' = IF d = 1 /\ b < NTAR - 1 THEN top + 1
               ELSE IF d = -1 THEN AtLeastZero(top - 1) ELSE top
    BY <1>2 DEF ScrollPings
  <2>3. top' \in 0 .. NTAR
    <3> HIDE DEF b
    <3>1. CASE d = 1 /\ b < NTAR - 1 /\ top < NTAR
      BY <1>0, <2>2, <3>1
    <3>2. CASE ~(d = 1 /\ b < NTAR - 1)
      BY <1>0, <2>2, <3>2 DEF AtLeastZero
    <3>3. top = NTAR => b = NTAR - 1
      BY BottomPastTheList DEF b
    <3> QED
      BY <1>0, <2>1, <3>1, <3>2, <3>3
  <2>4. Bottom(top', h) \in Rows
    BY BottomIsARow, <1>0, <2>3
  <2>5. sel' = IntoWindow(sel, top', Bottom(top', h))
    BY <1>2 DEF ScrollPings
  <2> QED
    BY <1>0, <2>3, <2>4, <2>5 DEF IntoWindow
<1>3. CASE ScrollOther(d, h)
  <2>1. Bottom(top, h) \in Rows
    BY BottomIsARow, <1>0
  <2> QED
    BY <1>0, <1>3, <2>1 DEF ScrollOther, AtLeastZero
<1> QED
  BY <1>1, <1>2, <1>3 DEF Scroll

-------------------------------------------------------------------------------
\* The types, and that the history was laid out for the columns and the toggles
\* as they are: what every handler leaves behind.
LaidOut == TypeOK /\ nping = Columns(wid, hop, showip, stat)

\* The width of the history is a number (negative on a narrow terminal).
LEMMA ColumnsIsAnInteger ==
  ASSUME NEW w \in Nat, NEW hc \in BOOLEAN, NEW ip \in BOOLEAN, NEW st \in BOOLEAN
  PROVE  Columns(w, hc, ip, st) \in Int
BY LayoutAssumption DEF Columns, Fixed, StatColumns

\* What run() sets up before the loop.
LEMMA InitLaidOut == Init => LaidOut
<1> SUFFICES ASSUME Init PROVE LaidOut
  OBVIOUS
<1>1. mode = "ping" /\ sel \in Rows /\ top \in 0 .. NTAR /\ pc = "loop" /\ dir = 0 /\ new \in Rows
  BY TargetsAssumption DEF Init, Rows
<1>2. <<wid, hgt>> \in Sizes /\ wid \in Nat
  BY SizesAssumption DEF Init
<1>3. hop \in BOOLEAN /\ showip \in BOOLEAN /\ stat \in BOOLEAN
  BY StartsAssumption DEF Init
<1>4. nping = Columns(wid, hop, showip, stat)
  BY DEF Init
<1> QED
  BY <1>1, <1>2, <1>3, <1>4, ColumnsIsAnInteger DEF LaidOut, TypeOK

\* resize leaves the view laid out, for any toggles and any size.
LEMMA ResizeLaysOut ==
  ASSUME LaidOut, NEW w, NEW h, <<w, h>> \in Sizes, Resize(w, h),
         hop' \in BOOLEAN, showip' \in BOOLEAN, stat' \in BOOLEAN,
         UNCHANGED <<mode, pc, dir, new>>
  PROVE  LaidOut'
<1>1. sel' \in Rows /\ top' \in 0 .. NTAR
  BY ScrollTypes DEF LaidOut, TypeOK, Resize
<1>2. <<wid', hgt'>> \in Sizes /\ wid' \in Nat
  BY SizesAssumption DEF Resize
<1>3. nping' = Columns(wid', hop', showip', stat')
  BY DEF Resize
<1> QED
  BY <1>1, <1>2, <1>3, ColumnsIsAnInteger DEF LaidOut, TypeOK

\* Every handler leaves the view laid out.
LEMMA NextLaidOut == LaidOut /\ [Next]_view => LaidOut'
<1> SUFFICES ASSUME LaidOut, [Next]_view PROVE LaidOut'
  OBVIOUS
<1> USE DEF LaidOut
<1>1. ASSUME NEW key, NEW d \in {-1, 1}, Page(key, d) PROVE LaidOut'
  <2>1. sel' \in Rows /\ top' \in 0 .. NTAR
    BY <1>1, ScrollTypes DEF TypeOK, Page
  <2> QED
    BY <1>1, <2>1 DEF TypeOK, Page, layout
<1>2. ASSUME NEW key, NEW d \in {-1, 1}, Select(key, d) PROVE LaidOut'
  <2>1. new' \in Rows
    BY <1>2, TargetsAssumption DEF TypeOK, Select, Rows
  <2> QED
    BY <1>2, <2>1 DEF TypeOK, Select, layout
<1>3. CASE ScrollIntoView
  <2>1. sel' \in Rows /\ top' \in 0 .. NTAR
    BY <1>3, ScrollTypes DEF TypeOK, ScrollIntoView
  <2> QED
    BY <1>3, <2>1 DEF TypeOK, ScrollIntoView, layout
<1>4. CASE Selected
  BY <1>4 DEF TypeOK, Selected, layout
<1>5. ASSUME NEW key \in {"Enter", "Esc", "h"}, ChangeMode(key) PROVE LaidOut'
  <2>1. mode' \in {"ping", "trace", "help"}
    BY <1>5 DEF ChangeMode
  <2> QED
    BY <1>5, <2>1 DEF TypeOK, ChangeMode, layout
<1>6. ASSUME NEW key, Toggle(key) PROVE LaidOut'
  <2>1. hop' \in BOOLEAN /\ showip' \in BOOLEAN /\ stat' \in BOOLEAN
    BY <1>6 DEF Toggle
  <2> QED
    BY <1>6, <2>1, ResizeLaysOut DEF TypeOK, Toggle
<1>7. CASE ResizeEvent
  <2>1. PICK size \in Sizes : Resize(size[1], size[2])
    BY <1>7 DEF ResizeEvent
  <2>2. <<size[1], size[2]>> \in Sizes
    BY SizesAssumption
  <2> QED
    BY <1>7, <2>1, <2>2, ResizeLaysOut DEF TypeOK, ResizeEvent
<1>8. CASE UNCHANGED view
  BY <1>8 DEF TypeOK, view, layout
<1> QED
  BY <1>1, <1>2, <1>3, <1>4, <1>5, <1>6, <1>7, <1>8 DEF Next, Handlers

\* Every reachable view is laid out.
LEMMA AlwaysLaidOut == Spec => []LaidOut
BY InitLaidOut, NextLaidOut, PTL DEF Spec

\* The variables keep their types: whatever keys, switches and resizes come,
\* `sel` and the target newsel moves to are rows of the list, so the handlers
\* that index the pings with them cannot run off its end.
THEOREM TypeCorrect == Spec => []TypeOK
<1>1. LaidOut => TypeOK
  BY DEF LaidOut
<1> QED
  BY <1>1, AlwaysLaidOut, PTL

\* However the toggles and the terminal change, and however wide the columns of
\* the configuration are, the rows drawn by ping_screen take the line and no more.
THEOREM RowFills == Spec => []RowFillsTheLine
<1>1. LaidOut => RowFillsTheLine
  <2> SUFFICES ASSUME LaidOut PROVE RowFillsTheLine
    OBVIOUS
  <2>1. wid \in Nat
    BY SizesAssumption DEF LaidOut, TypeOK
  <2>2. hop \in BOOLEAN /\ showip \in BOOLEAN /\ stat \in BOOLEAN
    BY DEF LaidOut, TypeOK
  <2>3. nping = Columns(wid, hop, showip, stat)
    BY DEF LaidOut
  <2> QED
    BY <2>1, <2>2, <2>3, LayoutAssumption
       DEF Columns, Fixed, StatColumns, RowFillsTheLine
<1> QED
  BY <1>1, AlwaysLaidOut, PTL

-------------------------------------------------------------------------------
(* What bottom computes, and the rows that are drawn.                       *)

\* A count of header lines, and what bounds it.
LEMMA HeaderLines ==
  ASSUME NEW from \in Nat, NEW k \in Nat
  PROVE  /\ IsFiniteSet(Headed \cap (from .. k))
         /\ Cardinality(Headed \cap (from .. k)) \in 0 .. NHDR
         /\ k = from => Cardinality(Headed \cap (from .. k)) <= 1
<1>1. IsFiniteSet(Headed)
  <2>1. IsFiniteSet(Rows)
    BY TargetsAssumption, FS_Interval DEF Rows
  <2> QED
    BY <2>1, TargetsAssumption, FS_Subset
<1>2. /\ IsFiniteSet(Headed \cap (from .. k))
      /\ Cardinality(Headed \cap (from .. k)) <= Cardinality(Headed)
  BY <1>1, FS_Subset
<1>3. Cardinality(Headed) \in Nat /\ Cardinality(Headed \cap (from .. k)) \in Nat
  BY <1>1, <1>2, FS_CardinalityType
<1>4. ASSUME k = from PROVE Cardinality(Headed \cap (from .. k)) <= 1
  <2>1. Headed \cap (from .. k) \subseteq {from}
    BY <1>4
  <2>2. IsFiniteSet({from}) /\ Cardinality({from}) = 1
    BY FS_Singleton
  <2> QED
    BY <2>1, <2>2, FS_Subset
<1> QED
  BY <1>2, <1>3, <1>4, HeaderAssumption

\* A target further down the list needs more lines.
LEMMA LinesGrow ==
  ASSUME NEW from \in Nat, NEW j \in Nat, NEW k \in Nat, j < k, NEW h
  PROVE  /\ LinesTo(from, j, h) \in Int /\ LinesTo(from, k, h) \in Int
         /\ LinesTo(from, j, h) < LinesTo(from, k, h)
<1>1. /\ IsFiniteSet(Headed \cap (from .. k))
      /\ Cardinality(Headed \cap (from .. k)) \in Nat
      /\ Cardinality(Headed \cap (from .. j)) \in Nat
  BY HeaderLines, HeaderAssumption
<1>2. Headed \cap (from .. j) \subseteq Headed \cap (from .. k)
  OBVIOUS
<1>3. Cardinality(Headed \cap (from .. j)) <= Cardinality(Headed \cap (from .. k))
  BY <1>1, <1>2, FS_Subset
<1> QED
  BY <1>1, <1>3 DEF LinesTo

\* A screen with room for the column header, a header line and one target, which
\* has no title line unless it is taller: TALL is 20 in the program.
HasRoom(h) == h \in Nat /\ h >= 3 /\ TALL >= 3

\* On a screen that has room, the first target of the window is drawn.
LEMMA FirstIsDrawn ==
  ASSUME NEW from \in Rows, NEW h, HasRoom(h)
  PROVE  LinesTo(from, from, h) \in Int /\ LinesTo(from, from, h) <= h
<1>1. from \in Nat /\ NTAR \in Nat /\ NTAR >= 1 /\ NHDR \in Nat /\ TALL \in Nat
  BY TargetsAssumption, HeaderAssumption, LayoutAssumption DEF Rows
<1> DEFINE n == Cardinality(Headed \cap (from .. from))
<1>2. n \in 0 .. NHDR /\ n <= 1
  BY <1>1, HeaderLines
<1>3. LinesTo(from, from, h) = (IF Fits(h) \/ h > TALL THEN 2 ELSE 1) + (from - from + 1) + n
  BY DEF LinesTo
<1> HIDE DEF n
<1> QED
  BY <1>1, <1>2, <1>3 DEF Fits, HasRoom

\* bottom is the last target that is drawn: the window is not empty, and every
\* target in it is on the screen (App::bottom against ping_screen).
LEMMA BottomIsDrawn ==
  ASSUME NEW from \in Rows, NEW h, HasRoom(h)
  PROVE  /\ Bottom(from, h) \in from .. NTAR - 1
         /\ from .. Bottom(from, h) \subseteq Drawn(from, h)
<1> DEFINE full == {k \in from .. NTAR - 1 : LinesTo(from, k, h) >= h}
<1>1. from \in Nat /\ NTAR \in Nat /\ NTAR >= 1 /\ from <= NTAR - 1 /\ h \in Nat
  BY TargetsAssumption DEF Rows, HasRoom
<1>2. LinesTo(from, from, h) \in Int /\ LinesTo(from, from, h) <= h
  BY FirstIsDrawn
<1>3. ASSUME NEW j \in from .. NTAR - 1, NEW k \in from .. NTAR - 1, j < k
      PROVE  /\ LinesTo(from, j, h) \in Int /\ LinesTo(from, k, h) \in Int
             /\ LinesTo(from, j, h) < LinesTo(from, k, h)
  BY <1>1, <1>3, LinesGrow
<1>4. ASSUME NEW k \in from .. NTAR - 1 PROVE LinesTo(from, k, h) \in Int
  <2>1. CASE k = from
    BY <1>2, <2>1
  <2>2. CASE k # from
    BY <1>1, <1>3, <2>2
  <2> QED
    BY <2>1, <2>2
<1>5. Bottom(from, h) = IF full = {} THEN NTAR - 1
                        ELSE IF LinesTo(from, Min(full), h) = h THEN Min(full)
                        ELSE AtLeastZero(Min(full) - 1)
  BY DEF Bottom
<1>6. ASSUME NEW b \in from .. NTAR - 1, Bottom(from, h) = b,
             \A k \in from .. b : LinesTo(from, k, h) <= h
      PROVE  /\ Bottom(from, h) \in from .. NTAR - 1
             /\ from .. Bottom(from, h) \subseteq Drawn(from, h)
  BY <1>1, <1>6 DEF Drawn
<1>7. CASE full = {}
  <2>1. \A k \in from .. NTAR - 1 : LinesTo(from, k, h) <= h
    BY <1>1, <1>4, <1>7
  <2> QED
    BY <1>1, <1>5, <1>6, <1>7, <2>1
<1>8. CASE full # {}
  <2>1. full \subseteq Int /\ IsFiniteSet(full)
    <3>1. IsFiniteSet(from .. NTAR - 1)
      BY <1>1, FS_Interval
    <3> QED
      BY <1>1, <3>1, FS_Subset
  <2>2. Min(full) \in full /\ \A y \in full : Min(full) <= y
    <3> HIDE DEF full
    <3> QED
      BY <1>8, <2>1, MinIsLeast
  <2>3. PICK last \in from .. NTAR - 1 :
          /\ last = Min(full) /\ LinesTo(from, last, h) >= h
          /\ \A k \in from .. NTAR - 1 : k < last => LinesTo(from, k, h) < h
    <3>1. \A k \in full : k \in from .. NTAR - 1 /\ LinesTo(from, k, h) >= h
      OBVIOUS
    <3>2. \A k \in from .. NTAR - 1 : k \notin full => LinesTo(from, k, h) < h
      BY <1>1, <1>4
    <3> HIDE DEF full
    <3>3. PICK last \in full : last = Min(full)
      BY <2>2
    <3>4. \A k \in from .. NTAR - 1 : k < last => k \notin full
      BY <1>1, <2>1, <2>2, <3>3
    <3> QED
      BY <3>1, <3>2, <3>3, <3>4
  <2>4. last \in Int /\ from <= last /\ last <= NTAR - 1
    BY <1>1, <2>3
  <2> HIDE DEF full
  <2>5. CASE LinesTo(from, last, h) = h
    <3>1. Bottom(from, h) = last
      BY <1>5, <1>8, <2>3, <2>5
    <3>2. \A k \in from .. last : LinesTo(from, k, h) <= h
      BY <1>1, <1>4, <2>3, <2>4, <2>5
    <3> QED
      BY <1>6, <3>1, <3>2
  <2>6. CASE LinesTo(from, last, h) # h
    <3>1. last > from
      BY <1>2, <1>4, <2>3, <2>4, <2>6, <1>1
    <3>2. Bottom(from, h) = last - 1 /\ last - 1 \in from .. NTAR - 1
      BY <1>1, <1>5, <1>8, <2>3, <2>4, <2>6, <3>1 DEF AtLeastZero
    <3>3. \A k \in from .. last - 1 : LinesTo(from, k, h) <= h
      BY <1>1, <1>4, <2>3, <2>4
    <3> QED
      BY <1>6, <3>2, <3>3
  <2> QED
    BY <2>5, <2>6
<1> QED
  BY <1>7, <1>8

\* When the list fits, the whole of it is drawn and bottom is its end.
LEMMA AllIsDrawn ==
  ASSUME NEW h \in Nat, Fits(h)
  PROVE  Drawn(0, h) = Rows /\ Bottom(0, h) = NTAR - 1
<1>1. NTAR \in Nat /\ NTAR >= 1 /\ NHDR \in Nat /\ NTAR + NHDR + 1 < h
  BY TargetsAssumption, HeaderAssumption DEF Fits
<1>2. ASSUME NEW k \in Rows
      PROVE  LinesTo(0, k, h) \in Int /\ LinesTo(0, k, h) <= k + 3 + NHDR
  <2> DEFINE n == Cardinality(Headed \cap (0 .. k))
  <2>1. k \in Nat /\ 0 \in Nat
    BY <1>1 DEF Rows
  <2>2. n \in 0 .. NHDR
    BY <2>1, HeaderLines
  <2>3. LinesTo(0, k, h) = 2 + (k - 0 + 1) + n
    BY DEF LinesTo
  <2> HIDE DEF n
  <2> QED
    BY <1>1, <2>1, <2>2, <2>3
<1>3. \A k \in Rows : LinesTo(0, k, h) <= h /\ (LinesTo(0, k, h) >= h => k = NTAR - 1)
  BY <1>1, <1>2 DEF Rows
<1>4. Drawn(0, h) = Rows
  BY <1>3 DEF Drawn, Rows
<1> DEFINE full == {k \in 0 .. NTAR - 1 : LinesTo(0, k, h) >= h}
<1>5. full \subseteq {NTAR - 1}
  BY <1>3 DEF Rows
<1>6. CASE full = {}
  BY <1>4, <1>6 DEF Bottom
<1>7. CASE full # {}
  <2>1. full = {NTAR - 1} /\ NTAR - 1 \in Rows /\ LinesTo(0, NTAR - 1, h) >= h
    BY <1>1, <1>5, <1>7 DEF Rows
  <2>2. LinesTo(0, NTAR - 1, h) = h
    BY <1>2, <1>3, <2>1
  <2>3. Min({NTAR - 1}) = NTAR - 1
    <3>1. \A x \in {NTAR - 1} : x = NTAR - 1
      OBVIOUS
    <3> QED
      BY <1>1, <3>1 DEF Min
  <2>4. Bottom(0, h) = IF full = {} THEN NTAR - 1
                       ELSE IF LinesTo(0, Min(full), h) = h THEN Min(full)
                       ELSE AtLeastZero(Min(full) - 1)
    BY DEF Bottom
  <2> HIDE DEF full
  <2> QED
    BY <1>4, <1>7, <2>1, <2>2, <2>3, <2>4
<1> QED
  BY <1>6, <1>7

-------------------------------------------------------------------------------
(* The selection is drawn.                                                  *)

\* The user stays on the ping screen.  (On the others scroll does not follow the
\* selection, see the run hang.)
StaysOnPings == Pressed \cap {"Enter", "h"} = {}

\* Every size of the terminal has room for a target.
ScreensHaveRoom == \A size \in Sizes : HasRoom(size[2])

\* Every size of the terminal shows the whole list.
ListFits == \A size \in Sizes : Fits(size[2])

\* Between events the selection is in the window, and while newsel is scrolling
\* the window moves towards the target it is to select, never past it.
InWindow ==
  /\ mode = "ping" /\ HasRoom(hgt) /\ top \in Rows
  /\ pc = "loop" => sel \in top .. Bottom(top, hgt)
  /\ pc = "select" =>
       \/ dir < 0 /\ new <= Bottom(top, hgt)
       \/ dir > 0 /\ new >= top

\* scroll on the ping screen leaves the selection in the window.
LEMMA ScrollKeepsInWindow ==
  ASSUME TypeOK, mode = "ping", top \in Rows, NEW d \in {-1, 0, 1}, NEW h, HasRoom(h), Scroll(d, h),
         d = 1 => top <= Bottom(top, h)
  PROVE  top' \in Rows /\ sel' \in top' .. Bottom(top', h)
<1>1. NTAR \in Nat /\ NTAR >= 1 /\ Rows = 0 .. NTAR - 1 /\ sel \in Rows /\ h \in Nat
  BY TargetsAssumption DEF Rows, TypeOK, HasRoom
<1>2. CASE Fits(h) /\ top' = 0 /\ UNCHANGED sel
  <2>1. Bottom(0, h) = NTAR - 1
    BY <1>1, <1>2, AllIsDrawn
  <2> QED
    BY <1>1, <1>2, <2>1
<1>3. CASE ScrollPings(d, h)
  <2>1. top' \in Rows
    <3> DEFINE b == Bottom(top, h)
    <3>1. top' = IF d = 1 /\ b < NTAR - 1 THEN top + 1
                 ELSE IF d = -1 THEN AtLeastZero(top - 1) ELSE top
      BY <1>3 DEF ScrollPings
    <3>2. b \in Rows /\ (d = 1 => top <= b)
      BY <1>1, BottomIsARow
    <3> HIDE DEF b
    <3> QED
      BY <1>1, <3>1, <3>2 DEF AtLeastZero
  <2> DEFINE b == Bottom(top', h)
  <2>2. b \in top' .. NTAR - 1
    BY <2>1, BottomIsDrawn
  <2>3. sel' = IntoWindow(sel, top', b)
    BY <1>3 DEF ScrollPings
  <2>4. sel' \in top' .. b
    <3> HIDE DEF b
    <3> QED
      BY <1>1, <2>1, <2>2, <2>3 DEF IntoWindow
  <2> QED
    BY <2>1, <2>4
<1> QED
  BY <1>2, <1>3 DEF Scroll

\* Every handler keeps the selection in the window (handle_key, newsel, resize).
LEMMA WindowFollows ==
  ASSUME StaysOnPings, ScreensHaveRoom
  PROVE  Spec => []InWindow
<1>0. NTAR \in Nat /\ NTAR >= 1 /\ Rows = 0 .. NTAR - 1
  BY TargetsAssumption DEF Rows
<1>1. ASSUME NEW from \in Rows, HasRoom(hgt)
      PROVE  Bottom(from, hgt) \in from .. NTAR - 1 /\ Bottom(from, hgt) \in Rows
  <2>1. Bottom(from, hgt) \in from .. NTAR - 1
    BY <1>1, BottomIsDrawn
  <2> QED
    BY <1>0, <2>1
<1>2. Init => InWindow
  <2> SUFFICES ASSUME Init PROVE InWindow
    OBVIOUS
  <2>1. mode = "ping" /\ sel = 0 /\ top = 0 /\ pc = "loop" /\ 0 \in Rows
    BY <1>0 DEF Init
  <2>2. HasRoom(hgt)
    BY DEF Init, ScreensHaveRoom
  <2>3. Bottom(0, hgt) \in 0 .. NTAR - 1
    BY <1>1, <2>1, <2>2
  <2> QED
    BY <2>1, <2>2, <2>3 DEF InWindow
<1>3. TypeOK /\ InWindow /\ [Next]_view => InWindow'
  <2> SUFFICES ASSUME TypeOK, InWindow, [Next]_view PROVE InWindow'
    OBVIOUS
  <2>0. /\ mode = "ping" /\ HasRoom(hgt) /\ top \in Rows /\ sel \in Rows /\ new \in Rows
        /\ Bottom(top, hgt) \in top .. NTAR - 1
    BY <1>1 DEF InWindow, TypeOK
  <2>1. ASSUME NEW key, NEW d \in {-1, 1}, Page(key, d) PROVE InWindow'
    <3>1. UNCHANGED <<mode, hgt, pc>> /\ pc = "loop" /\ Scroll(d, hgt)
      BY <2>1 DEF Page, layout, Idle
    <3>2. d \in {-1, 0, 1} /\ top <= Bottom(top, hgt)
      BY <1>0, <2>0
    <3>3. top' \in Rows /\ sel' \in top' .. Bottom(top', hgt)
      BY <2>0, <3>1, <3>2, ScrollKeepsInWindow
    <3> QED
      BY <2>0, <3>1, <3>3 DEF InWindow
  <2>2. ASSUME NEW key, NEW d \in {-1, 1}, Select(key, d) PROVE InWindow'
    <3>1. /\ UNCHANGED <<mode, hgt, top>> /\ pc = "loop" /\ pc' = "select" /\ dir' = d
          /\ new' = IF sel + d < 0 THEN 0 ELSE IF sel + d > NTAR - 1 THEN NTAR - 1 ELSE sel + d
      BY <2>2 DEF Select, layout, Idle
    <3> DEFINE b == Bottom(top, hgt)
    <3>2. sel \in top .. b /\ b \in top .. NTAR - 1
      BY <2>0, <3>1 DEF InWindow
    <3>3. (dir' < 0 /\ new' <= b) \/ (dir' > 0 /\ new' >= top)
      <4>1. /\ b \in Int /\ top \in Int /\ sel \in Int /\ new' \in Int /\ NTAR \in Int
            /\ 0 <= top /\ top <= sel /\ sel <= b /\ b <= NTAR - 1
        BY <1>0, <2>0, <2>2, <3>1, <3>2
      <4> HIDE DEF b
      <4>2. CASE d = -1
        <5>1. dir' = -1 /\ new' = IF sel - 1 < 0 THEN 0 ELSE IF sel - 1 > NTAR - 1 THEN NTAR - 1 ELSE sel - 1
          BY <3>1, <4>1, <4>2
        <5>2. new' <= b
          BY <4>1, <5>1
        <5>3. dir' < 0
          BY <5>1
        <5> QED
          BY <5>2, <5>3
      <4>3. CASE d = 1
        BY <3>1, <4>1, <4>3
      <4> QED
        BY <2>2, <4>2, <4>3
    <3> QED
      BY <2>0, <3>1, <3>3 DEF InWindow
  <2>3. CASE ScrollIntoView
    <3>1. /\ UNCHANGED <<mode, hgt, pc, dir, new>> /\ pc = "select" /\ Scroll(dir, hgt) /\ OutOfView
      BY <2>3 DEF ScrollIntoView, layout
    <3>2. dir \in {-1, 1}
      BY <3>1 DEF InWindow, TypeOK
    <3>3. dir \in {-1, 0, 1} /\ top <= Bottom(top, hgt)
      BY <1>0, <2>0, <3>2
    <3>4. top' \in Rows
      BY <2>0, <3>1, <3>3, ScrollKeepsInWindow
    <3>5. Bottom(top', hgt) \in top' .. NTAR - 1
      BY <1>1, <2>0, <3>4
    <3> DEFINE b == Bottom(top, hgt)
               c == Bottom(top', hgt)
    <3>6. CASE Fits(hgt) /\ top' = 0
      <4>1. hgt \in Nat
        BY <2>0 DEF HasRoom
      <4>2. c = NTAR - 1
        BY <3>6, <4>1, AllIsDrawn
      <4>3. new <= NTAR - 1 /\ new >= 0
        BY <1>0, <2>0
      <4> QED
        BY <2>0, <3>1, <3>2, <3>4, <3>6, <4>2, <4>3 DEF InWindow
    <3>7. CASE ScrollPings(dir, hgt)
      <4>1. top' = IF dir = 1 /\ b < NTAR - 1 THEN top + 1
                   ELSE IF dir = -1 THEN AtLeastZero(top - 1) ELSE top
        BY <3>7 DEF ScrollPings
      <4>2. dir = -1 => new < top
        BY <3>1 DEF OutOfView
      <4>3. dir = 1 => new > b
        BY <3>1 DEF OutOfView
      <4>4. b \in top .. NTAR - 1 /\ c \in top' .. NTAR - 1
        BY <2>0, <3>5
      <4>5. (dir < 0 /\ new <= c) \/ (dir > 0 /\ new >= top')
        <5>1. /\ b \in Int /\ c \in Int /\ top \in Int /\ top' \in Int /\ new \in Int
              /\ 0 <= top /\ top <= b /\ 0 <= new /\ top' <= c /\ c <= NTAR - 1
              /\ new <= NTAR - 1 /\ NTAR \in Int
          BY <1>0, <2>0, <3>4, <4>4
        <5> HIDE DEF b, c
        <5>2. CASE dir = -1
          <6>1. new < top /\ top' = IF top - 1 < 0 THEN 0 ELSE top - 1
            BY <4>1, <4>2, <5>1, <5>2 DEF AtLeastZero
          <6>2. new <= c
            BY <5>1, <6>1
          <6>3. dir < 0
            BY <5>2
          <6> QED
            BY <6>2, <6>3
        <5>3. CASE dir = 1
          BY <4>1, <4>3, <5>1, <5>3
        <5> QED
          BY <3>2, <5>2, <5>3
      <4> QED
        BY <2>0, <3>1, <3>4, <4>5 DEF InWindow
    <3> QED
      BY <2>0, <3>1, <3>6, <3>7 DEF Scroll
  <2>4. CASE Selected
    <3>1. /\ UNCHANGED <<mode, hgt, top>> /\ pc = "select" /\ pc' = "loop" /\ sel' = new /\ ~OutOfView
      BY <2>4 DEF Selected, layout
    <3> DEFINE b == Bottom(top, hgt)
    <3>2. (dir < 0 /\ new <= b) \/ (dir > 0 /\ new >= top)
      BY <3>1 DEF InWindow
    <3>3. IF dir < 0 THEN ~(new < top) ELSE ~(new > b)
      BY <3>1 DEF OutOfView
    <3>4. dir \in Int /\ b \in top .. NTAR - 1
      BY <2>0 DEF TypeOK
    <3>5. new \in top .. b
      <4> HIDE DEF b
      <4> QED
        BY <1>0, <2>0, <3>2, <3>3, <3>4
    <3> QED
      BY <2>0, <3>1, <3>5 DEF InWindow
  <2>5. ASSUME NEW key \in {"Enter", "Esc", "h"}, ChangeMode(key) PROVE InWindow'
    <3>1. key = "Esc"
      BY <2>5 DEF ChangeMode, Idle, StaysOnPings
    <3>2. mode' = "ping" /\ UNCHANGED <<sel, top, hgt, pc, dir, new>>
      BY <2>5, <3>1 DEF ChangeMode, layout
    <3> QED
      BY <2>0, <3>2 DEF InWindow
  <2>6. ASSUME NEW w, NEW h, HasRoom(h), Resize(w, h), pc = "loop", UNCHANGED <<mode, pc>>
        PROVE  InWindow'
    <3>1. hgt' = h /\ Scroll(0, h)
      BY <2>6 DEF Resize
    <3>2. 0 \in {-1, 0, 1} /\ 0 # 1
      OBVIOUS
    <3>3. top' \in Rows /\ sel' \in top' .. Bottom(top', h)
      BY <2>0, <2>6, <3>1, <3>2, ScrollKeepsInWindow
    <3> QED
      BY <2>0, <2>6, <3>1, <3>3 DEF InWindow
  <2>7. ASSUME NEW key, Toggle(key) PROVE InWindow'
    BY <2>0, <2>6, <2>7 DEF Toggle, Idle
  <2>8. CASE ResizeEvent
    BY <2>6, <2>8 DEF ResizeEvent, ScreensHaveRoom
  <2>9. CASE UNCHANGED view
    BY <2>9 DEF view, layout, InWindow
  <2> QED
    BY <2>1, <2>2, <2>3, <2>4, <2>5, <2>7, <2>8, <2>9 DEF Next, Handlers
<1> QED
  BY <1>2, <1>3, TypeCorrect, PTL DEF Spec

\* The list is not scrolled, and all of it has room.
NotScrolled == top = 0 /\ hgt \in Nat /\ Fits(hgt)

\* When the list fits every screen, no handler on any screen of the program
\* scrolls it (the first return of scroll).
LEMMA NothingScrolls ==
  ASSUME ListFits
  PROVE  Spec => []NotScrolled
<1>1. ASSUME NEW size \in Sizes PROVE size[2] \in Nat /\ Fits(size[2])
  BY <1>1, SizesAssumption DEF ListFits
<1>2. Init => NotScrolled
  BY <1>1 DEF Init, NotScrolled
<1>3. ASSUME NEW d, NEW h, Fits(h), Scroll(d, h) PROVE top' = 0
  BY <1>3 DEF Scroll
<1>4. NotScrolled /\ [Next]_view => NotScrolled'
  <2> SUFFICES ASSUME NotScrolled, [Next]_view PROVE NotScrolled'
    OBVIOUS
  <2>0. top = 0 /\ hgt \in Nat /\ Fits(hgt)
    BY DEF NotScrolled
  <2>1. ASSUME NEW key, NEW d, Page(key, d) PROVE NotScrolled'
    <3>1. hgt' = hgt /\ Scroll(d, hgt)
      BY <2>1 DEF Page, layout
    <3> QED
      BY <1>3, <2>0, <3>1 DEF NotScrolled, Fits
  <2>2. CASE ScrollIntoView
    <3>1. hgt' = hgt /\ Scroll(dir, hgt)
      BY <2>2 DEF ScrollIntoView, layout
    <3> QED
      BY <1>3, <2>0, <3>1 DEF NotScrolled, Fits
  <2>3. ASSUME NEW w, NEW h \in Nat, Fits(h), Resize(w, h) PROVE NotScrolled'
    <3>1. hgt' = h /\ Scroll(0, h)
      BY <2>3 DEF Resize
    <3> QED
      BY <1>3, <2>3, <3>1 DEF NotScrolled, Fits
  <2>4. ASSUME UNCHANGED <<top, hgt>> PROVE NotScrolled'
    BY <2>0, <2>4 DEF NotScrolled, Fits
  <2>5. ASSUME NEW key, NEW d, Select(key, d) PROVE NotScrolled'
    BY <2>4, <2>5 DEF Select, layout
  <2>6. ASSUME NEW key, ChangeMode(key) PROVE NotScrolled'
    BY <2>4, <2>6 DEF ChangeMode, layout
  <2>7. ASSUME NEW key, Toggle(key) PROVE NotScrolled'
    BY <2>0, <2>3, <2>7 DEF Toggle
  <2>8. CASE ResizeEvent
    BY <1>1, <2>3, <2>8 DEF ResizeEvent
  <2>9. CASE Selected \/ UNCHANGED view
    BY <2>4, <2>9 DEF Selected, view, layout
  <2> QED
    BY <2>1, <2>2, <2>5, <2>6, <2>7, <2>8, <2>9 DEF Next, Handlers
<1> QED
  BY <1>2, <1>4, PTL DEF Spec

\* Between events the selected target is one of the rows ping_screen draws:
\* scroll, resize and newsel keep `sel` where bottom says the screen ends.  It
\* holds if the user stays on the ping screen and every size of the terminal has
\* room for a target, or if every size shows the whole list; a resize on another
\* screen may leave the selection above or below a list that does not fit.
THEOREM SelectionStaysDrawn ==
  ASSUME (StaysOnPings /\ ScreensHaveRoom) \/ ListFits
  PROVE  Spec => []SelectionIsDrawn
<1>1. TypeOK /\ InWindow => SelectionIsDrawn
  <2> SUFFICES ASSUME TypeOK, InWindow, pc = "loop" PROVE sel \in Drawn(top, hgt)
    BY DEF SelectionIsDrawn
  <2>1. top \in Rows /\ HasRoom(hgt) /\ sel \in top .. Bottom(top, hgt)
    BY DEF InWindow
  <2> QED
    BY <2>1, BottomIsDrawn
<1>2. TypeOK /\ NotScrolled => SelectionIsDrawn
  BY AllIsDrawn DEF TypeOK, NotScrolled, SelectionIsDrawn
<1>3. CASE StaysOnPings /\ ScreensHaveRoom
  BY <1>1, <1>3, WindowFollows, TypeCorrect, PTL
<1>4. CASE ListFits
  BY <1>2, <1>4, NothingScrolls, TypeCorrect, PTL
<1> QED
  BY <1>3, <1>4

===============================================================================
