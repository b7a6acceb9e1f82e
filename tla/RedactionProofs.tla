-------------------------- MODULE RedactionProofs ---------------------------
(***************************************************************************)
(* What holds of every redaction, for every grid and every percentage that *)
(* is asked for.                                                           *)
(***************************************************************************)
EXTENDS Redaction, FiniteSetTheorems, WellFoundedInduction, TLAPS

-----------------------------------------------------------------------------
(* The cells are as many as the columns times the rows. *)
LEMMA CellsAreCounted == IsFiniteSet(Cell) /\ Cardinality(Cell) = Cols * Rows
<1>1. Cols - 1 \in Int /\ Rows - 1 \in Int /\ ~(0 > Cols - 1) /\ ~(0 > Rows - 1)
  BY GridAssumption
<1>2. IsFiniteSet(0..Cols - 1) /\ Cardinality(0..Cols - 1) = Cols - 1 - 0 + 1
  BY <1>1, FS_Interval
<1>3. IsFiniteSet(0..Rows - 1) /\ Cardinality(0..Rows - 1) = Rows - 1 - 0 + 1
  BY <1>1, FS_Interval
<1>4. Cols - 1 - 0 + 1 = Cols /\ Rows - 1 - 0 + 1 = Rows
  BY GridAssumption
<1>5. ASSUME NEW C, NEW R, IsFiniteSet(C), IsFiniteSet(R)
      PROVE  IsFiniteSet(C \X R) /\ Cardinality(C \X R) = Cardinality(C) * Cardinality(R)
  BY <1>5, FS_Product
<1>6. IsFiniteSet(Cell) /\ Cardinality(Cell) = Cardinality(0..Cols - 1) * Cardinality(0..Rows - 1)
  BY <1>2, <1>3, <1>5, Zenon DEF Cell
<1>. QED  BY <1>2, <1>3, <1>4, <1>6

(* Products of natural numbers grow with their factors. *)
LEMMA ProductsGrow ==
  ASSUME NEW a \in Nat, NEW b \in Nat, NEW c \in Nat, a <= b
  PROVE  a * c \in Nat /\ b * c \in Nat /\ a * c <= b * c /\ c * a = a * c
<1>1. PICK d \in Nat : b = a + d
  <2>1. b - a \in Nat /\ b = a + (b - a)
    OBVIOUS
  <2>. QED  BY <2>1
<1>2. b * c = a * c + d * c
  BY <1>1
<1>3. a * c \in Nat /\ d * c \in Nat
  OBVIOUS
<1>. QED  BY <1>2, <1>3

(* The unit of area and the size of the page. *)
LEMMA PageArea ==
  /\ CellHeight \in Nat /\ CellHeight >= 1
  /\ CellArea \in Nat /\ CellArea >= 100
  /\ Cols * Rows \in Nat
  /\ \A n \in 0..95 : Target(n) \in Nat /\ Target(n) <= CellArea * (Cols * Rows)
<1>1. CellHeight \in Nat /\ CellHeight >= 1 /\ Cols \in Nat /\ Rows \in Nat
  BY GridAssumption
<1>2. CellArea \in Nat /\ CellArea >= 100
  BY <1>1 DEF CellArea
<1>3. Cols * Rows \in Nat /\ Cols * Rows * CellHeight \in Nat
  BY <1>1
<1>4. ASSUME NEW n \in 0..95
      PROVE  Target(n) \in Nat /\ Target(n) <= CellArea * (Cols * Rows)
  <2>. DEFINE p == Cols * Rows * CellHeight
  <2>1. n * p \in Nat /\ n * p <= 100 * p /\ p * n = n * p
    BY <1>3, ProductsGrow
  <2>2. CellArea * (Cols * Rows) = 100 * p
    BY <1>1, <1>3 DEF CellArea
  <2>. QED  BY <2>1, <2>2 DEF Target
<1>. QED  BY <1>1, <1>2, <1>3, <1>4

(***************************************************************************)
(* A block, in one turn of the loop: it stays on the page; it fills a cell *)
(* at least, or what remains; and it exceeds what remains by less than six *)
(* cells.                                                                  *)
(***************************************************************************)
LEMMA BlockArea ==
  ASSUME NEW cell \in Cell, NEW span_c \in 1..3, NEW span_r \in 1..2,
         NEW remaining \in Nat, remaining > 0,
         NEW w, w = Width(cell, span_c),
         NEW area, area = Area(cell, w, Height(cell, span_r), remaining)
  PROVE  /\ w \in 1..3 /\ cell[1] + w <= Cols
         /\ area \in Nat /\ area >= 1
         /\ area <= Full(cell, w, (Rows - cell[2]) * CellHeight)
         /\ area >= CellArea \/ area >= remaining
         /\ area < remaining + 6 * CellArea
         /\ area <= 2 * CellArea * w
<1>. DEFINE rest == (Rows - cell[2]) * CellHeight
            h == Height(cell, span_r)
            full == Full(cell, w, h)
<1>1. cell[1] \in 0..Cols - 1 /\ cell[2] \in 0..Rows - 1
  BY DEF Cell
<1>2. w \in 1..3 /\ cell[1] + w <= Cols
  BY <1>1, GridAssumption DEF Width, Least
<1>3. rest \in Nat /\ rest >= CellHeight
  <2>1. Rows - cell[2] \in Nat /\ 1 <= Rows - cell[2]
    BY <1>1, GridAssumption
  <2>2. 1 * CellHeight <= rest /\ rest \in Nat
    BY <2>1, PageArea, ProductsGrow
  <2>. QED  BY <2>2, PageArea
<1>4. h \in Nat /\ h >= CellHeight /\ h <= 2 * CellHeight /\ h <= rest
  <2>1. CASE span_r = 1
    BY <2>1, <1>3, PageArea DEF Height, Least
  <2>2. CASE span_r = 2
    BY <2>2, <1>3, PageArea DEF Height, Least
  <2>. QED  BY <2>1, <2>2
<1>5. /\ full \in Nat /\ full >= CellArea /\ full <= 6 * CellArea
      /\ Full(cell, w, rest) \in Nat /\ full <= Full(cell, w, rest)
      /\ 100 * w <= full /\ full <= 2 * CellArea * w
  <2>. HIDE DEF h, rest
  <2>1. CASE w = 1
    BY <2>1, <1>3, <1>4, PageArea DEF Full, CellArea
  <2>2. CASE w = 2
    BY <2>2, <1>3, <1>4, PageArea DEF Full, CellArea
  <2>3. CASE w = 3
    BY <2>3, <1>3, <1>4, PageArea DEF Full, CellArea
  <2>. QED  BY <1>2, <2>1, <2>2, <2>3
<1>. HIDE DEF full, rest
<1>6. CASE Trims(full, remaining)
  <2>1. area = Trimmed(cell, w, remaining)
    BY <1>6 DEF Area, full
  <2>2. area = Least(Full(cell, w, rest), Most(100 * w, remaining))
    BY <2>1 DEF Trimmed, rest
  <2>3. full > remaining
    BY <1>6 DEF Trims
  <2>4. /\ area \in Nat /\ area >= remaining /\ area <= Full(cell, w, rest)
        /\ area <= remaining \/ area <= 100 * w
    BY <2>2, <2>3, <1>2, <1>5 DEF Least, Most
  <2>5. area < remaining + 6 * CellArea
    BY <2>4, <1>2, PageArea
  <2>6. area <= 2 * CellArea * w
    <3>1. area <= full
      BY <2>3, <2>4, <1>2, <1>5
    <3>. QED  BY <3>1, <2>4, <1>2, <1>5, PageArea
  <2>. QED  BY <1>2, <2>4, <2>5, <2>6 DEF rest
<1>7. CASE ~Trims(full, remaining)
  <2>1. area = full
    BY <1>7 DEF Area, full
  <2>. QED  BY <1>2, <1>5, <2>1, PageArea DEF rest
<1>. QED  BY <1>6, <1>7

-----------------------------------------------------------------------------
(* While cells are left, the blocks and the cells left cover the page. *)
Progress ==
    Working => \/ covered >= Target(percentage)
               \/ covered + CellArea * Cardinality(todo) >= CellArea * (Cols * Rows)

Bounded == Working \/ answer = "copy" => covered < Target(percentage) + 6 * CellArea

Sound ==
    /\ TypeOK
    /\ Working \/ answer = "copy" => Valid(percentage)
    /\ Progress
    /\ CountsWhatWasAsked
    /\ Bounded

LEMMA InitSound == Init => Sound
<1>. SUFFICES ASSUME Init  PROVE Sound
  OBVIOUS
<1>. QED
  BY DEF Init, Sound, TypeOK, BlocksStayOnPage, Progress, CountsWhatWasAsked, Bounded, Working

LEMMA BeginSound ==
  ASSUME Sound, NEW n \in Asked, NEW supported \in BOOLEAN, Begin(n, supported)
  PROVE  Sound'
<1>1. n \in Int /\ n # Nobody /\ percentage' = n
  BY GridAssumption DEF Begin
<1>2. /\ answer' \in {"none", "refused"} /\ noted' = Nobody /\ blocks' = {} /\ covered' = 0
      /\ todo' \subseteq Cell
  BY DEF Begin
<1>3. answer' = "none" => todo' = Cell /\ Valid(n)
  BY DEF Begin
<1>4. TypeOK'
  BY <1>1, <1>2 DEF TypeOK, BlocksStayOnPage
<1>5. CountsWhatWasAsked'
  BY <1>2 DEF CountsWhatWasAsked
<1>6. (Working \/ answer = "copy" => Valid(percentage))'
  BY <1>1, <1>2, <1>3 DEF Working
<1>7. Progress'
  <2>. SUFFICES ASSUME Working'  PROVE covered' + CellArea * Cardinality(todo') >= CellArea * (Cols * Rows)
    BY DEF Progress
  <2>1. Cardinality(todo') = Cols * Rows /\ covered' = 0
    BY <1>2, <1>3, CellsAreCounted DEF Working
  <2>2. CellArea * (Cols * Rows) \in Nat
    BY PageArea
  <2>. QED  BY <2>1, <2>2
<1>8. Bounded'
  <2>. SUFFICES ASSUME Working' \/ answer' = "copy"  PROVE covered' < Target(percentage') + 6 * CellArea
    BY DEF Bounded
  <2>1. n \in 0..95 /\ Target(n) \in Nat
    BY <1>2, <1>3, PageArea DEF Working, Valid
  <2>. QED  BY <2>1, <1>1, <1>2, PageArea
<1>. QED  BY <1>4, <1>5, <1>6, <1>7, <1>8 DEF Sound

LEMMA LaySound ==
  ASSUME Sound, NEW cell \in todo, NEW span_c \in 1..3, NEW span_r \in 1..2,
         Lay(cell, span_c, span_r)
  PROVE  Sound'
<1>. DEFINE goal == Target(percentage)
            w == Width(cell, span_c)
            area == Area(cell, w, Height(cell, span_r), goal - covered)
            block == [cell |-> cell, w |-> w, area |-> area]
<1>1. /\ Working /\ ~(covered >= goal)
      /\ blocks' = blocks \cup {block} /\ covered' = covered + area /\ todo' = todo \ {cell}
      /\ percentage' = percentage /\ answer' = answer /\ noted' = noted
  BY DEF Lay, Covers, Left
<1>2. TypeOK /\ percentage \in 0..95 /\ cell \in Cell /\ answer = "none"
  BY <1>1 DEF Sound, TypeOK, Valid, Working
<1>3. goal \in Nat /\ covered \in Nat /\ goal - covered \in Nat /\ goal - covered > 0
  BY <1>1, <1>2, PageArea DEF TypeOK
<1>4. /\ w \in 1..3 /\ cell[1] + w <= Cols
      /\ area \in Nat /\ area >= 1
      /\ area <= Full(cell, w, (Rows - cell[2]) * CellHeight)
      /\ area >= CellArea \/ area >= goal - covered
      /\ area < (goal - covered) + 6 * CellArea
  <2>. HIDE DEF goal
  <2>. QED  BY <1>2, <1>3, BlockArea
<1>5. goal' = goal
  BY <1>1 DEF Target
<1>. HIDE DEF goal, area, w
<1>6. BlocksStayOnPage'
  <2>1. OnPage(block)
    <3>1. Full(cell, w, (Rows - cell[2]) * CellHeight) \in Int
      <4>1. cell[2] \in Int /\ Rows \in Int /\ CellHeight \in Int /\ w \in Int
        BY <1>2, <1>4, GridAssumption DEF Cell
      <4>. QED  BY <4>1 DEF Full
    <3>. QED  BY <1>4, <3>1 DEF OnPage
  <2>2. \A b \in blocks : OnPage(b)
    BY DEF Sound, TypeOK, BlocksStayOnPage
  <2>. QED  BY <1>1, <2>1, <2>2 DEF BlocksStayOnPage, OnPage
<1>7. TypeOK'
  BY <1>1, <1>2, <1>3, <1>4, <1>6 DEF TypeOK, Block
<1>8. Progress'
  <2>. DEFINE left == Cardinality(todo)
              all == CellArea * (Cols * Rows)
  <2>1. covered + CellArea * left >= all
    BY <1>1 DEF Sound, Progress, goal
  <2>2. /\ IsFiniteSet(todo) /\ left \in Nat /\ Cardinality(todo') = left - 1
    <3>1. IsFiniteSet(todo)
      BY <1>2, CellsAreCounted, FS_Subset DEF TypeOK
    <3>. QED  BY <3>1, <1>1, FS_RemoveElement, FS_CardinalityType
  <2>3. CellArea * (left - 1) = CellArea * left - CellArea /\ CellArea * left \in Int /\ all \in Int
    BY <2>2, PageArea
  <2>. HIDE DEF all
  <2>4. covered' >= goal \/ covered' + CellArea * Cardinality(todo') >= all
    <3>. DEFINE product == CellArea * left
    <3>. HIDE DEF product
    <3>1. CellArea * Cardinality(todo') = product - CellArea /\ product \in Int /\ covered + product >= all
      BY <2>1, <2>2, <2>3 DEF product
    <3>. QED  BY <1>1, <1>3, <1>4, <2>3, <3>1, PageArea
  <2>. QED  BY <2>4, <1>5, <1>1 DEF Progress, goal, all
<1>9. Bounded'
  <2>1. covered' < goal + 6 * CellArea
    BY <1>1, <1>3, <1>4, PageArea
  <2>. QED  BY <2>1, <1>5, <1>1 DEF Bounded, goal
<1>10. CountsWhatWasAsked' /\ (Working \/ answer = "copy" => Valid(percentage))'
  BY <1>1, <1>2 DEF CountsWhatWasAsked, Valid
<1>. QED  BY <1>6, <1>7, <1>8, <1>9, <1>10 DEF Sound

LEMMA FinishSound == ASSUME Sound, Finish  PROVE Sound'
<1>1. /\ Working
      /\ covered >= Target(percentage) \/ todo = {}
      /\ noted' = percentage /\ answer' = "copy" /\ percentage' = percentage
      /\ todo' = todo /\ blocks' = blocks /\ covered' = covered
  BY DEF Finish, Covers, page
<1>2. Target(percentage') = Target(percentage) /\ percentage \in 0..95 /\ covered \in Nat
  BY <1>1, PageArea DEF Sound, Valid, TypeOK, Target
<1>3. covered >= Target(percentage)
  <2>1. CASE todo = {}
    <3>1. \/ covered >= Target(percentage)
          \/ covered + CellArea * 0 >= CellArea * (Cols * Rows)
      BY <1>1, <2>1, FS_EmptySet DEF Sound, Progress
    <3>. QED  BY <3>1, <1>2, PageArea
  <2>. QED  BY <1>1, <2>1
<1>4. TypeOK' /\ Progress'
  BY <1>1 DEF Sound, TypeOK, BlocksStayOnPage, OnPage, Progress, Working
<1>5. CountsWhatWasAsked' /\ Bounded' /\ (Working \/ answer = "copy" => Valid(percentage))'
  <2>1. covered < Target(percentage) + 6 * CellArea
    BY <1>1 DEF Sound, Bounded
  <2>. QED  BY <1>1, <1>2, <1>3, <2>1 DEF CountsWhatWasAsked, Bounded, Valid
<1>. QED  BY <1>4, <1>5 DEF Sound

LEMMA FailSound == ASSUME Sound, Fail  PROVE Sound'
BY DEF Sound, Fail, page, TypeOK, BlocksStayOnPage, OnPage, Progress, CountsWhatWasAsked,
       Bounded, Working

LEMMA StutterSound == ASSUME Sound, UNCHANGED vars  PROVE Sound'
BY DEF Sound, vars, page, TypeOK, BlocksStayOnPage, OnPage, Progress, CountsWhatWasAsked,
       Bounded, Working, Valid, Target

(* Every step of a redaction keeps the invariant. *)
LEMMA NextSound == Sound /\ [Next]_vars => Sound'
<1>. SUFFICES ASSUME Sound, [Next]_vars  PROVE Sound'
  OBVIOUS
<1>. QED  BY BeginSound, LaySound, FinishSound, FailSound, StutterSound DEF Next

LEMMA AlwaysSound == Spec => []Sound
BY InitSound, NextSound, PTL DEF Spec

-----------------------------------------------------------------------------
(* The variables keep to their types and every block to the page. *)
THEOREM TypeCorrect == Spec => []TypeOK
<1>1. Sound => TypeOK
  BY DEF Sound
<1>. QED  BY <1>1, AlwaysSound, PTL

(***************************************************************************)
(* The blocks of a copy add up to what was asked for and to less than six  *)
(* cells more: whatever the shuffle and the spans, the cells do not run    *)
(* out before (redaction.py:50-71).                                        *)
(***************************************************************************)
THEOREM AskedIsCounted == Spec => []CountsWhatWasAsked
<1>1. Sound => CountsWhatWasAsked
  BY DEF Sound
<1>. QED  BY <1>1, AlwaysSound, PTL

-----------------------------------------------------------------------------
(***************************************************************************)
(* Every block has its corner in a cell of its own, one that will not be   *)
(* tried again, and is no higher than two cells.                           *)
(***************************************************************************)
LowBlock(b) == b.area <= 2 * CellArea * b.w

CornersApart == \A b, c \in blocks : b.cell = c.cell => b = c

Corners ==
    /\ CornersApart
    /\ \A b \in blocks : b.cell \notin todo /\ LowBlock(b)

LEMMA LayKeepsCorners ==
  ASSUME Sound, Corners, NEW cell \in todo, NEW span_c \in 1..3, NEW span_r \in 1..2,
         Lay(cell, span_c, span_r)
  PROVE  Corners'
<1>. DEFINE left == Target(percentage) - covered
            w == Width(cell, span_c)
            area == Area(cell, w, Height(cell, span_r), left)
            block == [cell |-> cell, w |-> w, area |-> area]
<1>1. /\ Working /\ ~(covered >= Target(percentage))
      /\ blocks' = blocks \cup {block} /\ todo' = todo \ {cell}
  BY DEF Lay, Covers, Left
<1>2. percentage \in 0..95 /\ cell \in Cell /\ covered \in Nat
  BY <1>1 DEF Sound, TypeOK, Valid
<1>3. left \in Nat /\ left > 0
  BY <1>1, <1>2, PageArea
<1>4. area <= 2 * CellArea * w
  <2>. HIDE DEF left
  <2>. QED  BY <1>2, <1>3, BlockArea
<1>. HIDE DEF area, w
<1>5. LowBlock(block) /\ block.cell = cell
  BY <1>4 DEF LowBlock
<1>6. \A b \in blocks : b.cell \notin todo /\ LowBlock(b)
  BY DEF Corners
<1>7. CornersApart'
  BY <1>1, <1>5, <1>6 DEF Corners, CornersApart
<1>8. \A b \in blocks' : b.cell \notin todo' /\ LowBlock(b)
  BY <1>1, <1>5, <1>6
<1>. QED  BY <1>7, <1>8 DEF Corners, LowBlock

LEMMA NextKeepsCorners == Sound /\ Corners /\ [Next]_vars => Corners'
<1>. SUFFICES ASSUME Sound, Corners, [Next]_vars  PROVE Corners'
  OBVIOUS
<1>1. ASSUME NEW n \in Asked, NEW supported \in BOOLEAN, Begin(n, supported)  PROVE Corners'
  BY <1>1 DEF Begin, Corners, CornersApart
<1>2. ASSUME UNCHANGED page  PROVE Corners'
  BY <1>2 DEF page, Corners, CornersApart, LowBlock
<1>. QED  BY <1>1, <1>2, LayKeepsCorners DEF Next, Finish, Fail, vars

LEMMA AlwaysCorners == Spec => []Corners
<1>1. Init => Corners
  BY DEF Init, Corners, CornersApart
<1>. QED  BY <1>1, AlwaysSound, NextKeepsCorners, PTL DEF Spec

(* The blocks that blacken some of a cell have their corners near it. *)
Near(cell) == (cell[1] - 2..cell[1]) \X (cell[2] - 1..cell[2])

LEMMA DeepBlocksAreNear ==
  ASSUME NEW b \in Block, LowBlock(b), NEW cell \in Cell, Depth(b, cell) > 0
  PROVE  b.cell \in Near(cell)
<1>. DEFINE x == cell[1]  y == cell[2]  bx == b.cell[1]  by == b.cell[2]
            height == (6 * b.area) \div b.w
<1>1. /\ x \in Int /\ y \in Int /\ bx \in Int /\ by \in Int
      /\ b.cell = <<bx, by>>
      /\ b.w \in 1..3 /\ b.area \in Nat
  BY DEF Cell, Block
<1>2. /\ x \in bx..bx + b.w - 1 /\ y >= by
      /\ Most(0, Least(6 * CellArea, height - 6 * CellArea * (y - by))) > 0
  BY DEF Depth
<1>3. height \in Int /\ height <= 12 * CellArea
  <2>1. CASE b.w = 1
    BY <2>1, <1>1, PageArea DEF LowBlock
  <2>2. CASE b.w = 2
    BY <2>2, <1>1, PageArea DEF LowBlock
  <2>3. CASE b.w = 3
    BY <2>3, <1>1, PageArea DEF LowBlock
  <2>. QED  BY <1>1, <2>1, <2>2, <2>3
<1>. HIDE DEF height
<1>4. y - by < 2
  <2>. SUFFICES ASSUME 2 <= y - by  PROVE FALSE
    BY <1>1
  <2>. DEFINE unit == 6 * CellArea
              over == (y - by) * unit
  <2>1. unit \in Nat /\ y - by \in Nat
    BY <1>1, <1>2, PageArea
  <2>2. 2 * unit <= over /\ over \in Nat /\ unit * (y - by) = over
    BY <2>1, ProductsGrow
  <2>3. height - unit * (y - by) > 0
    <3>. DEFINE above == height - unit * (y - by)
    <3>1. above \in Int
      BY <2>2, <1>3
    <3>2. Most(0, Least(unit, above)) > 0
      BY <1>2
    <3>. HIDE DEF above, unit
    <3>3. above > 0
      BY <3>1, <3>2, <2>1 DEF Most, Least
    <3>. QED  BY <3>3 DEF above, unit
  <2>. HIDE DEF over
  <2>4. height > over /\ 2 * unit = 12 * CellArea
    BY <2>2, <2>3, <1>3, PageArea
  <2>. QED  BY <2>2, <2>4, <1>3, PageArea
<1>5. bx \in x - 2..x /\ by \in y - 1..y
  BY <1>1, <1>2, <1>4
<1>. QED  BY <1>1, <1>5 DEF Near

LEMMA SixAreNear ==
  ASSUME NEW cell \in Cell
  PROVE  IsFiniteSet(Near(cell)) /\ Cardinality(Near(cell)) = 6
<1>. DEFINE x == cell[1]  y == cell[2]
            across == x - 2..x
            down == y - 1..y
<1>1. x - 2 \in Int /\ x \in Int /\ y - 1 \in Int /\ y \in Int /\ ~(x - 2 > x) /\ ~(y - 1 > y)
  BY DEF Cell
<1>2. IsFiniteSet(across) /\ Cardinality(across) = x - (x - 2) + 1
  BY <1>1, FS_Interval
<1>3. IsFiniteSet(down) /\ Cardinality(down) = y - (y - 1) + 1
  BY <1>1, FS_Interval
<1>4. x - (x - 2) + 1 = 3 /\ y - (y - 1) + 1 = 2
  BY <1>1
<1>5. ASSUME NEW C, NEW R, IsFiniteSet(C), IsFiniteSet(R)
      PROVE  IsFiniteSet(C \X R) /\ Cardinality(C \X R) = Cardinality(C) * Cardinality(R)
  BY <1>5, FS_Product
<1>6. IsFiniteSet(Near(cell)) /\ Cardinality(Near(cell)) = Cardinality(across) * Cardinality(down)
  BY <1>2, <1>3, <1>5, Zenon DEF Near
<1>. QED  BY <1>2, <1>3, <1>4, <1>6

(***************************************************************************)
(* No point of the page lies under more than six blocks, of the blocks of  *)
(* any shuffle: they may overlap, against the comment of the code, but     *)
(* only so far (redaction.py:44-71).                                       *)
(***************************************************************************)
Over(cell) == {b \in blocks : Depth(b, cell) > 0}

AtMostSixDeep == \A cell \in Cell : IsFiniteSet(Over(cell)) /\ Cardinality(Over(cell)) <= 6

THEOREM SixDeep == Spec => []AtMostSixDeep
<1>1. ASSUME TypeOK, Corners, NEW cell \in Cell
      PROVE  IsFiniteSet(Over(cell)) /\ Cardinality(Over(cell)) <= 6
  <2>. DEFINE corner == [b \in Over(cell) |-> b.cell]
  <2>1. \A b \in Over(cell) : b.cell \in Near(cell)
    <3>. SUFFICES ASSUME NEW b \in Over(cell)  PROVE b.cell \in Near(cell)
      OBVIOUS
    <3>1. b \in Block /\ LowBlock(b) /\ Depth(b, cell) > 0
      BY <1>1 DEF Over, TypeOK, Corners
    <3>. QED  BY <3>1, DeepBlocksAreNear
  <2>2. corner \in Injection(Over(cell), Near(cell))
    <3>1. corner \in [Over(cell) -> Near(cell)]
      BY <2>1
    <3>2. \A b, c \in Over(cell) : corner[b] = corner[c] => b = c
      BY <1>1 DEF Over, Corners, CornersApart
    <3>. QED  BY <3>1, <3>2 DEF Injection, IsInjective
  <2>3. IsFiniteSet(Near(cell)) /\ Cardinality(Near(cell)) = 6
    BY SixAreNear
  <2>. QED  BY <2>2, <2>3, FS_Injection
<1>2. TypeOK /\ Corners => AtMostSixDeep
  BY <1>1 DEF AtMostSixDeep
<1>3. Sound => TypeOK
  BY DEF Sound
<1>. QED  BY <1>2, <1>3, AlwaysSound, AlwaysCorners, PTL

-----------------------------------------------------------------------------
(* A set of numbers up to n has a greatest one. *)
LEMMA GreatestExists ==
  ASSUME NEW n \in Nat, NEW T \in SUBSET (0..n), T # {}
  PROVE  Max(T) \in T /\ \A t \in T : Max(T) >= t
<1>. DEFINE above == {t..n : t \in T}
<1>1. above \subseteq FiniteSubsetsOf(0..n) /\ above # {}
  <2>1. ASSUME NEW t \in T  PROVE t..n \in SUBSET (0..n) /\ IsFiniteSet(t..n)
    BY FS_Interval
  <2>. QED  BY <2>1 DEF FiniteSubsetsOf
<1>2. IsWellFoundedOn(StrictSubsetOrdering(0..n), FiniteSubsetsOf(0..n))
  BY FS_StrictSubsetOrderingWellFounded
<1>3. \E least \in above : \A a \in above : <<a, least>> \notin StrictSubsetOrdering(0..n)
  <2>. HIDE DEF above
  <2>. QED  BY <1>1, <1>2, WFMin
<1>4. PICK top \in T : \A t \in T : <<t..n, top..n>> \notin StrictSubsetOrdering(0..n)
  BY <1>3
<1>5. ASSUME NEW t \in T, t > top  PROVE FALSE
  <2>1. /\ t..n \subseteq top..n /\ top..n \subseteq 0..n /\ t..n \subseteq 0..n
        /\ top \in top..n /\ top \notin t..n
    BY <1>5
  <2>2. <<t..n, top..n>> \in StrictSubsetOrdering(0..n)
    BY <2>1 DEF StrictSubsetOrdering
  <2>. QED  BY <1>4, <2>2
<1>6. \A t \in T : top >= t
  BY <1>5
<1>. QED  BY <1>6 DEF Max

(* A block blackens a cell from its top to its bottom at most. *)
Deepest == 6 * CellArea

LEMMA DepthBounded ==
  ASSUME NEW b \in Block, NEW cell \in Cell
  PROVE  Depth(b, cell) \in 0..Deepest
<1>1. b.w \in 1..3 /\ b.area \in Nat /\ b.cell[2] \in Int /\ cell[2] \in Int /\ CellArea \in Nat
  BY PageArea DEF Block, Cell
<1>2. (6 * b.area) \div b.w \in Int
  BY <1>1
<1>. DEFINE deep == (6 * b.area) \div b.w - 6 * CellArea * (cell[2] - b.cell[2])
<1>3. deep \in Int
  BY <1>1, <1>2
<1>. HIDE DEF deep
<1>4. Most(0, Least(6 * CellArea, deep)) \in 0..6 * CellArea
  BY <1>1, <1>3 DEF Most, Least
<1>. QED  BY <1>1, <1>4 DEF Depth, deep, Deepest

LEMMA BlackIsDeepest ==
  ASSUME TypeOK, NEW cell \in Cell
  PROVE  /\ Black(cell) \in 0..Deepest
         /\ \A b \in blocks : Depth(b, cell) <= Black(cell)
<1>. DEFINE depths == {Depth(b, cell) : b \in blocks} \cup {0}
<1>1. Deepest \in Nat
  BY PageArea DEF Deepest
<1>2. depths \in SUBSET (0..Deepest) /\ depths # {}
  BY <1>1, DepthBounded DEF TypeOK
<1>3. Black(cell) = Max(depths)
  BY DEF Black
<1>4. Black(cell) \in depths /\ \A t \in depths : Black(cell) >= t
  <2>. HIDE DEF depths
  <2>. QED  BY <1>1, <1>2, <1>3, GreatestExists
<1>5. ASSUME NEW b \in blocks  PROVE Depth(b, cell) <= Black(cell)
  <2>1. Depth(b, cell) \in depths
    OBVIOUS
  <2>. QED  BY <1>1, <1>2, <1>4, <2>1
<1>. QED  BY <1>2, <1>4, <1>5

-----------------------------------------------------------------------------
(***************************************************************************)
(* The black of some cells, unit by unit.  It is counted cell by cell, and *)
(* that is what the sum of ASixthIsBlack does: the sum is a function on    *)
(* sets of cells that is defined by recursion, the count is such a         *)
(* function, and a least set of cells on which the two differ is           *)
(* impossible.                                                             *)
(***************************************************************************)
Ink(cells) == {p \in cells \X (1..Deepest) : p[2] <= Black(p[1])}

LEMMA InkFinite ==
  ASSUME NEW cells \in SUBSET Cell
  PROVE  IsFiniteSet(Ink(cells)) /\ Cardinality(Ink(cells)) \in Nat /\ IsFiniteSet(cells)
<1>1. IsFiniteSet(cells)
  BY CellsAreCounted, FS_Subset
<1>2. IsFiniteSet(1..Deepest)
  BY PageArea, FS_Interval DEF Deepest
<1>3. IsFiniteSet(cells \X (1..Deepest))
  BY <1>1, <1>2, FS_Product
<1>4. Ink(cells) \in SUBSET (cells \X (1..Deepest))
  BY DEF Ink
<1>. QED  BY <1>1, <1>3, <1>4, FS_Subset, FS_CardinalityType

LEMMA InkOfACell ==
  ASSUME TypeOK, NEW cells \in SUBSET Cell, NEW cell \in cells
  PROVE  Cardinality(Ink(cells)) = Black(cell) + Cardinality(Ink(cells \ {cell}))
<1>. DEFINE own == {cell} \X (1..Black(cell))
            rest == Ink(cells \ {cell})
<1>1. Black(cell) \in 0..Deepest /\ Black(cell) \in Nat /\ Deepest \in Nat
  BY BlackIsDeepest, PageArea DEF Deepest
<1>2. Ink(cells) = own \cup rest /\ own \cap rest = {}
  BY <1>1 DEF Ink
<1>3. IsFiniteSet(own) /\ Cardinality(own) = Black(cell)
  <2>1. IsFiniteSet(1..Black(cell)) /\ Cardinality(1..Black(cell)) = Black(cell)
    BY <1>1, FS_Interval
  <2>2. IsFiniteSet({cell}) /\ Cardinality({cell}) = 1
    BY FS_Singleton
  <2>3. IsFiniteSet(own) /\ Cardinality(own) = Cardinality({cell}) * Cardinality(1..Black(cell))
    BY <2>1, <2>2, FS_Product
  <2>. QED  BY <1>1, <2>1, <2>2, <2>3
<1>4. IsFiniteSet(rest) /\ Cardinality(rest) \in Nat
  BY InkFinite
<1>. HIDE DEF own, rest
<1>5. Cardinality(own \cup rest) = Cardinality(own) + Cardinality(rest) - Cardinality(own \cap rest)
  BY <1>3, <1>4, FS_Union
<1>6. Cardinality(own \cap rest) = 0
  BY <1>2, FS_EmptySet
<1>. QED  BY <1>1, <1>2, <1>3, <1>4, <1>5, <1>6 DEF rest

(* How MapThenSumSet goes through a set. *)
First(cells) == CHOOSE cell \in cells : TRUE

SumsUp(sum) ==
  sum = [cells \in SUBSET Cell |->
            IF cells = {} THEN 0
            ELSE Black(First(cells)) + sum[cells \ {First(cells)}]]

LEMMA InkSumsUp ==
  ASSUME TypeOK
  PROVE  SumsUp([cells \in SUBSET Cell |-> Cardinality(Ink(cells))])
<1>. DEFINE count == [cells \in SUBSET Cell |-> Cardinality(Ink(cells))]
<1>1. ASSUME NEW cells \in SUBSET Cell, cells = {}  PROVE count[cells] = 0
  BY <1>1, FS_EmptySet DEF Ink
<1>2. ASSUME NEW cells \in SUBSET Cell, cells # {}
      PROVE  count[cells] = Black(First(cells)) + count[cells \ {First(cells)}]
  <2>1. First(cells) \in cells /\ cells \ {First(cells)} \in SUBSET Cell
    BY <1>2 DEF First
  <2>. QED  BY <2>1, InkOfACell
<1>3. \A cells \in SUBSET Cell :
         count[cells] = IF cells = {} THEN 0
                        ELSE Black(First(cells)) + count[cells \ {First(cells)}]
  BY <1>1, <1>2
<1>4. count = [cells \in SUBSET Cell |-> count[cells]]
  OBVIOUS
<1>. HIDE DEF count
<1>5. SumsUp(count)
  BY <1>3, <1>4 DEF SumsUp
<1>. QED  BY <1>5 DEF count

LEMMA OnlyInkSumsUp ==
  ASSUME TypeOK, NEW sum, SumsUp(sum)
  PROVE  sum[Cell] = Cardinality(Ink(Cell))
<1>. DEFINE wrong == {cells \in SUBSET Cell : sum[cells] # Cardinality(Ink(cells))}
<1>1. wrong \subseteq FiniteSubsetsOf(Cell)
  BY InkFinite DEF FiniteSubsetsOf
<1>2. IsWellFoundedOn(StrictSubsetOrdering(Cell), FiniteSubsetsOf(Cell))
  BY FS_StrictSubsetOrderingWellFounded
<1>3. SUFFICES ASSUME wrong # {}  PROVE FALSE
  OBVIOUS
<1>4. \E cells \in wrong : \A c \in wrong : <<c, cells>> \notin StrictSubsetOrdering(Cell)
  <2>. HIDE DEF wrong
  <2>. QED  BY <1>1, <1>2, <1>3, WFMin
<1>5. PICK cells \in wrong : \A c \in wrong : <<c, cells>> \notin StrictSubsetOrdering(Cell)
  BY <1>4
<1>6. cells \in SUBSET Cell /\ sum[cells] # Cardinality(Ink(cells))
  OBVIOUS
<1>7. sum[cells] = IF cells = {} THEN 0 ELSE Black(First(cells)) + sum[cells \ {First(cells)}]
  BY <1>6 DEF SumsUp
<1>8. CASE cells = {}
  <2>1. Ink(cells) = {}
    BY <1>8 DEF Ink
  <2>. QED  BY <1>6, <1>7, <1>8, <2>1, FS_EmptySet
<1>9. CASE cells # {}
  <2>. DEFINE fewer == cells \ {First(cells)}
  <2>1. First(cells) \in cells /\ fewer \in SUBSET Cell
    BY <1>6, <1>9 DEF First
  <2>2. <<fewer, cells>> \in StrictSubsetOrdering(Cell)
    BY <1>6, <2>1 DEF StrictSubsetOrdering
  <2>3. sum[fewer] = Cardinality(Ink(fewer))
    BY <1>5, <2>1, <2>2
  <2>4. Cardinality(Ink(cells)) = Black(First(cells)) + Cardinality(Ink(fewer))
    BY <1>6, <2>1, InkOfACell
  <2>. QED  BY <1>6, <1>7, <1>9, <2>3, <2>4
<1>. QED  BY <1>8, <1>9

LEMMA BlackIsInk ==
  ASSUME TypeOK
  PROVE  MapThenSumSet(Black, Cell) = Cardinality(Ink(Cell))
<1>1. MapThenSumSet(Black, Cell) = (CHOOSE sum : SumsUp(sum))[Cell]
  BY DEF MapThenSumSet, MapThenFoldSet, SumsUp, First
<1>2. SumsUp(CHOOSE sum : SumsUp(sum))
  BY InkSumsUp
<1>. QED  BY <1>1, <1>2, OnlyInkSumsUp

-----------------------------------------------------------------------------
(***************************************************************************)
(* The blocks unit by unit, each with its column and its height within its *)
(* block: six units for every hundredth of a pixel counted as covered.     *)
(***************************************************************************)
Reach(b) == (6 * b.area) \div b.w
Paint(b) == {b} \X ((0..b.w - 1) \X (1..Reach(b)))
Painted == UNION {Paint(b) : b \in blocks}

PaintCounted == IsFiniteSet(Painted) /\ Cardinality(Painted) = 6 * covered

LEMMA PaintOfABlock ==
  ASSUME NEW b \in Block
  PROVE  IsFiniteSet(Paint(b)) /\ Cardinality(Paint(b)) = 6 * b.area
<1>1. b.w \in 1..3 /\ b.area \in Nat
  BY DEF Block
<1>2. Reach(b) \in Nat /\ b.w * Reach(b) = 6 * b.area
  <2>1. CASE b.w = 1
    BY <2>1, <1>1 DEF Reach
  <2>2. CASE b.w = 2
    BY <2>2, <1>1 DEF Reach
  <2>3. CASE b.w = 3
    BY <2>3, <1>1 DEF Reach
  <2>. QED  BY <1>1, <2>1, <2>2, <2>3
<1>. DEFINE columns == 0..b.w - 1
            units == 1..Reach(b)
<1>3. IsFiniteSet(columns) /\ Cardinality(columns) = b.w
  <2>1. 0 \in Int /\ b.w - 1 \in Int /\ ~(0 > b.w - 1) /\ b.w - 1 - 0 + 1 = b.w
    BY <1>1
  <2>. QED  BY <2>1, FS_Interval
<1>4. IsFiniteSet(units) /\ Cardinality(units) = Reach(b)
  BY <1>2, FS_Interval
<1>5. IsFiniteSet({b}) /\ Cardinality({b}) = 1
  BY FS_Singleton
<1>6. ASSUME NEW C, NEW R, IsFiniteSet(C), IsFiniteSet(R)
      PROVE  IsFiniteSet(C \X R) /\ Cardinality(C \X R) = Cardinality(C) * Cardinality(R)
  BY <1>6, FS_Product
<1>. HIDE DEF columns, units
<1>7. /\ IsFiniteSet(columns \X units)
      /\ Cardinality(columns \X units) = Cardinality(columns) * Cardinality(units)
  BY <1>3, <1>4, <1>6, Zenon
<1>8. /\ IsFiniteSet(Paint(b))
      /\ Cardinality(Paint(b)) = Cardinality({b}) * Cardinality(columns \X units)
  BY <1>5, <1>6, <1>7, Zenon DEF Paint, columns, units
<1>9. 1 * (b.w * Reach(b)) = 6 * b.area
  BY <1>1, <1>2
<1>. QED  BY <1>3, <1>4, <1>5, <1>7, <1>8, <1>9

LEMMA LayKeepsPaint ==
  ASSUME Sound, Sound', Corners, PaintCounted,
         NEW cell \in todo, NEW span_c \in 1..3, NEW span_r \in 1..2, Lay(cell, span_c, span_r)
  PROVE  PaintCounted'
<1>1. PICK b : /\ blocks' = blocks \cup {b} /\ b.cell = cell
               /\ covered' = covered + b.area
  <2>. DEFINE w == Width(cell, span_c)
              area == Area(cell, w, Height(cell, span_r), Target(percentage) - covered)
              block == [cell |-> cell, w |-> w, area |-> area]
  <2>1. blocks' = blocks \cup {block} /\ covered' = covered + area
    BY DEF Lay
  <2>2. block.cell = cell /\ block.area = area
    OBVIOUS
  <2>. HIDE DEF block
  <2>. QED  BY <2>1, <2>2
<1>2. b \in Block /\ b \notin blocks /\ covered \in Nat /\ b.area \in Nat
  BY <1>1 DEF Sound, TypeOK, Corners, Block
<1>3. Painted' = Painted \cup Paint(b)
  BY <1>1 DEF Painted, Paint, Reach
<1>4. Painted \cap Paint(b) = {}
  BY <1>2 DEF Painted, Paint
<1>5. IsFiniteSet(Paint(b)) /\ Cardinality(Paint(b)) = 6 * b.area
  BY <1>2, PaintOfABlock
<1>6. IsFiniteSet(Painted) /\ Cardinality(Painted) = 6 * covered
  BY DEF PaintCounted
<1>7. /\ IsFiniteSet(Painted \cup Paint(b))
      /\ Cardinality(Painted \cup Paint(b))
           = Cardinality(Painted) + Cardinality(Paint(b)) - Cardinality(Painted \cap Paint(b))
  BY <1>5, <1>6, FS_Union
<1>8. Cardinality(Painted \cap Paint(b)) = 0
  BY <1>4, FS_EmptySet
<1>9. 6 * covered + 6 * b.area - 0 = 6 * (covered + b.area)
  BY <1>2
<1>. QED  BY <1>1, <1>3, <1>5, <1>6, <1>7, <1>8, <1>9 DEF PaintCounted

LEMMA AlwaysPaintCounted == Spec => []PaintCounted
<1>1. ASSUME blocks = {}, covered = 0  PROVE PaintCounted
  <2>1. Painted = {}
    BY <1>1 DEF Painted
  <2>. QED  BY <1>1, <2>1, FS_EmptySet DEF PaintCounted
<1>2. Init => PaintCounted
  BY <1>1 DEF Init
<1>3. ASSUME NEW n \in Asked, NEW supported \in BOOLEAN, Begin(n, supported)  PROVE PaintCounted'
  <2>1. blocks' = {} /\ covered' = 0
    BY <1>3 DEF Begin
  <2>2. Painted' = {}
    BY <2>1 DEF Painted
  <2>. QED  BY <2>1, <2>2, FS_EmptySet DEF PaintCounted
<1>4. ASSUME PaintCounted, UNCHANGED page  PROVE PaintCounted'
  BY <1>4 DEF page, PaintCounted, Painted
<1>5. Sound /\ Sound' /\ Corners /\ PaintCounted /\ [Next]_vars => PaintCounted'
  BY <1>3, <1>4, LayKeepsPaint DEF Next, Finish, Fail, vars
<1>. QED  BY <1>2, <1>5, AlwaysSound, AlwaysCorners, PTL DEF Spec

-----------------------------------------------------------------------------
(***************************************************************************)
(* A unit of a block is in the cell of its column, in the upper or in the  *)
(* lower of the block's two rows, and what it paints there is black.       *)
(***************************************************************************)
LowerRow(u) == IF u[2] <= Deepest THEN 0 ELSE 1
CellOf(b, u) == <<b.cell[1] + u[1], b.cell[2] + LowerRow(u)>>
InkOf(b, u) == <<CellOf(b, u), u[2] - Deepest * LowerRow(u)>>
Place(u) == <<u[1], LowerRow(u)>>

LEMMA PaintIsInk ==
  ASSUME TypeOK, NEW b \in blocks, LowBlock(b), NEW u \in (0..b.w - 1) \X (1..Reach(b))
  PROVE  InkOf(b, u) \in Ink(Cell) /\ Place(u) \in (0..2) \X (0..1)
<1>. DEFINE x == b.cell[1]  y == b.cell[2]  c == u[1]  h == u[2]  r == LowerRow(u)
<1>1. /\ b \in Block /\ x \in 0..Cols - 1 /\ y \in 0..Rows - 1 /\ b.cell = <<x, y>>
      /\ b.w \in 1..3 /\ b.area \in Nat
      /\ c \in 0..b.w - 1 /\ h \in 1..Reach(b) /\ u = <<c, h>>
      /\ Cols \in Nat /\ Rows \in Nat
  BY GridAssumption DEF TypeOK, Block, Cell
<1>2. /\ x + b.w <= Cols
      /\ b.area <= Full(b.cell, b.w, (Rows - y) * CellHeight)
  BY DEF TypeOK, BlocksStayOnPage, OnPage
<1>3. Deepest \in Nat /\ Deepest = 600 * CellHeight /\ CellHeight \in Nat
  BY PageArea DEF Deepest, CellArea
<1>4. Reach(b) \in Nat /\ Reach(b) <= 2 * Deepest /\ (y = Rows - 1 => Reach(b) <= Deepest)
  <2>1. y = Rows - 1 => (Rows - y) * CellHeight = CellHeight
    BY <1>1, <1>3
  <2>2. b.area <= 2 * CellArea * b.w /\ CellArea = 100 * CellHeight
    BY DEF LowBlock, CellArea
  <2>3. y = Rows - 1 => b.area <= 100 * b.w * CellHeight
    BY <1>2, <2>1 DEF Full
  <2>4. CASE b.w = 1
    BY <2>2, <2>3, <2>4, <1>1, <1>3 DEF Reach
  <2>5. CASE b.w = 2
    BY <2>2, <2>3, <2>5, <1>1, <1>3 DEF Reach
  <2>6. CASE b.w = 3
    BY <2>2, <2>3, <2>6, <1>1, <1>3 DEF Reach
  <2>. QED  BY <1>1, <2>4, <2>5, <2>6
<1>5. r \in 0..1 /\ h - Deepest * r \in 1..Deepest /\ (r = 1 => y + 1 <= Rows - 1)
  BY <1>1, <1>3, <1>4 DEF LowerRow
<1>6. CellOf(b, u) \in Cell
  BY <1>1, <1>2, <1>5 DEF CellOf, Cell
<1>7. h - Deepest * r <= Depth(b, CellOf(b, u))
  <2>1. /\ x + c \in x..x + b.w - 1 /\ y + r >= y /\ (y + r) - y = r
        /\ CellOf(b, u)[1] = x + c /\ CellOf(b, u)[2] = y + r
    BY <1>1, <1>5 DEF CellOf
  <2>2. Depth(b, CellOf(b, u)) = Most(0, Least(Deepest, Reach(b) - Deepest * r))
    BY <2>1 DEF Depth, Deepest, Reach
  <2>3. Deepest * r \in Int
    BY <1>3, <1>5
  <2>. QED  BY <2>2, <2>3, <1>1, <1>3, <1>4, <1>5 DEF Most, Least
<1>8. h - Deepest * r <= Black(CellOf(b, u))
  <2>1. Depth(b, CellOf(b, u)) \in 0..Deepest
    BY <1>1, <1>6, DepthBounded
  <2>2. Depth(b, CellOf(b, u)) <= Black(CellOf(b, u)) /\ Black(CellOf(b, u)) \in 0..Deepest
    BY <1>6, BlackIsDeepest
  <2>. QED  BY <1>3, <1>5, <1>7, <2>1, <2>2
<1>. QED  BY <1>1, <1>5, <1>6, <1>8 DEF Ink, InkOf, Place

(***************************************************************************)
(* Six units of paint at most fall on one unit of black: a unit of black   *)
(* and the place within the block tell the block, since no two blocks have *)
(* the same corner.                                                        *)
(***************************************************************************)
LEMMA SixCoatsAtMost ==
  ASSUME TypeOK, Corners
  PROVE  Cardinality(Painted) <= Cardinality(Ink(Cell)) * 6
<1>. DEFINE Places == (0..2) \X (0..1)
            coat == [p \in Painted |-> <<InkOf(p[1], p[2]), Place(p[2])>>]
<1>1. ASSUME NEW p \in Painted
      PROVE  /\ p[1] \in blocks /\ LowBlock(p[1]) /\ p = <<p[1], p[2]>>
             /\ p[2] \in (0..p[1].w - 1) \X (1..Reach(p[1]))
  BY DEF Painted, Paint, Corners
<1>2. coat \in [Painted -> Ink(Cell) \X Places]
  BY <1>1, PaintIsInk
<1>3. ASSUME NEW p \in Painted, NEW q \in Painted, coat[p] = coat[q]  PROVE p = q
  <2>. DEFINE b == p[1]  u == p[2]  d == q[1]  v == q[2]
  <2>1. /\ b.cell[1] \in Int /\ b.cell[2] \in Int /\ d.cell[1] \in Int /\ d.cell[2] \in Int
        /\ b.cell = <<b.cell[1], b.cell[2]>> /\ d.cell = <<d.cell[1], d.cell[2]>>
    BY <1>1 DEF TypeOK, Block, Cell
  <2>2. /\ u[1] \in Int /\ u[2] \in Int /\ u = <<u[1], u[2]>>
        /\ v[1] \in Int /\ v[2] \in Int /\ v = <<v[1], v[2]>>
    BY <1>1
  <2>3. InkOf(b, u) = InkOf(d, v) /\ Place(u) = Place(v)
    BY <1>3
  <2>4. u[1] = v[1] /\ LowerRow(u) = LowerRow(v) /\ LowerRow(u) \in 0..1
    BY <2>3 DEF Place, LowerRow
  <2>5. /\ b.cell[1] + u[1] = d.cell[1] + v[1]
        /\ b.cell[2] + LowerRow(u) = d.cell[2] + LowerRow(v)
        /\ u[2] - Deepest * LowerRow(u) = v[2] - Deepest * LowerRow(v)
    BY <2>3 DEF InkOf, CellOf
  <2>6. b.cell = d.cell
    BY <2>1, <2>2, <2>4, <2>5
  <2>7. Deepest * LowerRow(u) \in Int
    BY <2>4, PageArea DEF Deepest
  <2>8. u = v
    BY <2>2, <2>4, <2>5, <2>7
  <2>9. b = d
    BY <1>1, <2>6 DEF Corners, CornersApart
  <2>. QED  BY <1>1, <2>8, <2>9
<1>4. coat \in Injection(Painted, Ink(Cell) \X Places)
  <2>. HIDE DEF coat
  <2>1. DOMAIN coat = Painted
    BY <1>2
  <2>. QED  BY <1>2, <1>3, <2>1 DEF Injection, IsInjective
<1>5. IsFiniteSet(Ink(Cell)) /\ Cardinality(Ink(Cell)) \in Nat
  BY InkFinite
<1>6. IsFiniteSet(Places) /\ Cardinality(Places) = 6
  <2>. USE FS_Interval
  <2>1. IsFiniteSet(0..2) /\ Cardinality(0..2) = 3
    <3>1. 0 \in Int /\ 2 \in Int /\ ~(0 > 2) /\ 2 - 0 + 1 = 3
      OBVIOUS
    <3>. QED  BY <3>1
  <2>2. IsFiniteSet(0..1) /\ Cardinality(0..1) = 2
    <3>1. 0 \in Int /\ 1 \in Int /\ ~(0 > 1) /\ 1 - 0 + 1 = 2
      OBVIOUS
    <3>. QED  BY <3>1
  <2>3. IsFiniteSet(Places) /\ Cardinality(Places) = Cardinality(0..2) * Cardinality(0..1)
    BY <2>1, <2>2, FS_Product
  <2>. QED  BY <2>1, <2>2, <2>3
<1>. HIDE DEF Places
<1>7. /\ IsFiniteSet(Ink(Cell) \X Places)
      /\ Cardinality(Ink(Cell) \X Places) = Cardinality(Ink(Cell)) * Cardinality(Places)
  BY <1>5, <1>6, FS_Product
<1>8. Cardinality(Painted) <= Cardinality(Ink(Cell) \X Places)
  BY <1>4, <1>7, FS_Injection
<1>. QED  BY <1>6, <1>7, <1>8

(***************************************************************************)
(* At least a sixth of what was asked for is black in every copy, for any  *)
(* grid, percentages and shuffle, however the blocks overlap: the counter  *)
(* counts no point more than six times (redaction.py:47-71).               *)
(***************************************************************************)
THEOREM SixthBlack == Spec => []ASixthIsBlack
<1>1. ASSUME Sound, Corners, PaintCounted  PROVE ASixthIsBlack
  <2>. SUFFICES ASSUME answer = "copy"
                PROVE  MapThenSumSet(Black, Cell) >= Target(percentage)
    BY DEF ASixthIsBlack
  <2>1. TypeOK /\ covered \in Nat /\ percentage \in 0..95 /\ covered >= Target(percentage)
    BY <1>1 DEF Sound, TypeOK, Valid, CountsWhatWasAsked
  <2>2. 6 * covered <= Cardinality(Ink(Cell)) * 6
    BY <1>1, <2>1, SixCoatsAtMost DEF PaintCounted
  <2>3. Cardinality(Ink(Cell)) \in Nat /\ Target(percentage) \in Nat
    BY <2>1, InkFinite, PageArea
  <2>. QED  BY <2>1, <2>2, <2>3, BlackIsInk
<1>. QED  BY <1>1, AlwaysSound, AlwaysCorners, AlwaysPaintCounted, PTL

=============================================================================
