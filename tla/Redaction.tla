----------------------------- MODULE Redaction ------------------------------
(***************************************************************************)
(* Selective redaction (src/app/redaction.py and the redact route of main. *)
(* py): black blocks are laid over a grid of cells in a random order until *)
(* the asked percentage is covered; the copy is noted and handed out.      *)
(*                                                                         *)
(* One page stands for each page of a document.  Widths are in cells and   *)
(* heights in pixels; areas are in hundredths of their product, so that a  *)
(* percentage of the page is a whole number.                               *)
(***************************************************************************)
EXTENDS Integers, FiniteSetsExt

CONSTANTS
    Cols, Rows,  \* the grid: 8 and 12 in the code
    CellHeight,  \* the height of a cell in pixels
    Asked,       \* the percentages that callers ask for
    Nobody       \* no percentage: no redaction was asked for

ASSUME GridAssumption ==
    /\ Cols \in Nat \ {0} /\ Rows \in Nat \ {0} /\ CellHeight \in Nat \ {0}
    /\ Asked \subseteq Int
    /\ Nobody \notin Int

Cell == (0..Cols - 1) \X (0..Rows - 1)
CellArea == 100 * CellHeight

VARIABLES
    percentage,  \* the percentage that is being, or was last, redacted
    answer,      \* "none", "copy" or "refused"
    todo,        \* the cells not tried yet
    blocks,      \* the blocks laid
    covered,     \* their summed area, as the loop counts it
    noted        \* the percentage in the audit entry of this request

page == <<todo, blocks, covered>>
vars == <<percentage, answer, page, noted>>

-----------------------------------------------------------------------------
Valid(n) == n \in 0..95
Target(n) == Cols * Rows * CellHeight * n

Least(a, b) == IF a <= b THEN a ELSE b
Most(a, b) == IF a >= b THEN a ELSE b

(* The spans of a block at a cell, cut at the edges of the page. *)
Width_Unclipped(cell, span) == span
Width(cell, span) == Least(Cols - cell[1], span)
Height(cell, span) == Least((Rows - cell[2]) * CellHeight, span * CellHeight)

Full(cell, w, h) == 100 * w * h

(* The last block is trimmed, to a pixel at least, unless little remains. *)
Trims(area, remaining) == area > remaining /\ 100 * remaining > 35 * CellArea
Trimmed(cell, w, remaining) ==
    Least(Full(cell, w, (Rows - cell[2]) * CellHeight), Most(100 * w, remaining))

Area(cell, w, h, remaining) ==
    IF Trims(Full(cell, w, h), remaining) THEN Trimmed(cell, w, remaining) ELSE Full(cell, w, h)

(* Every cell is tried once, in the shuffled order. *)
Left_WithReplacement(cell) == todo
Left(cell) == todo \ {cell}

-----------------------------------------------------------------------------
Init ==
    /\ percentage = Nobody /\ answer = "none"
    /\ todo = {} /\ blocks = {} /\ covered = 0
    /\ noted = Nobody

Working == percentage # Nobody /\ answer = "none"

(* redact_file refuses other types of file, and percentages out of bounds. *)
Begin(n, supported) ==
    /\ ~Working
    /\ percentage' = n
    /\ noted' = Nobody
    /\ blocks' = {} /\ covered' = 0
    /\ IF Valid(n) /\ supported
       THEN answer' = "none" /\ todo' = Cell
       ELSE answer' = "refused" /\ todo' = {}

Covers_LessACell(n) == covered + CellArea >= Target(n)
Covers(n) == covered >= Target(n)

(* One turn of the loop of _rectangles. *)
Lay(cell, span_c, span_r) ==
    /\ Working
    /\ ~Covers(percentage)
    /\ LET w == Width(cell, span_c)
           area == Area(cell, w, Height(cell, span_r), Target(percentage) - covered)
       IN  /\ blocks' = blocks \cup {[cell |-> cell, w |-> w, area |-> area]}
           /\ covered' = covered + area
    /\ todo' = Left(cell)
    /\ UNCHANGED <<percentage, answer, noted>>

(* redact_shared_copy notes the copy before it hands it out ... *)
Finish ==
    /\ Working
    /\ Covers(percentage) \/ todo = {}
    /\ noted' = percentage
    /\ answer' = "copy"
    /\ UNCHANGED <<percentage, page>>

(* ... and hands out nothing when the entry fails. *)
Fail ==
    /\ Working
    /\ Covers(percentage) \/ todo = {}
    /\ answer' = "refused"
    /\ UNCHANGED <<percentage, page, noted>>

Next ==
    \/ \E n \in Asked, supported \in BOOLEAN : Begin(n, supported)
    \/ \E cell \in todo, span_c \in 1..3, span_r \in 1..2 : Lay(cell, span_c, span_r)
    \/ Finish
    \/ Fail

Spec == Init /\ [][Next]_vars

-----------------------------------------------------------------------------
Block == [cell : Cell, w : 1..3, area : Nat]

(* A block lies on the page, trimmed or not, and is not empty. *)
OnPage(b) ==
    /\ b.cell[1] + b.w <= Cols
    /\ b.area \in 1..Full(b.cell, b.w, (Rows - b.cell[2]) * CellHeight)

BlocksStayOnPage == \A b \in blocks : OnPage(b)

(***************************************************************************)
(* The variables keep to their types, no block leaves the page, and the    *)
(* audit entry of a copy names its percentage (redaction.py:57-68, main.py:*)
(* 1138-1145).                                                             *)
(***************************************************************************)
TypeOK ==
    /\ percentage \in Asked \cup {Nobody}
    /\ answer \in {"none", "copy", "refused"}
    /\ todo \subseteq Cell
    /\ blocks \subseteq Block
    /\ BlocksStayOnPage
    /\ covered \in Nat
    /\ noted \in {Nobody, percentage}
    /\ answer = "copy" => noted = percentage

(***************************************************************************)
(* The blocks of a copy add up to what was asked for, and to less than one *)
(* largest block, of six cells, more: neither do the cells run out before, *)
(* nor does the last block go too far (redaction.py:50-71).                *)
(***************************************************************************)
CountsWhatWasAsked ==
    answer = "copy" => /\ covered >= Target(percentage)
                       /\ covered < Target(percentage) + 6 * CellArea

(***************************************************************************)
(* Blocks have corners of their own and span three cells by two at most,   *)
(* so that no point lies under more than six of them: at least a sixth of  *)
(* what was asked for is really black in the copy (redaction.py:47-71).    *)
(* Depths are in sixths of hundredths of a pixel, from the top of a cell.  *)
(***************************************************************************)
Depth(b, cell) ==
    IF cell[1] \in b.cell[1]..b.cell[1] + b.w - 1 /\ cell[2] >= b.cell[2]
    THEN Most(0, Least(6 * CellArea, (6 * b.area) \div b.w - 6 * CellArea * (cell[2] - b.cell[2])))
    ELSE 0

Black(cell) == Max({Depth(b, cell) : b \in blocks} \cup {0})

ASixthIsBlack == answer = "copy" => MapThenSumSet(Black, Cell) >= Target(percentage)

=============================================================================
