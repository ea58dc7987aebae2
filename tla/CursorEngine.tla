---------------------------- MODULE CursorEngine ----------------------------
(***************************************************************************)
(* Core/CursorEngine.c: the cursor is a page base Address, an Offset in    *)
(* the page and the access Width.  Offsets are signed while a move is      *)
(* computed and are clamped to the page afterwards.                        *)
(***************************************************************************)
EXTENDS UefiMemory

CONSTANT COLS  \* bytes shown on one row of the page, 16 in the code

ASSUME ColsAssumption == COLS \in Nat \ {0}

\* Mutant: clamps the upper end only.
PageCoreMoveCursorUnclamped(c, delta) ==
    LET moved == c.Offset + (delta * c.Width)
        last  == PAGE_SIZE - c.Width
    IN [c EXCEPT !.Offset = AlignDown(IF moved > last THEN last ELSE moved, c.Width)]

\* Mutant: clamps, but does not align.
PageCoreMoveCursorUnaligned(c, delta) ==
    LET moved == c.Offset + (delta * c.Width)
        last  == PAGE_SIZE - c.Width
    IN [c EXCEPT !.Offset = IF moved < 0 THEN 0 ELSE IF moved > last THEN last ELSE moved]

\* PageCoreMoveCursor on the offset: delta cells of the current width,
\* clamped to the page, then aligned to the width.
PageCoreMoveCursor(c, delta) ==
    LET moved   == c.Offset + (delta * c.Width)
        last    == PAGE_SIZE - c.Width
        clamped == IF moved < 0 THEN 0 ELSE IF moved > last THEN last ELSE moved
    IN [c EXCEPT !.Offset = AlignDown(clamped, c.Width)]

PageCoreSetCursorWidth(c, w) ==
    LET aligned == AlignDown(c.Offset, w)
    IN [c EXCEPT !.Width  = w,
                 !.Offset = IF aligned >= PAGE_SIZE THEN PAGE_SIZE - w ELSE aligned]

PageCoreAlignToPage(a) == AlignDown(a, PAGE_SIZE)

PageCoreGetCurrentAddress(c) == Wrap(c.Address + c.Offset)

\* The deltas of the four arrow keys at the current width.
ArrowDelta(arrow, w) == CASE arrow = "up"    -> -(COLS \div w)
                          [] arrow = "down"  -> COLS \div w
                          [] arrow = "left"  -> -1
                          [] arrow = "right" -> 1
=============================================================================
