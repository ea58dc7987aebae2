------------------------------ MODULE PageText ------------------------------
(***************************************************************************)
(* The rows and columns of the page: the strings the view prints for the   *)
(* state of the screen, and where.  The header row is printed cell after   *)
(* cell from one position, the cells each at a position of their own, the  *)
(* prefixes and the preview at fixed columns; only together they tell the  *)
(* user which byte is which.                                               *)
(*                                                                         *)
(* A character is a pair of a kind and a value: the two hexadecimal digits *)
(* of a byte, the byte in the preview, or a punctuation mark.              *)
(***************************************************************************)
EXTENDS PageMemProperties

PAGEMEM_HEADER_ROW == 2
PAGEMEM_DATA_ROW   == 3
PAGEMEM_DATA_COLUMN == 4
PAGEMEM_ASCII_PREVIEW_COLUMN == 54

\* An offset in the page is a byte, and a row of one-byte cells, the widest
\* there is, ends before the preview.
ASSUME PageTextAssumption ==
    /\ PAGE_SIZE <= 256
    /\ PAGEMEM_DATA_COLUMN + (3 * COLS) <= PAGEMEM_ASCII_PREVIEW_COLUMN

Mark(c)    == <<"mark", c>>
HexPair(b) == << <<"high", b>>, <<"low", b>> >>

\* A cell of two digits for each byte and a blank: 2 * width + 1 characters.
PageCoreGetCellDisplayWidth(w) == (w * 2) + 1

\* The digits of w bytes, bytes[w - 1] first, and the blank behind them.
Digits(bytes, w) ==
    [k \in 1 .. PageCoreGetCellDisplayWidth(w) |->
        IF k > 2 * w THEN Mark(" ")
        ELSE HexPair(bytes[w - 1 - ((k - 1) \div 2)])[1 + ((k - 1) % 2)]]

\* Mutant: prints the bytes of a cell in the order of their addresses.
PageCoreFormatValueBE(bytes, w) ==
    LET first == Min(DOMAIN bytes)
    IN Digits([i \in 0 .. (w - 1) |-> bytes[first + (w - 1 - i)]], w)

\* The value of a cell is read as little endian: byte 0 is the lowest.
PageCoreFormatValueLE(bytes, w) ==
    LET first == Min(DOMAIN bytes)
    IN Digits([i \in 0 .. (w - 1) |-> bytes[first + i]], w)

BuildInvalidCellString(w) ==
    [k \in 1 .. PageCoreGetCellDisplayWidth(w) |-> Mark(IF k > 2 * w THEN " " ELSE "?")]

PageCoreFormatOffsetHeader(o, w) == Digits([i \in 0 .. (w - 1) |-> (o + i) % 256], w)

-----------------------------------------------------------------------------
(* Where they go. *)

String(row, column, text) == [row |-> row, column |-> column, text |-> text]

GetCellPosition(o, w) ==
    LET BytesPerRow == (COLS \div w) * w
    IN [column |-> PAGEMEM_DATA_COLUMN
                   + ((o % BytesPerRow) \div w) * PageCoreGetCellDisplayWidth(w),
        row    |-> PAGEMEM_DATA_ROW + (o \div BytesPerRow)]

\* DrawMemoryHeader: the columns' offsets, one string behind the other.
MemoryHeader(w) ==
    LET size == PageCoreGetCellDisplayWidth(w)
    IN String(PAGEMEM_HEADER_ROW, PAGEMEM_DATA_COLUMN,
              [k \in 1 .. (COLS \div w) * size |->
                  PageCoreFormatOffsetHeader(((k - 1) \div size) * w, w)[1 + ((k - 1) % size)]])

DrawCell(o, w) ==
    String(GetCellPosition(o, w).row, GetCellPosition(o, w).column,
           IF screen.cells[o] = Masked THEN BuildInvalidCellString(w)
           ELSE PageCoreFormatValueLE(screen.cells[o], w))

\* RenderRowPrefix and RenderAsciiPreview for the row that begins at o.
RowPrefix(o) ==
    String(PAGEMEM_DATA_ROW + (o \div COLS), 0, Append(HexPair(o), Mark(":")))

PreviewChar(bytes) ==
    IF bytes = Masked THEN Mark(".") ELSE <<"ascii", bytes[Min(DOMAIN bytes)]>>

AsciiPreview(o) ==
    String(PAGEMEM_DATA_ROW + (o \div COLS), PAGEMEM_ASCII_PREVIEW_COLUMN,
           [k \in 1 .. COLS |-> PreviewChar(screen.preview[o + k - 1])])

\* DrawMemoryHeader and DrawMemoryRows, with what single cells were redrawn to.
Printed ==
    LET w == cursor.Width
        rows == {o \in Slots(w) : o % COLS = 0}
    IN {MemoryHeader(w)} \cup {DrawCell(o, w) : o \in Slots(w)}
       \cup {RowPrefix(o) : o \in rows} \cup {AsciiPreview(o) : o \in rows}

-----------------------------------------------------------------------------
(* Property. *)

\* Nothing is printed over the text that begins at the position, or in part.
Reads(strings, row, column, text) ==
    \A k \in DOMAIN text :
        LET at == column + k - 1
            here == {s \in strings : s.row = row /\ at - s.column + 1 \in DOMAIN s.text}
        IN /\ \A s \in here : s.text[at - s.column + 1] = text[k]
           /\ Cardinality(here) = 1

\* The user finds a byte by its row's prefix and its column in the header.
\* What stands there, at every width and after every partial redraw, is the
\* byte of that offset, or question marks, and its character is at the same
\* place of the preview.
BytesStandUnderTheirOffsets ==
    AtPrompt =>
        LET strings == Printed
        IN \A o \in 0 .. (PAGE_SIZE - 1) :
            LET slot == Slot(cursor, o)
                byte == memory[cursor.Address + o]
            IN \E row \in PAGEMEM_DATA_ROW .. (PAGEMEM_DATA_ROW + PAGE_SIZE),
                  column \in PAGEMEM_DATA_COLUMN .. (PAGEMEM_ASCII_PREVIEW_COLUMN - 2) :
                /\ Reads(strings, row, 0, HexPair(o - (o % COLS)))
                /\ Reads(strings, PAGEMEM_HEADER_ROW, column, HexPair(o % COLS))
                /\ Reads(strings, row, column,
                         IF screen.cells[slot] = Masked THEN <<Mark("?"), Mark("?")>>
                         ELSE HexPair(byte))
                /\ Reads(strings, row, PAGEMEM_ASCII_PREVIEW_COLUMN + (o % COLS),
                         IF screen.preview[o] = Masked THEN <<Mark(".")>>
                         ELSE << <<"ascii", byte>> >>)
=============================================================================
