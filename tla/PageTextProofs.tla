---------------------------- MODULE PageTextProofs ----------------------------
(***************************************************************************)
(* The page is laid out so that the user reads every byte under its offset *)
(* at every width and after every redraw, for every size of the page and   *)
(* of its rows.                                                            *)
(***************************************************************************)
EXTENDS PageText, PageMemProofs

-----------------------------------------------------------------------------
(* An offset is a row, a cell in the row and a byte in the cell.           *)

\* Quotient and remainder are the only ones.
LEMMA DivisionIsUnique ==
    ASSUME NEW n \in Nat \ {0}, NEW k \in Nat, NEW r \in 0 .. (n - 1)
    PROVE  /\ ((n * k) + r) \div n = k
           /\ ((n * k) + r) % n = r
  <1> DEFINE a == (n * k) + r
             d == a \div n
             m == a % n
  <1>1. n * k \in Nat /\ a \in Nat
    BY SMTT(20)
  <1>2. d \in Nat /\ a = (n * d) + m
    BY <1>1, DivisionIdentity
  <1>3. m \in 0 .. (n - 1)
    <2> HIDE DEF a
    <2> QED
      BY <1>1
  <1>4. n * d \in Nat
    <2> HIDE DEF d
    <2> QED
      BY <1>2, SMTT(20)
  <1> HIDE DEF d, m
  <1>5. ~ (n * d < n * k)
    <2>1. n * d < n * k => (n * d) + n <= n * k
      BY <1>2, ProductsApart
    <2> QED
      BY <1>1, <1>2, <1>3, <1>4, <2>1
  <1>6. ~ (n * k < n * d)
    <2>1. n * k < n * d => (n * k) + n <= n * d
      BY <1>2, ProductsApart
    <2> QED
      BY <1>1, <1>2, <1>3, <1>4, <2>1
  <1>7. n * d = n * k
    BY <1>1, <1>4, <1>5, <1>6
  <1>8. d = k
    BY <1>2, <1>7, SMTT(20)
  <1> QED
    BY <1>1, <1>2, <1>7, <1>8 DEF d, m

\* The cells of a row fill it.
LEMMA CellsFillRow ==
    ASSUME NEW w \in Widths
    PROVE  /\ COLS \in Nat \ {0}
           /\ COLS \div w \in Nat \ {0}
           /\ COLS = w * (COLS \div w)
           /\ (COLS \div w) * w = COLS
  <1>1. w \in Nat \ {0} /\ COLS \in Nat \ {0} /\ COLS % w = 0
    BY WidthFacts, ColsAssumption, PageMemAssumption
  <1> DEFINE n == COLS \div w
  <1>2. n \in Nat /\ COLS = (w * n) + (COLS % w)
    BY <1>1, DivisionIdentity
  <1> HIDE DEF n
  <1>3. w * n \in Nat /\ w * n = n * w
    BY <1>1, <1>2, SMTT(20)
  <1>4. COLS = w * n
    BY <1>1, <1>2, <1>3
  <1>5. n # 0
    BY <1>1, <1>4
  <1> QED
    BY <1>1, <1>2, <1>3, <1>4, <1>5 DEF n

\* The row, the cell and the byte of an offset.
RowOf(o)     == o \div COLS
CellOf(o, w) == (o % COLS) \div w

\* They are coordinates: in range, and an offset is their sum.
LEMMA Coordinates ==
    ASSUME NEW w \in Widths, NEW o \in Nat
    PROVE  /\ RowOf(o) \in Nat
           /\ CellOf(o, w) \in 0 .. ((COLS \div w) - 1)
           /\ o % w \in 0 .. (w - 1)
           /\ o % COLS = (w * CellOf(o, w)) + (o % w)
           /\ o = (COLS * RowOf(o)) + (w * CellOf(o, w)) + (o % w)
           /\ o - (o % COLS) = COLS * RowOf(o)
           /\ COLS * RowOf(o) \in Nat
           /\ w * CellOf(o, w) \in Nat
           /\ o % COLS \in 0 .. (COLS - 1)
  <1> DEFINE n == COLS \div w
             r == RowOf(o)
             c == o % COLS
             q == CellOf(o, w)
  <1>1. w \in Nat \ {0} /\ COLS \in Nat \ {0} /\ n \in Nat \ {0} /\ COLS = w * n
    BY WidthFacts, CellsFillRow
  <1>2. r \in Nat /\ o = (COLS * r) + c /\ c \in 0 .. (COLS - 1)
    BY <1>1, DivisionIdentity DEF RowOf
  <1>3. q \in Nat /\ c = (w * q) + (c % w) /\ c % w \in 0 .. (w - 1)
    <2>1. c \in Nat
      BY <1>2
    <2> HIDE DEF c
    <2>2. c \div w \in Nat /\ c = (w * (c \div w)) + (c % w)
      BY <1>1, <2>1, DivisionIdentity
    <2>3. c % w \in 0 .. (w - 1)
      BY <1>1, <2>1
    <2> QED
      BY <2>2, <2>3 DEF CellOf, c
  <1> HIDE DEF n, r, c, q
  <1>4. COLS * r \in Nat /\ w * q \in Nat
    BY <1>1, <1>2, <1>3, SMTT(20)
  <1>5. q < n
    <2> SUFFICES ASSUME n <= q PROVE FALSE
      BY <1>1, <1>3
    <2>1. w * n <= w * q
      BY <1>1, <1>3, SMTT(20)
    <2> QED
      BY <1>1, <1>2, <1>3, <1>4, <2>1
  <1>6. o = (w * ((n * r) + q)) + (c % w) /\ (n * r) + q \in Nat
    <2>1. n * r \in Nat
      BY <1>1, <1>2, SMTT(20)
    <2>2. (w * n) * r = w * (n * r)
      BY <1>1, <1>2, <2>1, SMTT(20)
    <2>3. w * ((n * r) + q) = (w * (n * r)) + (w * q)
      BY <1>1, <1>3, <2>1, SMTT(20)
    <2> QED
      BY <1>1, <1>2, <1>3, <1>4, <2>1, <2>2, <2>3
  <1>7. o % w = c % w
    <2> DEFINE k == (n * r) + q
               b == c % w
    <2>1. k \in Nat /\ b \in 0 .. (w - 1) /\ o = (w * k) + b
      BY <1>3, <1>6
    <2> HIDE DEF k, b
    <2>2. o % w = b
      BY <1>1, <2>1, DivisionIsUnique
    <2> QED
      BY <2>2 DEF b
  <1>a. q \in 0 .. (n - 1)
    BY <1>1, <1>3, <1>5
  <1>b. o % w \in 0 .. (w - 1) /\ c = (w * q) + (o % w)
    BY <1>3, <1>7
  <1>c. o = (COLS * r) + (w * q) + (o % w) /\ o - c = COLS * r
    <2> DEFINE b == o % w
               x == COLS * r
               y == w * q
    <2>1. x \in Nat /\ y \in Nat /\ b \in Int /\ o = x + c /\ c = y + b
      BY <1>1, <1>2, <1>4, <1>b
    <2> HIDE DEF b, x, y
    <2>2. o = x + y + b /\ o - c = x
      BY <2>1
    <2> QED
      BY <2>2 DEF b, x, y
  <1>8. /\ r \in Nat /\ q \in 0 .. (n - 1) /\ o % w \in 0 .. (w - 1)
        /\ c = (w * q) + (o % w)
        /\ o = (COLS * r) + (w * q) + (o % w)
        /\ o - c = COLS * r
        /\ COLS * r \in Nat
        /\ w * q \in Nat
        /\ c \in 0 .. (COLS - 1)
    BY <1>2, <1>4, <1>a, <1>b, <1>c
  <1> QED
    BY <1>8, Zenon DEF n, r, c, q

\* The slot of an offset lies in the same row and cell, at its beginning.
LEMMA SlotOfOffset ==
    ASSUME NEW w \in Widths, NEW o \in 0 .. (PAGE_SIZE - 1)
    PROVE  /\ AlignDown(o, w) \in Slots(w)
           /\ RowOf(AlignDown(o, w)) = RowOf(o)
           /\ CellOf(AlignDown(o, w), w) = CellOf(o, w)
  <1> DEFINE n == COLS \div w
             r == RowOf(o)
             q == CellOf(o, w)
             s == AlignDown(o, w)
  <1>1. o \in Nat /\ w \in Nat \ {0} /\ COLS \in Nat \ {0} /\ n \in Nat \ {0} /\ COLS = w * n
    BY Sizes, WidthFacts, CellsFillRow
  <1>2. s \in Nat /\ s <= o /\ s = o - (o % w) /\ s % w = 0
    BY <1>1, AlignDownBounds, AlignDownIsMultiple DEF AlignDown
  <1>3. s \in Slots(w)
    <2> HIDE DEF s
    <2> QED
      BY <1>1, <1>2, Sizes DEF Slots
  <1>4. /\ r \in Nat /\ q \in 0 .. (n - 1)
        /\ o % COLS = (w * q) + (o % w) /\ o % COLS \in 0 .. (COLS - 1)
        /\ o % w \in 0 .. (w - 1)
        /\ o - (o % COLS) = COLS * r
        /\ COLS * r \in Nat /\ w * q \in Nat
    BY <1>1, Coordinates
  <1> HIDE DEF n, r, q, s
  <1>5. w * q \in 0 .. (COLS - 1) /\ s = (COLS * r) + (w * q)
    <2> DEFINE b == o % w
               c == o % COLS
               x == COLS * r
               y == w * q
    <2>1. /\ s = o - b /\ c = y + b /\ c \in 0 .. (COLS - 1) /\ b \in 0 .. (w - 1)
          /\ o - c = x /\ x \in Nat /\ y \in Nat
      BY <1>2, <1>4
    <2> HIDE DEF b, c, x, y
    <2>2. y \in 0 .. (COLS - 1) /\ s = x + y
      BY <1>1, <2>1
    <2> QED
      BY <2>2 DEF x, y
  <1>6. s \div COLS = r /\ s % COLS = w * q
    <2> DEFINE y == w * q
    <2>1. y \in 0 .. (COLS - 1) /\ s = (COLS * r) + y
      BY <1>5
    <2> HIDE DEF y
    <2>2. s \div COLS = r /\ s % COLS = y
      BY <1>1, <1>4, <2>1, DivisionIsUnique
    <2> QED
      BY <2>2 DEF y
  <1>7. (w * q) \div w = q
    <2>1. 0 \in 0 .. (w - 1) /\ q \in Nat
      BY <1>1, <1>4
    <2>2. ((w * q) + 0) \div w = q
      BY <1>1, <2>1, DivisionIsUnique
    <2> QED
      BY <1>4, <2>2
  <1> QED
    BY <1>3, <1>6, <1>7 DEF RowOf, CellOf, r, q, s

\* A row begins with a slot.
LEMMA RowStart ==
    ASSUME NEW w \in Widths, NEW o \in 0 .. (PAGE_SIZE - 1)
    PROVE  /\ o - (o % COLS) \in Slots(w)
           /\ (o - (o % COLS)) % COLS = 0
           /\ RowOf(o - (o % COLS)) = RowOf(o)
  <1> DEFINE r == RowOf(o)
             s == o - (o % COLS)
  <1>1. o \in Nat /\ w \in Nat \ {0} /\ COLS \in Nat \ {0} /\ COLS % w = 0
    BY Sizes, WidthFacts, CellsFillRow, PageMemAssumption
  <1>2. s = COLS * r /\ r \in Nat /\ s \in Nat /\ o % COLS \in Nat
    BY <1>1, Coordinates
  <1>3. s <= o
    BY <1>1, <1>2
  <1> HIDE DEF r, s
  <1>4. s % COLS = 0 /\ s \div COLS = r
    <2>1. 0 \in 0 .. (COLS - 1) /\ s = (COLS * r) + 0
      BY <1>1, <1>2
    <2> QED
      BY <1>1, <1>2, <2>1, DivisionIsUnique
  <1>5. s % w = 0
    BY <1>1, <1>2, <1>4, MultipleOfMultiple
  <1>6. s \in Slots(w)
    BY <1>2, <1>3, <1>5, Sizes DEF Slots
  <1> QED
    BY <1>4, <1>6 DEF RowOf, r, s

\* Different slots have different places, different rows different numbers.
LEMMA PlacesAreUnique ==
    ASSUME NEW w \in Widths, NEW o \in Slots(w), NEW p \in Slots(w),
           RowOf(o) = RowOf(p)
    PROVE  /\ CellOf(o, w) = CellOf(p, w) => o = p
           /\ (o % COLS = 0 /\ p % COLS = 0) => o = p
  <1>1. o \in Nat /\ p \in Nat /\ o % w = 0 /\ p % w = 0
    BY Sizes DEF Slots
  <1>2. /\ o - (o % COLS) = COLS * RowOf(o) /\ o % COLS = (w * CellOf(o, w)) + (o % w)
        /\ w * CellOf(o, w) \in Nat
        /\ o % COLS \in Nat
    BY <1>1, Coordinates
  <1>3. /\ p - (p % COLS) = COLS * RowOf(p) /\ p % COLS = (w * CellOf(p, w)) + (p % w)
        /\ p % COLS \in Nat
    BY <1>1, Coordinates
  <1>4. o - (o % COLS) = p - (p % COLS)
    BY <1>2, <1>3
  <1>5. CellOf(o, w) = CellOf(p, w) => o % COLS = p % COLS
    BY <1>1, <1>2, <1>3
  <1>6. o % COLS = p % COLS => o = p
    <2> DEFINE c == o % COLS
               d == p % COLS
    <2>1. c \in Nat /\ d \in Nat /\ o - c = p - d
      BY <1>2, <1>3, <1>4
    <2> HIDE DEF c, d
    <2>2. c = d => o = p
      BY <1>1, <2>1
    <2> QED
      BY <2>2 DEF c, d
  <1> QED
    BY <1>5, <1>6

-----------------------------------------------------------------------------
(* What the strings cover.                                                 *)

\* The string covers these columns of this row, and nothing else.
Spans(s, row, first, last) ==
    /\ s.row = row
    /\ \A at \in Int : at - s.column + 1 \in DOMAIN s.text <=> at \in first .. last

\* The column at which a cell begins.
CellColumn(q, w) == PAGEMEM_DATA_COLUMN + q * PageCoreGetCellDisplayWidth(w)

\* Cells have a width, and they end before the preview.
LEMMA CellsFitBeforePreview ==
    ASSUME NEW w \in Widths, NEW q \in 0 .. ((COLS \div w) - 1)
    PROVE  /\ PageCoreGetCellDisplayWidth(w) \in Nat
           /\ PageCoreGetCellDisplayWidth(w) = (2 * w) + 1
           /\ PageCoreGetCellDisplayWidth(w) >= 3
           /\ q * PageCoreGetCellDisplayWidth(w) \in Nat
           /\ CellColumn(q, w) \in Nat
           /\ CellColumn(q, w) >= PAGEMEM_DATA_COLUMN
           /\ CellColumn(q, w) + PageCoreGetCellDisplayWidth(w)
                <= PAGEMEM_ASCII_PREVIEW_COLUMN
  <1> DEFINE n == COLS \div w
             size == PageCoreGetCellDisplayWidth(w)
  <1>1. w \in Nat \ {0} /\ n \in Nat \ {0} /\ COLS \in Nat /\ COLS = w * n
    BY WidthFacts, CellsFillRow
  <1>2. size = (2 * w) + 1 /\ size \in Nat /\ size >= 3
    BY <1>1 DEF PageCoreGetCellDisplayWidth
  <1>3. q \in Nat /\ q + 1 <= n
    BY <1>1
  <1> HIDE DEF n, size
  <1>4. q * size \in Nat /\ (q * size) + size = (q + 1) * size
    BY <1>2, <1>3, SMTT(20)
  <1>5. (q + 1) * size <= n * size
    BY <1>1, <1>2, <1>3, SMTT(20)
  <1>6. n * size = (2 * (w * n)) + n
    BY <1>1, <1>2, SMTT(20)
  <1>7. n <= w * n
    BY <1>1, SMTT(20)
  <1>8. n * size <= 3 * COLS
    BY <1>1, <1>6, <1>7
  <1>9. (q * size) + size <= 3 * COLS
    <2> DEFINE x == q * size
               y == (q + 1) * size
               z == n * size
    <2>1. x \in Nat /\ x + size = y /\ y <= z /\ z <= 3 * COLS /\ y \in Int /\ z \in Int
      BY <1>1, <1>2, <1>3, <1>4, <1>5, <1>6, <1>8
    <2> HIDE DEF x, y, z
    <2>2. x + size <= 3 * COLS
      BY <1>1, <1>2, <2>1
    <2> QED
      BY <2>2 DEF x
  <1>10. 4 + (3 * COLS) <= 54
    BY PageTextAssumption DEF PAGEMEM_DATA_COLUMN, PAGEMEM_ASCII_PREVIEW_COLUMN
  <1>11. /\ 4 + (q * size) \in Nat /\ 4 + (q * size) >= 4
         /\ (4 + (q * size)) + size <= 54
    <2> DEFINE x == q * size
    <2>1. x \in Nat /\ x + size <= 3 * COLS
      BY <1>4, <1>9
    <2> HIDE DEF x
    <2>2. 4 + x \in Nat /\ 4 + x >= 4 /\ (4 + x) + size <= 54
      BY <1>1, <1>2, <1>10, <2>1
    <2> QED
      BY <2>2 DEF x
  <1> QED
    BY <1>2, <1>4, <1>11
       DEF CellColumn, size, PAGEMEM_DATA_COLUMN, PAGEMEM_ASCII_PREVIEW_COLUMN

\* A cell covers its place, with what it holds and the blank behind it.
LEMMA CellSpans ==
    ASSUME NEW w \in Widths, NEW o \in Slots(w)
    PROVE  /\ DrawCell(o, w).column = CellColumn(CellOf(o, w), w)
           /\ DrawCell(o, w).row = PAGEMEM_DATA_ROW + RowOf(o)
           /\ Spans(DrawCell(o, w), PAGEMEM_DATA_ROW + RowOf(o), CellColumn(CellOf(o, w), w),
                    CellColumn(CellOf(o, w), w) + PageCoreGetCellDisplayWidth(w) - 1)
  <1> DEFINE q == CellOf(o, w)
             size == PageCoreGetCellDisplayWidth(w)
             first == CellColumn(q, w)
             s == DrawCell(o, w)
  <1>1. o \in Nat
    BY Sizes DEF Slots
  <1>2. q \in 0 .. ((COLS \div w) - 1)
    BY <1>1, Coordinates
  <1>3. size \in Nat /\ first \in Nat
    BY <1>2, CellsFitBeforePreview
  <1>4. s.column = first /\ s.row = PAGEMEM_DATA_ROW + RowOf(o)
    BY CellsFillRow DEF DrawCell, String, GetCellPosition, CellColumn, CellOf, RowOf
  <1>5. DOMAIN s.text = 1 .. size
    BY DEF DrawCell, String, BuildInvalidCellString, PageCoreFormatValueLE, Digits
  <1> HIDE DEF q, size, first, s
  <1>6. \A at \in Int : at - first + 1 \in 1 .. size <=> at \in first .. (first + size - 1)
    BY <1>3
  <1>7. Spans(s, PAGEMEM_DATA_ROW + RowOf(o), first, first + size - 1)
    BY <1>4, <1>5, <1>6 DEF Spans
  <1> QED
    BY <1>4, <1>7, Zenon DEF q, size, first, s

\* The prefix of a row covers its first three columns.
LEMMA PrefixSpans ==
    ASSUME NEW o \in Nat
    PROVE  /\ Spans(RowPrefix(o), PAGEMEM_DATA_ROW + RowOf(o), 0, 2)
           /\ RowPrefix(o).column = 0
           /\ RowPrefix(o).text[1] = HexPair(o)[1]
           /\ RowPrefix(o).text[2] = HexPair(o)[2]
  <1>1. \A a, b, c : Append(<<a, b>>, c) = [k \in 1 .. 3 |-> IF k = 3 THEN c ELSE <<a, b>>[k]]
    OBVIOUS
  <1>2. /\ DOMAIN RowPrefix(o).text = 1 .. 3
        /\ RowPrefix(o).text[1] = HexPair(o)[1]
        /\ RowPrefix(o).text[2] = HexPair(o)[2]
    BY <1>1 DEF RowPrefix, String, HexPair
  <1>3. RowPrefix(o).row = PAGEMEM_DATA_ROW + RowOf(o) /\ RowPrefix(o).column = 0
    BY DEF RowPrefix, String, RowOf
  <1> QED
    BY <1>2, <1>3 DEF Spans

\* The preview of a row covers one column for each byte.
LEMMA PreviewSpans ==
    ASSUME NEW o \in Nat
    PROVE  Spans(AsciiPreview(o), PAGEMEM_DATA_ROW + RowOf(o), PAGEMEM_ASCII_PREVIEW_COLUMN,
                 PAGEMEM_ASCII_PREVIEW_COLUMN + COLS - 1)
  <1>1. DOMAIN AsciiPreview(o).text = 1 .. COLS
    BY DEF AsciiPreview, String
  <1>2. /\ AsciiPreview(o).row = PAGEMEM_DATA_ROW + RowOf(o)
        /\ AsciiPreview(o).column = 54
    BY DEF AsciiPreview, String, RowOf, PAGEMEM_ASCII_PREVIEW_COLUMN
  <1>3. \A at \in Int : at - 54 + 1 \in 1 .. COLS <=> at \in 54 .. (54 + COLS - 1)
    BY ColsAssumption
  <1> QED
    BY <1>1, <1>2, <1>3 DEF Spans, PAGEMEM_ASCII_PREVIEW_COLUMN

-----------------------------------------------------------------------------
(* No string is printed over another.                                      *)

\* The string covers the position.
CoversPlace(s, row, at) == s.row = row /\ at - s.column + 1 \in DOMAIN s.text

\* What covers a position of a data row: a cell of the row, the prefix of the
\* row or its preview.
LEMMA WhatCovers ==
    ASSUME cursor.Width \in Widths, NEW r \in Nat, NEW at \in Int,
           NEW s \in Printed, CoversPlace(s, PAGEMEM_DATA_ROW + r, at)
    PROVE  \E o \in Slots(cursor.Width) :
              /\ RowOf(o) = r
              /\ \/ /\ s = DrawCell(o, cursor.Width)
                    /\ at \in CellColumn(CellOf(o, cursor.Width), cursor.Width) ..
                              (CellColumn(CellOf(o, cursor.Width), cursor.Width)
                               + PageCoreGetCellDisplayWidth(cursor.Width) - 1)
                 \/ o % COLS = 0 /\ s = RowPrefix(o) /\ at \in 0 .. 2
                 \/ /\ o % COLS = 0 /\ s = AsciiPreview(o)
                    /\ at \in PAGEMEM_ASCII_PREVIEW_COLUMN ..
                              (PAGEMEM_ASCII_PREVIEW_COLUMN + COLS - 1)
  <1> DEFINE w == cursor.Width
  <1>1. s.row = 3 + r /\ at - s.column + 1 \in DOMAIN s.text
    BY DEF CoversPlace, PAGEMEM_DATA_ROW
  <1>2. s # MemoryHeader(w)
    <2>1. MemoryHeader(w).row = 2
      BY DEF MemoryHeader, String, PAGEMEM_HEADER_ROW
    <2> QED
      BY <1>1, <2>1
  <1>3. \A o \in Slots(w) : o \in Nat /\ RowOf(o) \in Nat
    BY Sizes, Coordinates DEF Slots
  <1>4. CASE \E o \in Slots(w) : s = DrawCell(o, w)
    <2>1. PICK o \in Slots(w) : s = DrawCell(o, w)
      BY <1>4
    <2>2. Spans(s, PAGEMEM_DATA_ROW + RowOf(o), CellColumn(CellOf(o, w), w),
                CellColumn(CellOf(o, w), w) + PageCoreGetCellDisplayWidth(w) - 1)
      BY <2>1, CellSpans
    <2>3. RowOf(o) = r
      BY <1>1, <1>3, <2>2 DEF Spans, PAGEMEM_DATA_ROW
    <2>4. at \in CellColumn(CellOf(o, w), w) ..
                (CellColumn(CellOf(o, w), w) + PageCoreGetCellDisplayWidth(w) - 1)
      BY <1>1, <2>2 DEF Spans
    <2> QED
      BY <2>1, <2>3, <2>4
  <1>5. CASE \E o \in Slots(w) : o % COLS = 0 /\ s = RowPrefix(o)
    <2>1. PICK o \in Slots(w) : o % COLS = 0 /\ s = RowPrefix(o)
      BY <1>5
    <2>2. Spans(s, PAGEMEM_DATA_ROW + RowOf(o), 0, 2)
      BY <1>3, <2>1, PrefixSpans
    <2>3. RowOf(o) = r /\ at \in 0 .. 2
      BY <1>1, <1>3, <2>2 DEF Spans, PAGEMEM_DATA_ROW
    <2> QED
      BY <2>1, <2>3
  <1>6. CASE \E o \in Slots(w) : o % COLS = 0 /\ s = AsciiPreview(o)
    <2>1. PICK o \in Slots(w) : o % COLS = 0 /\ s = AsciiPreview(o)
      BY <1>6
    <2>2. Spans(s, PAGEMEM_DATA_ROW + RowOf(o), PAGEMEM_ASCII_PREVIEW_COLUMN,
                PAGEMEM_ASCII_PREVIEW_COLUMN + COLS - 1)
      BY <1>3, <2>1, PreviewSpans
    <2>3. RowOf(o) = r
      BY <1>1, <1>3, <2>2 DEF Spans, PAGEMEM_DATA_ROW
    <2>4. at \in PAGEMEM_ASCII_PREVIEW_COLUMN .. (PAGEMEM_ASCII_PREVIEW_COLUMN + COLS - 1)
      BY <1>1, <2>2 DEF Spans
    <2> QED
      BY <2>1, <2>3, <2>4
  <1> QED
    BY <1>2, <1>4, <1>5, <1>6 DEF Printed

\* Only the prefix of the row covers the first columns.
LEMMA PrefixAlone ==
    ASSUME cursor.Width \in Widths, NEW o \in Slots(cursor.Width), o % COLS = 0,
           NEW at \in 0 .. 2,
           NEW s \in Printed, CoversPlace(s, PAGEMEM_DATA_ROW + RowOf(o), at)
    PROVE  s = RowPrefix(o)
  <1> DEFINE w == cursor.Width
  <1>1. \A p \in Slots(w) : p \in Nat /\ RowOf(p) \in Nat /\ CellOf(p, w) \in 0 .. ((COLS \div w) - 1)
    BY Sizes, Coordinates DEF Slots
  <1>2. PICK p \in Slots(w) :
              /\ RowOf(p) = RowOf(o)
              /\ \/ at \in CellColumn(CellOf(p, w), w) ..
                           (CellColumn(CellOf(p, w), w) + PageCoreGetCellDisplayWidth(w) - 1)
                 \/ p % COLS = 0 /\ s = RowPrefix(p)
                 \/ at \in 54 .. (54 + COLS - 1)
    BY <1>1, WhatCovers DEF PAGEMEM_ASCII_PREVIEW_COLUMN
  <1>3. CellColumn(CellOf(p, w), w) \in Nat /\ CellColumn(CellOf(p, w), w) >= 4
    BY <1>1, CellsFitBeforePreview DEF PAGEMEM_DATA_COLUMN
  <1>4. p % COLS = 0 /\ s = RowPrefix(p)
    BY <1>2, <1>3
  <1> QED
    BY <1>2, <1>4, PlacesAreUnique

\* Only the preview of the row covers the columns from 54 on.
LEMMA PreviewAlone ==
    ASSUME cursor.Width \in Widths, NEW o \in Slots(cursor.Width), o % COLS = 0,
           NEW at \in Nat, at >= PAGEMEM_ASCII_PREVIEW_COLUMN,
           NEW s \in Printed, CoversPlace(s, PAGEMEM_DATA_ROW + RowOf(o), at)
    PROVE  s = AsciiPreview(o)
  <1> DEFINE w == cursor.Width
             size == PageCoreGetCellDisplayWidth(w)
  <1>1. \A p \in Slots(w) : p \in Nat /\ RowOf(p) \in Nat /\ CellOf(p, w) \in 0 .. ((COLS \div w) - 1)
    BY Sizes, Coordinates DEF Slots
  <1>2. PICK p \in Slots(w) :
              /\ RowOf(p) = RowOf(o)
              /\ \/ at \in CellColumn(CellOf(p, w), w) .. (CellColumn(CellOf(p, w), w) + size - 1)
                 \/ at \in 0 .. 2
                 \/ p % COLS = 0 /\ s = AsciiPreview(p)
    BY <1>1, WhatCovers
  <1>3. /\ CellColumn(CellOf(p, w), w) \in Nat /\ size \in Nat
        /\ CellColumn(CellOf(p, w), w) + size <= 54
    BY <1>1, CellsFitBeforePreview DEF PAGEMEM_ASCII_PREVIEW_COLUMN
  <1>4. p % COLS = 0 /\ s = AsciiPreview(p)
    <2> HIDE DEF size
    <2> QED
      BY <1>2, <1>3 DEF PAGEMEM_ASCII_PREVIEW_COLUMN
  <1> QED
    BY <1>2, <1>4, PlacesAreUnique

\* Two cells of a row have no column in common.
LEMMA ColumnsApart ==
    ASSUME NEW w \in Widths, NEW at \in Nat,
           NEW p \in 0 .. ((COLS \div w) - 1), NEW q \in 0 .. ((COLS \div w) - 1),
           at \in CellColumn(p, w) .. (CellColumn(p, w) + PageCoreGetCellDisplayWidth(w) - 1),
           at \in CellColumn(q, w) .. (CellColumn(q, w) + PageCoreGetCellDisplayWidth(w) - 1)
    PROVE  p = q
  <1> DEFINE size == PageCoreGetCellDisplayWidth(w)
  <1>1. size \in Nat \ {0} /\ p \in Nat /\ q \in Nat
    BY CellsFitBeforePreview, CellsFillRow
  <1> SUFFICES ASSUME NEW k \in 0 .. ((COLS \div w) - 1),
                      at \in CellColumn(k, w) .. (CellColumn(k, w) + size - 1)
               PROVE  (at - 4) \div size = k
    BY Zenon
  <1>2. k \in Nat /\ size * k \in Nat /\ k * size = size * k
    <2>1. k \in Nat
      BY CellsFillRow
    <2> HIDE DEF size
    <2> QED
      BY <1>1, <2>1, SMTT(20)
  <1>3. CellColumn(k, w) = 4 + (size * k)
    BY <1>2 DEF CellColumn, PAGEMEM_DATA_COLUMN
  <1> DEFINE x == (at - 4) - (size * k)
             y == size * k
  <1>4. x \in 0 .. (size - 1) /\ at - 4 = y + x
    <2> HIDE DEF size
    <2>1. y \in Nat /\ x = (at - 4) - y /\ at \in (4 + y) .. ((4 + y) + size - 1)
      BY <1>2, <1>3
    <2> HIDE DEF x, y
    <2> QED
      BY <1>1, <2>1
  <1> HIDE DEF size, x
  <1> QED
    BY <1>1, <1>2, <1>4, DivisionIsUnique

\* Only the cell itself covers its columns.
LEMMA CellAlone ==
    ASSUME cursor.Width \in Widths, NEW o \in Slots(cursor.Width),
           NEW at \in Nat,
           at \in CellColumn(CellOf(o, cursor.Width), cursor.Width) ..
                    (CellColumn(CellOf(o, cursor.Width), cursor.Width)
                     + PageCoreGetCellDisplayWidth(cursor.Width) - 1),
           NEW s \in Printed, CoversPlace(s, PAGEMEM_DATA_ROW + RowOf(o), at)
    PROVE  s = DrawCell(o, cursor.Width)
  <1> DEFINE w == cursor.Width
             size == PageCoreGetCellDisplayWidth(w)
  <1>1. \A p \in Slots(w) : p \in Nat /\ RowOf(p) \in Nat /\ CellOf(p, w) \in 0 .. ((COLS \div w) - 1)
    BY Sizes, Coordinates DEF Slots
  <1>2. PICK p \in Slots(w) :
              /\ RowOf(p) = RowOf(o)
              /\ \/ /\ s = DrawCell(p, w)
                    /\ at \in CellColumn(CellOf(p, w), w) .. (CellColumn(CellOf(p, w), w) + size - 1)
                 \/ at \in 0 .. 2
                 \/ at \in 54 .. (54 + COLS - 1)
    BY <1>1, WhatCovers DEF PAGEMEM_ASCII_PREVIEW_COLUMN
  <1>3. /\ CellColumn(CellOf(o, w), w) \in Nat /\ CellColumn(CellOf(o, w), w) >= 4
        /\ size \in Nat /\ CellColumn(CellOf(o, w), w) + size <= 54
    BY <1>1, CellsFitBeforePreview DEF PAGEMEM_ASCII_PREVIEW_COLUMN, PAGEMEM_DATA_COLUMN
  <1>4. at >= 4 /\ at < 54
    <2> HIDE DEF size
    <2> QED
      BY <1>3 DEF size
  <1>5. /\ s = DrawCell(p, w)
        /\ at \in CellColumn(CellOf(p, w), w) .. (CellColumn(CellOf(p, w), w) + size - 1)
    <2> HIDE DEF size
    <2> QED
      BY <1>2, <1>4
  <1>6. CellOf(p, w) = CellOf(o, w)
    BY <1>1, <1>5, ColumnsApart
  <1> QED
    BY <1>2, <1>5, <1>6, PlacesAreUnique

\* Only the header stands in its row.
LEMMA HeaderAlone ==
    ASSUME cursor.Width \in Widths, NEW s \in Printed, s.row = PAGEMEM_HEADER_ROW
    PROVE  s = MemoryHeader(cursor.Width)
  <1> DEFINE w == cursor.Width
  <1>1. \A o \in Slots(w) : o \in Nat /\ RowOf(o) \in Nat
    BY Sizes, Coordinates DEF Slots
  <1>2. \A o \in Slots(w) : /\ DrawCell(o, w).row = 3 + RowOf(o)
                            /\ RowPrefix(o).row = 3 + RowOf(o)
                            /\ AsciiPreview(o).row = 3 + RowOf(o)
    BY <1>1, CellSpans, PrefixSpans, PreviewSpans DEF Spans, PAGEMEM_DATA_ROW
  <1>3. \A o \in Slots(w) : 3 + RowOf(o) # 2
    BY <1>1
  <1> QED
    BY <1>2, <1>3 DEF Printed, PAGEMEM_HEADER_ROW

\* A text is read where one string holds it and no other covers it.
LEMMA ReadsOne ==
    ASSUME NEW strings, NEW s \in strings, NEW row, NEW column \in Int, NEW text,
           s.row = row,
           \A k \in DOMAIN text :
               /\ (column + k - 1) - s.column + 1 \in DOMAIN s.text
               /\ s.text[(column + k - 1) - s.column + 1] = text[k]
               /\ \A t \in strings : CoversPlace(t, row, column + k - 1) => t = s
    PROVE  Reads(strings, row, column, text)
  <1> SUFFICES ASSUME NEW k \in DOMAIN text
               PROVE  LET at == column + k - 1
                          here == {t \in strings : t.row = row /\ at - t.column + 1 \in DOMAIN t.text}
                      IN /\ \A t \in here : t.text[at - t.column + 1] = text[k]
                         /\ Cardinality(here) = 1
    BY DEF Reads
  <1> DEFINE at == column + k - 1
             here == {t \in strings : t.row = row /\ at - t.column + 1 \in DOMAIN t.text}
  <1>1. here = {s}
    BY DEF CoversPlace
  <1>2. Cardinality({s}) = 1
    BY FS_Singleton
  <1>3. s.text[at - s.column + 1] = text[k]
    OBVIOUS
  <1> HIDE DEF here, at
  <1> QED
    BY <1>1, <1>2, <1>3 DEF here, at

-----------------------------------------------------------------------------
(* What is read where.                                                     *)

\* The column at which byte i of a cell stands: the last byte comes first.
ByteColumn(q, i, w) == CellColumn(q, w) + 2 * (w - 1 - i)

\* The two digits of byte i among those of the cell.
LEMMA DigitsOfByte ==
    ASSUME NEW w \in Nat \ {0}, NEW i \in 0 .. (w - 1), NEW bytes, NEW k \in 1 .. 2
    PROVE  /\ 2 * (w - 1 - i) + k \in 1 .. (2 * w)
           /\ 2 * (w - 1 - i) + k \in 1 .. PageCoreGetCellDisplayWidth(w)
           /\ Digits(bytes, w)[2 * (w - 1 - i) + k] = HexPair(bytes[i])[k]
           /\ BuildInvalidCellString(w)[2 * (w - 1 - i) + k] = Mark("?")
  <1> DEFINE at == 2 * (w - 1 - i) + k
  <1>1. at \in 1 .. (2 * w) /\ at \in 1 .. ((w * 2) + 1) /\ ~ (at > 2 * w)
    OBVIOUS
  <1>2. (at - 1) \div 2 = w - 1 - i /\ 1 + ((at - 1) % 2) = k
    OBVIOUS
  <1>3. w - 1 - ((at - 1) \div 2) = i
    BY <1>2
  <1> HIDE DEF at
  <1>4. Digits(bytes, w)[at] = HexPair(bytes[i])[k]
    BY <1>1, <1>2, <1>3 DEF Digits, PageCoreGetCellDisplayWidth
  <1>5. BuildInvalidCellString(w)[at] = Mark("?")
    BY <1>1 DEF BuildInvalidCellString, PageCoreGetCellDisplayWidth
  <1> QED
    BY <1>1, <1>4, <1>5 DEF at, PageCoreGetCellDisplayWidth

\* The byte's two columns lie in its cell.
LEMMA ByteColumnInCell ==
    ASSUME NEW w \in Widths, NEW q \in 0 .. ((COLS \div w) - 1), NEW i \in 0 .. (w - 1),
           NEW k \in 1 .. 2
    PROVE  /\ ByteColumn(q, i, w) \in PAGEMEM_DATA_COLUMN .. (PAGEMEM_ASCII_PREVIEW_COLUMN - 2)
           /\ ByteColumn(q, i, w) + k - 1 \in Nat
           /\ ByteColumn(q, i, w) + k - 1
                 \in CellColumn(q, w) .. (CellColumn(q, w) + PageCoreGetCellDisplayWidth(w) - 1)
           /\ (ByteColumn(q, i, w) + k - 1) - CellColumn(q, w) + 1 = 2 * (w - 1 - i) + k
  <1> DEFINE first == CellColumn(q, w)
             size == PageCoreGetCellDisplayWidth(w)
  <1>1. /\ first \in Nat /\ first >= 4 /\ size = (2 * w) + 1 /\ first + size <= 54
        /\ w \in Nat \ {0}
    BY CellsFitBeforePreview, WidthFacts DEF PAGEMEM_DATA_COLUMN, PAGEMEM_ASCII_PREVIEW_COLUMN
  <1>2. ByteColumn(q, i, w) = first + 2 * (w - 1 - i)
    BY DEF ByteColumn
  <1> HIDE DEF first, size
  <1>3. /\ first + 2 * (w - 1 - i) \in 4 .. 52
        /\ first + 2 * (w - 1 - i) + k - 1 \in Nat
        /\ first + 2 * (w - 1 - i) + k - 1 \in first .. (first + size - 1)
        /\ (first + 2 * (w - 1 - i) + k - 1) - first + 1 = 2 * (w - 1 - i) + k
    BY <1>1
  <1>4. /\ ByteColumn(q, i, w) \in 4 .. (54 - 2)
        /\ ByteColumn(q, i, w) + k - 1 \in Nat
        /\ ByteColumn(q, i, w) + k - 1 \in first .. (first + size - 1)
        /\ (ByteColumn(q, i, w) + k - 1) - first + 1 = 2 * (w - 1 - i) + k
    BY <1>2, <1>3
  <1> QED
    BY <1>4, Zenon DEF first, size, PAGEMEM_DATA_COLUMN, PAGEMEM_ASCII_PREVIEW_COLUMN

\* The prefix of its row holds the offset at which the row begins.
LEMMA PrefixIsRead ==
    ASSUME cursor.Width \in Widths, NEW o \in 0 .. (PAGE_SIZE - 1)
    PROVE  Reads(Printed, PAGEMEM_DATA_ROW + RowOf(o), 0, HexPair(o - (o % COLS)))
  <1> DEFINE p == o - (o % COLS)
             s == RowPrefix(p)
  <1>1. p \in Slots(cursor.Width) /\ p % COLS = 0 /\ RowOf(p) = RowOf(o) /\ p \in Nat
    BY RowStart DEF Slots
  <1> HIDE DEF p
  <1>2. s \in Printed
    BY <1>1 DEF Printed
  <1>3. /\ s.row = PAGEMEM_DATA_ROW + RowOf(o) /\ s.column = 0
        /\ s.text[1] = HexPair(p)[1] /\ s.text[2] = HexPair(p)[2]
        /\ Spans(s, PAGEMEM_DATA_ROW + RowOf(o), 0, 2)
    BY <1>1, PrefixSpans DEF Spans
  <1>4. DOMAIN HexPair(p) = 1 .. 2
    BY DEF HexPair
  <1>5. ASSUME NEW k \in DOMAIN HexPair(p)
        PROVE  /\ (0 + k - 1) - s.column + 1 \in DOMAIN s.text
               /\ s.text[(0 + k - 1) - s.column + 1] = HexPair(p)[k]
               /\ \A t \in Printed : CoversPlace(t, PAGEMEM_DATA_ROW + RowOf(o), 0 + k - 1) => t = s
    <2>1. 0 + k - 1 \in 0 .. 2 /\ 0 + k - 1 \in Int /\ (0 + k - 1) - 0 + 1 = k /\ k \in {1, 2}
      BY <1>4
    <2>2. (0 + k - 1) - s.column + 1 \in DOMAIN s.text
      BY <1>3, <2>1 DEF Spans
    <2>3. s.text[(0 + k - 1) - s.column + 1] = HexPair(p)[k]
      BY <1>3, <2>1
    <2> QED
      BY <1>1, <2>1, <2>2, <2>3, PrefixAlone
  <1>6. Reads(Printed, PAGEMEM_DATA_ROW + RowOf(o), 0, HexPair(p))
    <2>1. 0 \in Int
      OBVIOUS
    <2> HIDE DEF s
    <2> QED
      BY <1>2, <1>3, <1>5, <2>1, ReadsOne, Zenon
  <1> QED
    BY <1>6 DEF p

\* The header holds the offset of the byte in its row.
LEMMA HeaderIsRead ==
    ASSUME cursor.Width \in Widths, NEW o \in 0 .. (PAGE_SIZE - 1)
    PROVE  Reads(Printed, PAGEMEM_HEADER_ROW,
                 ByteColumn(CellOf(o, cursor.Width), o % cursor.Width, cursor.Width),
                 HexPair(o % COLS))
  <1> DEFINE w == cursor.Width
             q == CellOf(o, w)
             i == o % w
             n == COLS \div w
             size == PageCoreGetCellDisplayWidth(w)
             s == MemoryHeader(w)
             column == ByteColumn(q, i, w)
             bytes == [b \in 0 .. (w - 1) |-> ((q * w) + b) % 256]
  <1>1. /\ w \in Widths /\ w \in Nat \ {0} /\ n \in Nat \ {0} /\ o \in Nat
        /\ q \in 0 .. (n - 1) /\ i \in 0 .. (w - 1)
        /\ o % COLS = (w * q) + i /\ o % COLS \in 0 .. (COLS - 1)
    <2>1. w \in Widths /\ o \in Nat
      BY Sizes
    <2>2. w \in Nat \ {0} /\ n \in Nat \ {0}
      BY <2>1, WidthFacts, CellsFillRow
    <2> QED
      BY <2>1, <2>2, Coordinates, Zenon
  <1>2. s \in Printed /\ s.row = PAGEMEM_HEADER_ROW /\ s.column = 4
    BY DEF Printed, MemoryHeader, String, PAGEMEM_DATA_COLUMN
  <1>3. DOMAIN s.text = 1 .. (n * size)
    BY DEF MemoryHeader, String
  <1>4. size \in Nat \ {0} /\ size >= 3 /\ q * size \in Nat /\ size = (2 * w) + 1
    BY <1>1, CellsFitBeforePreview
  <1>5. bytes[i] = o % COLS
    <2>1. w * q = q * w /\ w * q \in Nat
      <3>1. q \in Nat
        BY <1>1
      <3> HIDE DEF q
      <3> QED
        BY <1>1, <3>1, SMTT(20)
    <2>2. o % COLS \in 0 .. 255
      <3>1. COLS <= 256
        BY PageTextAssumption, ColsAssumption
           DEF PAGEMEM_DATA_COLUMN, PAGEMEM_ASCII_PREVIEW_COLUMN
      <3> DEFINE c == o % COLS
      <3>2. c \in 0 .. (COLS - 1)
        BY <1>1
      <3> HIDE DEF c
      <3>3. c \in 0 .. 255
        BY <3>1, <3>2, ColsAssumption
      <3> QED
        BY <3>3 DEF c
    <2> DEFINE c == o % COLS
               y == q * w
    <2>3. c = y + i /\ c \in 0 .. 255 /\ y \in Nat
      BY <1>1, <2>1, <2>2
    <2>4. bytes[i] = (y + i) % 256
      BY <1>1
    <2> HIDE DEF c, y, bytes
    <2>5. bytes[i] = c
      BY <2>3, <2>4
    <2> QED
      BY <2>5 DEF c
  <1>6. ASSUME NEW k \in 1 .. 2
        PROVE  /\ (column + k - 1) - s.column + 1 \in DOMAIN s.text
               /\ s.text[(column + k - 1) - s.column + 1] = HexPair(o % COLS)[k]
               /\ \A t \in Printed : CoversPlace(t, PAGEMEM_HEADER_ROW, column + k - 1) => t = s
    <2> DEFINE x == 2 * (w - 1 - i) + k
               at == (q * size) + x
    <2>1. x \in 1 .. size /\ Digits(bytes, w)[x] = HexPair(bytes[i])[k]
      <3>1. w \in Nat \ {0} /\ i \in 0 .. (w - 1)
        BY <1>1, Zenon
      <3> HIDE DEF bytes, i
      <3>2. /\ 2 * (w - 1 - i) + k \in 1 .. PageCoreGetCellDisplayWidth(w)
            /\ Digits(bytes, w)[2 * (w - 1 - i) + k] = HexPair(bytes[i])[k]
        BY <3>1, DigitsOfByte
      <3> QED
        BY <3>2, Zenon
    <2>2. (column + k - 1) - s.column + 1 = at
      <3>1. column = CellColumn(q, w) + 2 * (w - 1 - i)
        BY DEF ByteColumn
      <3>2. CellColumn(q, w) = 4 + (q * size)
        BY DEF CellColumn, PAGEMEM_DATA_COLUMN
      <3> DEFINE z == q * size
                 j == 2 * (w - 1 - i)
      <3>3. column = (4 + z) + j /\ s.column = 4 /\ at = z + (j + k) /\ z \in Nat /\ j \in Int
        BY <1>1, <1>2, <1>4, <3>1, <3>2
      <3> HIDE DEF z, j, column, s, at
      <3> QED
        BY <3>3
    <2>3. at \in 1 .. (n * size)
      <3> HIDE DEF q, n, size, x
      <3>a. q \in Nat /\ q + 1 <= n /\ n \in Nat /\ size \in Nat
        BY <1>1, <1>4
      <3>b. (q + 1) * size = (q * size) + size
        BY <3>a, SMTT(20)
      <3>c. (q + 1) * size <= n * size
        BY <3>a, SMTT(20)
      <3>1. (q + 1) * size <= n * size /\ (q + 1) * size = (q * size) + size
        BY <3>b, <3>c
      <3>2. n * size \in Int
        BY <1>1, <1>4
      <3> DEFINE y == q * size
                 z == n * size
      <3>3. y + size <= z /\ y \in Nat /\ z \in Int
        BY <1>4, <3>1, <3>2
      <3> HIDE DEF y, z
      <3>4. y + x \in 1 .. z
        BY <1>4, <2>1, <3>3
      <3> QED
        BY <3>4 DEF y, z
    <2>4. (at - 1) \div size = q /\ 1 + ((at - 1) % size) = x
      <3> HIDE DEF q, n, size, x
      <3>a. q \in Nat
        BY <1>1
      <3>b. q * size = size * q
        BY <1>4, <3>a, SMTT(20)
      <3>1. x - 1 \in 0 .. (size - 1) /\ q \in Nat /\ q * size = size * q
        BY <1>4, <2>1, <3>a, <3>b
      <3>2. ((size * q) + (x - 1)) \div size = q /\ ((size * q) + (x - 1)) % size = x - 1
        <4> DEFINE y == x - 1
        <4>1. y \in 0 .. (size - 1) /\ size \in Nat \ {0}
          BY <1>4, <3>1
        <4> HIDE DEF y
        <4>2. ((size * q) + y) \div size = q /\ ((size * q) + y) % size = y
          BY <3>a, <4>1, DivisionIsUnique
        <4> QED
          BY <4>2 DEF y
      <3> DEFINE y == q * size
      <3>3. y \in Nat /\ at - 1 = y + (x - 1)
        BY <1>4, <2>1
      <3>4. (at - 1) \div size = q /\ (at - 1) % size = x - 1
        BY <3>1, <3>2, <3>3
      <3> QED
        BY <2>1, <3>4, <1>4
    <2>5. s.text[at] = PageCoreFormatOffsetHeader(((at - 1) \div size) * w, w)[1 + ((at - 1) % size)]
      <3> HIDE DEF at
      <3> QED
        BY <2>3 DEF MemoryHeader, String
    <2>6. s.text[at] = Digits(bytes, w)[x]
      <3>1. PageCoreFormatOffsetHeader(q * w, w) = Digits(bytes, w)
        BY DEF PageCoreFormatOffsetHeader
      <3> HIDE DEF at, x, q, w, s, bytes, size
      <3> QED
        BY <2>4, <2>5, <3>1
    <2>7. \A t \in Printed : CoversPlace(t, PAGEMEM_HEADER_ROW, column + k - 1) => t = s
      BY HeaderAlone DEF CoversPlace
    <2> HIDE DEF at, x, s, bytes, column, q, i
    <2> QED
      BY <1>3, <1>5, <2>1, <2>2, <2>3, <2>6, <2>7
  <1>7. DOMAIN HexPair(o % COLS) = 1 .. 2
    BY DEF HexPair
  <1>8. column \in Int
    <2>1. 1 \in 1 .. 2
      OBVIOUS
    <2>2. column \in PAGEMEM_DATA_COLUMN .. (PAGEMEM_ASCII_PREVIEW_COLUMN - 2)
      BY <1>1, <2>1, ByteColumnInCell, Zenon
    <2> HIDE DEF column
    <2> QED
      BY <2>2 DEF PAGEMEM_DATA_COLUMN, PAGEMEM_ASCII_PREVIEW_COLUMN
  <1>9. Reads(Printed, PAGEMEM_HEADER_ROW, column, HexPair(o % COLS))
    <2> HIDE DEF s, column
    <2> QED
      BY <1>2, <1>6, <1>7, <1>8, ReadsOne
  <1> QED
    BY <1>9

\* A content begins with the byte at its address.
LEMMA ContentBegins ==
    ASSUME NEW a \in Nat, NEW n \in Nat \ {0}
    PROVE  /\ Min(DOMAIN Content(a, n)) = a
           /\ Content(a, n) # Masked
           /\ \A i \in 0 .. (n - 1) : Content(a, n)[a + i] = memory[a + i]
  <1> DEFINE S == a .. (a + n - 1)
  <1>1. DOMAIN Content(a, n) = S
    BY DEF Content
  <1>2. S \in SUBSET Nat /\ a \in S /\ \A y \in S : a <= y
    OBVIOUS
  <1>3. Min(S) = a
    <2>1. Min(S) \in S /\ \A y \in S : Min(S) <= y
      <3> HIDE DEF S
      <3> QED
        BY <1>2, LeastElement
    <2> QED
      BY <1>2, <2>1
  <1>4. \A i \in 0 .. (n - 1) : a + i \in S
    OBVIOUS
  <1>5. Content(a, n) # Masked
    BY <1>1, <1>2 DEF Masked
  <1> QED
    BY <1>1, <1>3, <1>4, <1>5 DEF Content

\* The cell holds the byte, or question marks, in the byte's columns.
LEMMA CellIsRead ==
    ASSUME TypeOK, NoStaleValueShown, AtPrompt, NEW o \in 0 .. (PAGE_SIZE - 1)
    PROVE  Reads(Printed, PAGEMEM_DATA_ROW + RowOf(o),
                 ByteColumn(CellOf(o, cursor.Width), o % cursor.Width, cursor.Width),
                 IF screen.cells[Slot(cursor, o)] = Masked THEN <<Mark("?"), Mark("?")>>
                 ELSE HexPair(memory[cursor.Address + o]))
  <1> DEFINE w == cursor.Width
             q == CellOf(o, w)
             i == o % w
             p == Slot(cursor, o)
             s == DrawCell(p, w)
             column == ByteColumn(q, i, w)
             row == PAGEMEM_DATA_ROW + RowOf(o)
             masked == screen.cells[p] = Masked
             text == IF masked THEN <<Mark("?"), Mark("?")>>
                     ELSE HexPair(memory[cursor.Address + o])
  <1>1. /\ w \in Widths /\ w \in Nat \ {0} /\ cursor.Address \in Nat /\ o \in Nat
        /\ PAGE_SIZE \in Nat
    BY WidthFacts, ViewPageFits, Sizes DEF TypeOK, Cursors
  <1>2. p \in Slots(w) /\ RowOf(p) = RowOf(o) /\ CellOf(p, w) = q
    BY <1>1, SlotOfOffset DEF Slot
  <1>3. q \in 0 .. ((COLS \div w) - 1) /\ i \in 0 .. (w - 1)
    BY <1>1, Coordinates, Zenon
  <1>4. p \in 0 .. (PAGE_SIZE - 1) /\ p + i = o /\ p \in Nat
    <2>1. p = o - i
      BY DEF Slot, AlignDown
    <2>2. p \in 0 .. (PAGE_SIZE - 1)
      BY <1>2 DEF Slots
    <2> HIDE DEF p, i
    <2> QED
      BY <1>1, <1>3, <2>1, <2>2
  <1>5. /\ s \in Printed /\ s.row = row /\ s.column = CellColumn(q, w)
        /\ Spans(s, row, CellColumn(q, w),
                 CellColumn(q, w) + PageCoreGetCellDisplayWidth(w) - 1)
    <2> HIDE DEF p
    <2>1. s \in Printed
      BY <1>2 DEF Printed
    <2> QED
      BY <1>1, <1>2, <2>1, CellSpans
  <1>6. ASSUME ~masked, NEW k \in 1 .. 2
        PROVE  s.text[2 * (w - 1 - i) + k] = HexPair(memory[cursor.Address + o])[k]
    <2> DEFINE a == cursor.Address + p
               bytes == [b \in 0 .. (w - 1) |-> screen.cells[p][Min(DOMAIN screen.cells[p]) + b]]
    <2>1. screen.cells[p] = Content(a, w)
      BY <1>4, <1>6 DEF NoStaleValueShown
    <2>2. a \in Nat /\ a + i = cursor.Address + o
      <3> HIDE DEF p, i
      <3> QED
        BY <1>1, <1>3, <1>4
    <2>3. /\ Min(DOMAIN Content(a, w)) = a
          /\ \A b \in 0 .. (w - 1) : Content(a, w)[a + b] = memory[a + b]
      <3> HIDE DEF a, w
      <3> QED
        BY <1>1, <2>2, ContentBegins
    <2>4. s.text = Digits(bytes, w)
      BY <1>6 DEF DrawCell, String, PageCoreFormatValueLE
    <2>5. bytes[i] = memory[cursor.Address + o]
      <3>1. bytes[i] = screen.cells[p][Min(DOMAIN screen.cells[p]) + i]
        BY <1>3
      <3> HIDE DEF bytes, a, p, i, w
      <3> QED
        BY <1>3, <2>1, <2>2, <2>3, <3>1
    <2>6. Digits(bytes, w)[2 * (w - 1 - i) + k] = HexPair(bytes[i])[k]
      <3>1. w \in Nat \ {0} /\ i \in 0 .. (w - 1)
        BY <1>1, <1>3
      <3> HIDE DEF bytes, i
      <3>2. /\ 2 * (w - 1 - i) + k \in 1 .. PageCoreGetCellDisplayWidth(w)
            /\ Digits(bytes, w)[2 * (w - 1 - i) + k] = HexPair(bytes[i])[k]
        BY <3>1, DigitsOfByte
      <3> QED
        BY <3>2
    <2> HIDE DEF s, bytes, i, w
    <2> QED
      BY <2>4, <2>5, <2>6
  <1>7. masked => s.text = BuildInvalidCellString(w)
    BY DEF DrawCell, String
  <1>8. DOMAIN text = 1 .. 2
    BY DEF HexPair
  <1>9. ASSUME NEW k \in DOMAIN text
        PROVE  /\ (column + k - 1) - s.column + 1 \in DOMAIN s.text
               /\ s.text[(column + k - 1) - s.column + 1] = text[k]
               /\ \A t \in Printed : CoversPlace(t, row, column + k - 1) => t = s
    <2>1. k \in 1 .. 2
      BY <1>8
    <2>2. /\ column + k - 1 \in Nat
          /\ column + k - 1 \in CellColumn(q, w) ..
                (CellColumn(q, w) + PageCoreGetCellDisplayWidth(w) - 1)
          /\ (column + k - 1) - CellColumn(q, w) + 1 = 2 * (w - 1 - i) + k
      <3> HIDE DEF q, i, w
      <3> QED
        BY <1>1, <1>3, <2>1, ByteColumnInCell
    <2>3. (column + k - 1) - s.column + 1 \in DOMAIN s.text
      <3> HIDE DEF s, column, row
      <3> QED
        BY <1>5, <2>2 DEF Spans
    <2>4. ASSUME masked
          PROVE  s.text[(column + k - 1) - s.column + 1] = text[k]
      <3>1. BuildInvalidCellString(w)[2 * (w - 1 - i) + k] = Mark("?")
        <4> HIDE DEF i, w
        <4> QED
          BY <1>1, <1>3, <2>1, DigitsOfByte
      <3>2. text[k] = Mark("?")
        BY <2>1, <2>4
      <3>3. s.text[(column + k - 1) - s.column + 1] = Mark("?")
        <4> HIDE DEF s, column, masked
        <4> QED
          BY <1>5, <1>7, <2>2, <2>4, <3>1
      <3> QED
        BY <3>2, <3>3, Zenon
    <2>5. ASSUME ~masked
          PROVE  s.text[(column + k - 1) - s.column + 1] = text[k]
      <3>1. text[k] = HexPair(memory[cursor.Address + o])[k]
        BY <2>5
      <3>2. s.text[2 * (w - 1 - i) + k] = HexPair(memory[cursor.Address + o])[k]
        BY <1>6, <2>1, <2>5
      <3>3. s.text[(column + k - 1) - s.column + 1] = HexPair(memory[cursor.Address + o])[k]
        <4> HIDE DEF s, column, i, w
        <4> QED
          BY <1>5, <2>2, <3>2
      <3> QED
        BY <3>1, <3>3, Zenon
    <2>6. ASSUME NEW t \in Printed, CoversPlace(t, row, column + k - 1) PROVE t = s
      <3> HIDE DEF p, q, column
      <3> QED
        BY <1>1, <1>2, <2>2, <2>6, CellAlone
    <2> QED
      BY <2>3, <2>4, <2>5, <2>6, Zenon
  <1>10. column \in Int
    <2>1. 1 \in 1 .. 2
      OBVIOUS
    <2>2. column \in PAGEMEM_DATA_COLUMN .. (PAGEMEM_ASCII_PREVIEW_COLUMN - 2)
      BY <1>1, <1>3, <2>1, ByteColumnInCell, Zenon
    <2> HIDE DEF column
    <2> QED
      BY <2>2 DEF PAGEMEM_DATA_COLUMN, PAGEMEM_ASCII_PREVIEW_COLUMN
  <1>11. Reads(Printed, row, column, text)
    <2> HIDE DEF s, column, row, text
    <2> QED
      BY <1>5, <1>9, <1>10, ReadsOne, Zenon
  <1> QED
    BY <1>11, Zenon

\* The preview holds the byte's character, or a dot, at the byte's place.
LEMMA CharacterIsRead ==
    ASSUME TypeOK, PreviewIsCurrent, AtPrompt, NEW o \in 0 .. (PAGE_SIZE - 1)
    PROVE  Reads(Printed, PAGEMEM_DATA_ROW + RowOf(o), PAGEMEM_ASCII_PREVIEW_COLUMN + (o % COLS),
                 IF screen.preview[o] = Masked THEN <<Mark(".")>>
                 ELSE << <<"ascii", memory[cursor.Address + o]>> >>)
  <1> DEFINE p == o - (o % COLS)
             c == o % COLS
             s == AsciiPreview(p)
             row == PAGEMEM_DATA_ROW + RowOf(o)
             column == PAGEMEM_ASCII_PREVIEW_COLUMN + c
             masked == screen.preview[o] = Masked
             text == IF masked THEN <<Mark(".")>>
                     ELSE << <<"ascii", memory[cursor.Address + o]>> >>
  <1>1. /\ cursor.Width \in Widths /\ cursor.Address \in Nat /\ o \in Nat /\ COLS \in Nat \ {0}
    BY ViewPageFits, Sizes, ColsAssumption DEF TypeOK, Cursors
  <1>2. p \in Slots(cursor.Width) /\ p % COLS = 0 /\ RowOf(p) = RowOf(o) /\ p \in Nat
    BY <1>1, RowStart DEF Slots
  <1>3. c \in 0 .. (COLS - 1)
    BY <1>1
  <1>4. p + (c + 1) - 1 = o
    BY <1>1, <1>3
  <1>5. s \in Printed /\ s.row = row /\ s.column = 54
    <2> HIDE DEF p
    <2> QED
      BY <1>2 DEF Printed, AsciiPreview, String, RowOf, PAGEMEM_ASCII_PREVIEW_COLUMN
  <1>6. DOMAIN s.text = 1 .. COLS /\ s.text[c + 1] = PreviewChar(screen.preview[o])
    <2> HIDE DEF p, c
    <2>1. c + 1 \in 1 .. COLS
      BY <1>1, <1>3
    <2>2. /\ DOMAIN s.text = 1 .. COLS
          /\ s.text[c + 1] = PreviewChar(screen.preview[p + (c + 1) - 1])
      BY <2>1 DEF AsciiPreview, String
    <2> QED
      BY <1>4, <2>2
  <1>7. PreviewChar(screen.preview[o]) = text[1] /\ DOMAIN text = {1}
    <2>1. CASE masked
      BY <2>1 DEF PreviewChar
    <2>2. CASE ~masked
      <3> DEFINE a == cursor.Address + o
      <3>1. a \in Nat /\ 1 \in Nat \ {0} /\ 0 \in 0 .. (1 - 1) /\ a + 0 = a
        BY <1>1
      <3>2. screen.preview[o] = Content(a, 1)
        BY <2>2 DEF PreviewIsCurrent
      <3> HIDE DEF a
      <3>3. Min(DOMAIN Content(a, 1)) = a /\ Content(a, 1)[a + 0] = memory[a + 0]
        BY <3>1, ContentBegins
      <3>4. PreviewChar(screen.preview[o]) = <<"ascii", memory[a]>>
        BY <2>2, <3>1, <3>2, <3>3 DEF PreviewChar
      <3> QED
        BY <2>2, <3>4 DEF a
    <2> QED
      BY <2>1, <2>2
  <1>8. ASSUME NEW k \in DOMAIN text
        PROVE  /\ (column + k - 1) - s.column + 1 \in DOMAIN s.text
               /\ s.text[(column + k - 1) - s.column + 1] = text[k]
               /\ \A t \in Printed : CoversPlace(t, row, column + k - 1) => t = s
    <2>1. k = 1
      BY <1>7
    <2>2. /\ column + k - 1 = 54 + c /\ (column + k - 1) - s.column + 1 = c + 1
          /\ c + 1 \in 1 .. COLS /\ 54 + c \in Nat /\ 54 + c >= 54
      <3> HIDE DEF c, s
      <3> QED
        BY <1>1, <1>3, <1>5, <2>1 DEF PAGEMEM_ASCII_PREVIEW_COLUMN
    <2>3. ASSUME NEW t \in Printed, CoversPlace(t, row, column + k - 1) PROVE t = s
      <3>1. CoversPlace(t, PAGEMEM_DATA_ROW + RowOf(p), 54 + c)
        BY <1>2, <2>2, <2>3
      <3> HIDE DEF p, c
      <3> QED
        BY <1>1, <1>2, <2>2, <3>1, PreviewAlone DEF PAGEMEM_ASCII_PREVIEW_COLUMN
    <2>4. /\ (column + k - 1) - s.column + 1 \in DOMAIN s.text
          /\ s.text[(column + k - 1) - s.column + 1] = text[k]
      <3> HIDE DEF s, column, c, text
      <3> QED
        BY <1>6, <1>7, <2>1, <2>2
    <2> QED
      BY <2>3, <2>4, Zenon
  <1>9. column \in Int
    BY <1>1, <1>3 DEF PAGEMEM_ASCII_PREVIEW_COLUMN
  <1>10. Reads(Printed, row, column, text)
    <2> HIDE DEF s, column, row, text, p, c, masked
    <2> QED
      BY <1>5, <1>8, <1>9, ReadsOne
  <1> QED
    BY <1>10, Zenon

\* At the prompt the user finds every byte of the page where the row's prefix
\* and the header say, in the cell and in the preview, for every width, every
\* size of the page and every partial redraw since it was drawn.
THEOREM BytesAreUnderTheirOffsets == Spec => []BytesStandUnderTheirOffsets
  <1>1. TypeOK /\ NoStaleValueShown /\ PreviewIsCurrent => BytesStandUnderTheirOffsets
    <2> SUFFICES ASSUME TypeOK, NoStaleValueShown, PreviewIsCurrent, AtPrompt,
                        NEW o \in 0 .. (PAGE_SIZE - 1)
                 PROVE  \E row \in PAGEMEM_DATA_ROW .. (PAGEMEM_DATA_ROW + PAGE_SIZE),
                           column \in PAGEMEM_DATA_COLUMN .. (PAGEMEM_ASCII_PREVIEW_COLUMN - 2) :
                          /\ Reads(Printed, row, 0, HexPair(o - (o % COLS)))
                          /\ Reads(Printed, PAGEMEM_HEADER_ROW, column, HexPair(o % COLS))
                          /\ Reads(Printed, row, column,
                                   IF screen.cells[Slot(cursor, o)] = Masked
                                   THEN <<Mark("?"), Mark("?")>>
                                   ELSE HexPair(memory[cursor.Address + o]))
                          /\ Reads(Printed, row, PAGEMEM_ASCII_PREVIEW_COLUMN + (o % COLS),
                                   IF screen.preview[o] = Masked THEN <<Mark(".")>>
                                   ELSE << <<"ascii", memory[cursor.Address + o]>> >>)
      BY DEF BytesStandUnderTheirOffsets
    <2> DEFINE w == cursor.Width
               row == PAGEMEM_DATA_ROW + RowOf(o)
               column == ByteColumn(CellOf(o, w), o % w, w)
    <2>1. w \in Widths /\ o \in Nat /\ 1 \in 1 .. 2
      BY Sizes DEF TypeOK, Cursors
    <2>2. row \in PAGEMEM_DATA_ROW .. (PAGEMEM_DATA_ROW + PAGE_SIZE)
      <3> DEFINE r == RowOf(o)
      <3>1. /\ COLS \in Nat \ {0} /\ r \in Nat /\ COLS * r \in Nat
            /\ o - (o % COLS) = COLS * r /\ o % COLS \in Nat /\ PAGE_SIZE \in Nat
        <4>1. /\ r \in Nat /\ COLS * r \in Nat
              /\ o - (o % COLS) = COLS * r /\ o % COLS \in 0 .. (COLS - 1)
          BY <2>1, Coordinates, Zenon
        <4>2. o % COLS \in Nat
          BY <2>1, ColsAssumption
        <4> QED
          BY <4>1, <4>2, ColsAssumption, Sizes, Zenon
      <3> HIDE DEF r
      <3>2. r <= COLS * r
        BY <3>1, SMTT(20)
      <3>3. r <= PAGE_SIZE
        <4> DEFINE x == COLS * r
                   c == o % COLS
        <4>1. r <= x /\ o - c = x /\ x \in Nat /\ c \in Nat
          BY <3>1, <3>2
        <4> HIDE DEF x, c
        <4> QED
          BY <2>1, <3>1, <4>1
      <3>4. 3 + r \in 3 .. (3 + PAGE_SIZE)
        BY <3>1, <3>3
      <3> QED
        BY <3>4 DEF r, PAGEMEM_DATA_ROW
    <2>3. column \in PAGEMEM_DATA_COLUMN .. (PAGEMEM_ASCII_PREVIEW_COLUMN - 2)
      BY <2>1, Coordinates, ByteColumnInCell, Zenon
    <2>4. /\ Reads(Printed, row, 0, HexPair(o - (o % COLS)))
          /\ Reads(Printed, PAGEMEM_HEADER_ROW, column, HexPair(o % COLS))
      BY <2>1, PrefixIsRead, HeaderIsRead, Zenon
    <2>5. /\ Reads(Printed, row, column,
                   IF screen.cells[Slot(cursor, o)] = Masked THEN <<Mark("?"), Mark("?")>>
                   ELSE HexPair(memory[cursor.Address + o]))
          /\ Reads(Printed, row, PAGEMEM_ASCII_PREVIEW_COLUMN + (o % COLS),
                   IF screen.preview[o] = Masked THEN <<Mark(".")>>
                   ELSE << <<"ascii", memory[cursor.Address + o]>> >>)
      BY CellIsRead, CharacterIsRead, Zenon
    <2> HIDE DEF row, column
    <2> QED
      BY <2>2, <2>3, <2>4, <2>5, Zenon
  <1> QED
    BY <1>1, TypeCorrect, CellsAreCurrent, PreviewColumnIsCurrent, PTL
=============================================================================
