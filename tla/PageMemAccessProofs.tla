------------------------- MODULE PageMemAccessProofs -------------------------
(***************************************************************************)
(* What PageMem touches, for every map, width and sequence of attribute    *)
(* changes: reads stay inside readable regions, writes are allowed at the  *)
(* moment they are made, and the title row's type is that of the page.     *)
(***************************************************************************)
EXTENDS PageMemProofs

-----------------------------------------------------------------------------
(* The library's checks. *)

\* A page count that passes the overflow check has a size in 64 bits.
LEMMA PagesFit ==
    ASSUME NEW k \in Nat, k <= MaxU64 \div EFI_PAGE
    PROVE  k * EFI_PAGE \in Nat /\ k * EFI_PAGE <= MaxU64
  <1> DEFINE q == MaxU64 \div EFI_PAGE
  <1>1. MaxU64 \in Nat /\ EFI_PAGE \in Nat \ {0}
    BY Sizes
  <1>2. q \in Nat /\ MaxU64 = (EFI_PAGE * q) + (MaxU64 % EFI_PAGE)
    BY <1>1, DivisionIdentity
  <1>3. MaxU64 % EFI_PAGE \in Nat
    BY <1>1
  <1> HIDE DEF q
  <1>4. k <= q
    BY DEF q
  <1>5. k * EFI_PAGE <= EFI_PAGE * q
    BY <1>1, <1>2, <1>4
  <1>6. EFI_PAGE * q \in Nat /\ k * EFI_PAGE \in Nat
    BY <1>1, <1>2
  <1> QED
    BY <1>1, <1>2, <1>3, <1>5, <1>6

\* The descriptor FindDescriptorForRange returns is one that contains the
\* range, without overflow in its end.
LEMMA FoundDescriptorCovers ==
    ASSUME NEW m \in MemoryMaps \cup {<<>>}, NEW a \in Nat, NEW n \in Nat,
           DescriptorsForRange(m, a, n) # {}
    PROVE  LET i == Min(DescriptorsForRange(m, a, n)) IN
           /\ i \in DOMAIN m
           /\ i # 0
           /\ m[i].start \in Nat /\ m[i].pages * EFI_PAGE \in Nat
           /\ m[i].start <= a
           /\ a + n <= m[i].start + m[i].pages * EFI_PAGE
  <1> DEFINE found == DescriptorsForRange(m, a, n)
             i == Min(found)
  <1>1. m \in Seq(EfiDescriptor)
    <2>1. ASSUME m = <<>> PROVE FALSE
      <3>1. DOMAIN m = {}
        BY <2>1
      <3> QED
        BY <3>1 DEF DescriptorsForRange
    <2> QED
      BY <2>1, PageMemAssumption
  <1>2. found # {} /\ found \in SUBSET Nat /\ found \subseteq DOMAIN m /\ DOMAIN m \subseteq Nat \ {0}
    BY <1>1 DEF DescriptorsForRange
  <1>3. i \in found
    <2> HIDE DEF found
    <2> QED
      BY <1>2, LeastElement
  <1>4. /\ i \in DOMAIN m /\ i # 0
        /\ m[i] \in EfiDescriptor
        /\ m[i].pages <= MaxU64 \div EFI_PAGE
        /\ Covers(m[i], a, n)
    <2> HIDE DEF i
    <2> QED
      BY <1>1, <1>2, <1>3 DEF DescriptorsForRange
  <1> HIDE DEF i
  <1>5. m[i].pages \in Nat /\ m[i].start \in Nat
    BY <1>4, Sizes DEF EfiDescriptor, Word
  <1>6. DescriptorSize(m[i]) = m[i].pages * EFI_PAGE
    <2> DEFINE size == m[i].pages * EFI_PAGE
    <2>1. size \in Nat /\ size <= MaxU64
      BY <1>4, <1>5, PagesFit
    <2>2. DescriptorSize(m[i]) = Wrap(size)
      BY DEF DescriptorSize
    <2> HIDE DEF size
    <2>3. Wrap(size) = size
      BY <2>1, WrapIsWord, Sizes DEF Word
    <2> QED
      BY <2>2, <2>3 DEF size
  <1>7. m[i].pages * EFI_PAGE \in Nat
    BY <1>4, <1>5, PagesFit
  <1> QED
    BY <1>4, <1>5, <1>6, <1>7 DEF Covers, DescriptorEnd, i

\* Where GetMemoryAttributes has one answer, it is that of each address of
\* the range.
LEMMA AnswerIsUniform ==
    ASSUME NEW fw, NEW a \in Nat, NEW n \in Nat,
           NEW x \in Word, a <= x, x < a + n,
           GetMemoryAttributes(fw, a, n) # NoAnswer
    PROVE  fw.attrs[AlignDown(x, EFI_PAGE)] = GetMemoryAttributes(fw, a, n)
  <1> DEFINE p == AlignDown(x, EFI_PAGE)
             spanned == {q \in EfiPages : q < a + n /\ a < q + EFI_PAGE}
             answers == {fw.attrs[q] : q \in spanned}
  <1>1. x \in Nat /\ EFI_PAGE \in Nat \ {0} /\ MaxU64 \in Nat
    BY Sizes DEF Word
  <1>2. p \in Nat /\ p <= x /\ x < p + EFI_PAGE /\ p % EFI_PAGE = 0
    BY <1>1, AlignDownBounds, AlignDownIsMultiple
  <1> HIDE DEF p
  <1>3. p \in spanned
    BY <1>1, <1>2 DEF EfiPages, Word
  <1> HIDE DEF spanned
  <1>4. fw.attrs[p] \in answers
    BY <1>3
  <1>5. GetMemoryAttributes(fw, a, n) =
          IF \E y \in answers : answers = {y} THEN CHOOSE y \in answers : TRUE ELSE NoAnswer
    BY DEF GetMemoryAttributes, spanned
  <1> HIDE DEF answers
  <1>6. PICK y \in answers : answers = {y}
    BY <1>5
  <1>7. (CHOOSE z \in answers : TRUE) \in answers
    BY <1>6
  <1> QED
    BY <1>4, <1>5, <1>6, <1>7 DEF p

\* The cursor's address does not wrap.
LEMMA CursorAddress ==
    ASSUME NEW c \in Cursors, NEW o \in 0 .. (PAGE_SIZE - 1)
    PROVE  Wrap(c.Address + o) = c.Address + o /\ c.Address + o \in Nat
  <1> DEFINE a == c.Address + o
  <1>1. c.Address \in Nat /\ c.Address + PAGE_SIZE <= MaxU64 + 1
    BY ViewPageFits DEF Cursors
  <1>2. a \in Nat /\ a \in Word
    BY <1>1, Sizes DEF Word
  <1> HIDE DEF a
  <1>3. Wrap(a) = a
    BY <1>2, WrapIsWord
  <1> QED
    BY <1>2, <1>3 DEF a

-----------------------------------------------------------------------------
(* Writes. *)

\* A value is asked for in the editing state only.
EditMode == pc = "editHex" => mode = "EDITING"

\* No step asks for a value in another state.
LEMMA StepEditMode == EditMode /\ [Next]_vars => EditMode'
  BY DEF EditMode, Next, vars, EnterPage, EnterFails, DrawAndWait, ArrowKey, WidthKey,
         EditKey, EditRefused, EditSubmit, EditFails, EditCancel, EditEnds, GotoKey,
         GotoSubmit, GotoCancel, GotoEnds, PageDownKey, PageUpKey, MoveToPage,
         RangesKey, RangesReturn, OtherKey, EscKey, FirmwareSetsAttributes

\* Bytes of a range that IsRangeWritable accepts may be written, together.
LEMMA WritableRangeIsAllowed ==
    ASSUME TypeOK, NEW a \in Nat, NEW w \in Nat,
           IsRangeWritable(memMap, firmware, a, w),
           NEW bytes \in SUBSET Word, \A x \in bytes : a <= x /\ x < a + w
    PROVE  WriteAllowedNow(bytes)
  <1> DEFINE answer == GetMemoryAttributes(firmware, a, w)
             found == DescriptorsForRange(memMap, a, w)
  <1>1. /\ firmware.present
        /\ answer # NoAnswer
        /\ "RO" \notin answer
        /\ found # {}
        /\ memMap[Min(found)].type \in RamTypes
    BY DEF IsRangeWritable, QueryMemoryAccess, AccessUnknown, IsToolRangeWritable,
           WritableTypes
  <1>2. ASSUME NEW x \in bytes PROVE AttributesAllowWrite(x)
    <2>1. firmware.attrs[AlignDown(x, EFI_PAGE)] = answer
      BY <1>1, AnswerIsUniform
    <2> HIDE DEF answer, found
    <2> QED
      BY <1>1, <2>1 DEF AttributesAllowWrite
  <1>3. memMap \in MemoryMaps \cup {<<>>}
    BY DEF TypeOK
  <1> DEFINE i == Min(found)
             size == memMap[i].pages * EFI_PAGE
  <1>4. /\ i \in DOMAIN memMap
        /\ memMap[i].start \in Nat /\ size \in Nat
        /\ memMap[i].start <= a
        /\ a + w <= memMap[i].start + size
    BY <1>1, <1>3, FoundDescriptorCovers
  <1>5. ASSUME NEW x \in bytes PROVE memMap[i].start <= x /\ x < memMap[i].start + size
    <2>1. x \in Nat
      BY Sizes DEF Word
    <2> HIDE DEF i, size
    <2> QED
      BY <1>4, <2>1
  <1> HIDE DEF found, answer
  <1> QED
    BY <1>1, <1>2, <1>4, <1>5 DEF WriteAllowedNow

\* The step that stores a value stores it where it may be stored.
LEMMA StepWritesAllowed ==
    ASSUME TypeOK, EditMode, [Next]_vars, ChangedBytes # {}
    PROVE  /\ mode = "EDITING"
           /\ WriteAllowedNow(ChangedBytes)
           /\ \A x \in ChangedBytes :
                 /\ cursor.Address + cursor.Offset <= x
                 /\ x < cursor.Address + cursor.Offset + cursor.Width
  <1>0. PICK y \in Word : memory'[y] # memory[y]
    BY DEF ChangedBytes
  <1>1. PICK v \in Values(cursor) : EditSubmit(v)
    BY <1>0 DEF Next, vars, EnterPage, EnterFails, DrawAndWait, ArrowKey, WidthKey,
           EditKey, EditRefused, EditFails, EditCancel, GotoKey,
           GotoSubmit, GotoCancel, GotoEnds, PageDownKey, PageUpKey, MoveToPage,
           RangesKey, RangesReturn, OtherKey, EscKey, FirmwareSetsAttributes
  <1> DEFINE a == cursor.Address + cursor.Offset
             w == cursor.Width
  <1>2. cursor \in Cursors /\ cursor.Offset \in 0 .. (PAGE_SIZE - 1) /\ w \in Nat \ {0}
    BY WidthFacts DEF TypeOK, Cursors
  <1>3. PageCoreGetCurrentAddress(cursor) = a /\ a \in Nat
    BY <1>2, CursorAddress DEF PageCoreGetCurrentAddress
  <1> HIDE DEF a, w
  <1>4. ASSUME NEW x \in ChangedBytes PROVE a <= x /\ x < a + w
    <2>1. x \in DOMAIN v
      BY <1>1 DEF EditSubmit, ChangedBytes
    <2>2. DOMAIN v = a .. (a + w - 1)
      BY <1>3 DEF Values, w
    <2> QED
      BY <1>2, <1>3, <2>1, <2>2
  <1>5. IsRangeWritable(memMap, firmware, a, w)
    BY <1>1, <1>3 DEF EditSubmit, MemWriteSucceeds, w
  <1>6. WriteAllowedNow(ChangedBytes)
    <2>1. ChangedBytes \in SUBSET Word
      BY DEF ChangedBytes
    <2> QED
      BY <1>2, <1>3, <1>4, <1>5, <2>1, WritableRangeIsAllowed
  <1>7. mode = "EDITING"
    BY <1>1 DEF EditSubmit, EditMode
  <1> QED
    BY <1>4, <1>6, <1>7 DEF a, w

\* Every write is to the cell under the cursor, all of it in one region of RAM,
\* and allowed by the attributes of the moment, whatever the firmware changed
\* while the value was typed.
THEOREM WritesAreChecked == Spec => WritesAreAllowed
  <1> DEFINE Allowed == ChangedBytes # {} =>
                /\ mode = "EDITING"
                /\ WriteAllowedNow(ChangedBytes)
                /\ \A x \in ChangedBytes :
                      /\ cursor.Address + cursor.Offset <= x
                      /\ x < cursor.Address + cursor.Offset + cursor.Width
  <1>1. Init => EditMode
    BY DEF Init, EditMode
  <1>2. TypeOK /\ EditMode /\ [Next]_vars => [Allowed]_vars
    BY StepWritesAllowed
  <1> HIDE DEF Allowed
  <1>3. Spec => [][Allowed]_vars
    BY <1>1, <1>2, StepEditMode, TypeCorrect, PTL DEF Spec
  <1> QED
    BY <1>3 DEF Allowed, WritesAreAllowed

-----------------------------------------------------------------------------
(* Reads. *)

\* Nothing stays on the screen when the page is left: the map the next
\* opening brings is not held against cells of the last one.
ReadInv ==
    /\ OnlyReadableRegionsAreRead
    /\ pc = "menu" => \A o \in 0 .. (PAGE_SIZE - 1) : /\ screen.cells[o] = Masked
                                                      /\ screen.preview[o] = Masked

\* A masked cell fits any map.
LEMMA MaskedIsReadFrom ==
    ASSUME NEW m
    PROVE  ReadFrom(m, Masked)
  BY DEF ReadFrom

\* What DrawCell shows was read from a readable region.
LEMMA CellTextIsReadable ==
    ASSUME TypeOK, NEW c \in Cursors, NEW o \in 0 .. (PAGE_SIZE - 1)
    PROVE  ReadFrom(memMap, CellText(c, o))
  <1>1. CASE CellText(c, o) = Masked
    BY <1>1 DEF ReadFrom
  <1>2. CASE CellText(c, o) # Masked
    <2> DEFINE a == c.Address + o
               w == c.Width
               found == DescriptorsForRange(memMap, a, w)
               i == Min(found)
               size == memMap[i].pages * EFI_PAGE
    <2>1. Wrap(c.Address + o) = a /\ a \in Nat /\ w \in Nat \ {0}
      BY CursorAddress, WidthFacts DEF Cursors
    <2>2. CellText(c, o) = Content(a, w) /\ IsRangeValid(memMap, firmware, a, w)
      BY <1>2, <2>1 DEF CellText, MemReadSucceeds
    <2>3. found # {} /\ memMap[i].type \in ReadableTypes
      BY <2>2 DEF IsRangeValid, QueryMemoryAccess, AccessUnknown, IsToolRangeReadable
    <2>4. memMap \in MemoryMaps \cup {<<>>}
      BY DEF TypeOK
    <2>5. /\ i \in DOMAIN memMap /\ i # 0
          /\ memMap[i].start \in Nat /\ size \in Nat
          /\ memMap[i].start <= a
          /\ a + w <= memMap[i].start + size
      BY <2>1, <2>3, <2>4, FoundDescriptorCovers
    <2>6. DOMAIN CellText(c, o) = a .. (a + w - 1)
      BY <2>2 DEF Content
    <2> HIDE DEF a, w, i, size
    <2>7. ASSUME NEW x \in DOMAIN CellText(c, o)
          PROVE  memMap[i].start <= x /\ x < memMap[i].start + size
      BY <2>1, <2>5, <2>6
    <2> QED
      BY <2>3, <2>5, <2>7 DEF ReadFrom, size
  <1> QED
    BY <1>1, <1>2

\* What the preview shows was read from a readable region.
LEMMA PreviewTextIsReadable ==
    ASSUME TypeOK, NEW c \in Cursors, NEW o \in 0 .. (PAGE_SIZE - 1)
    PROVE  ReadFrom(memMap, PreviewText(c, o))
  <1>1. [c EXCEPT !.Width = 1] \in Cursors
    BY WidthsAssumption DEF Cursors
  <1> QED
    BY <1>1, CellTextIsReadable DEF PreviewText

\* The fast path of the arrows draws two cells through the same check.
LEMMA ArrowReads ==
    ASSUME TypeOK, ReadInv, NEW arrow \in {"up", "down", "left", "right"},
           ArrowKey(arrow)
    PROVE  \A o \in 0 .. (PAGE_SIZE - 1) : /\ ReadFrom(memMap, screen'.cells[o])
                                           /\ ReadFrom(memMap, screen'.preview[o])
  <1> DEFINE moved == PageCoreMoveCursor(cursor, ArrowDelta(arrow, cursor.Width))
  <1>1. cursor \in Cursors /\ cursor.Offset \in 0 .. (PAGE_SIZE - 1)
    BY DEF TypeOK, Cursors
  <1>2. moved \in Cursors /\ moved.Offset \in 0 .. (PAGE_SIZE - 1)
    BY <1>1, ArrowDeltaIsInt, MoveCursorStaysOnPage DEF Cursors
  <1>3. screen' = screen \/ screen' = MoveHighlight(moved)
    BY DEF ArrowKey
  <1> HIDE DEF moved
  <1>4. /\ ReadFrom(memMap, CellText(moved, cursor.Offset))
        /\ ReadFrom(memMap, CellText(moved, moved.Offset))
    BY <1>1, <1>2, CellTextIsReadable
  <1>5. ASSUME NEW o \in 0 .. (PAGE_SIZE - 1)
        PROVE  MoveHighlight(moved).cells[o] \in
                 {screen.cells[o], CellText(moved, cursor.Offset),
                  CellText(moved, moved.Offset)}
    BY <1>5 DEF MoveHighlight, TypeOK
  <1>6. MoveHighlight(moved).preview = screen.preview
    BY DEF MoveHighlight, TypeOK
  <1> QED
    BY <1>3, <1>4, <1>5, <1>6 DEF ReadInv, OnlyReadableRegionsAreRead

\* No step shows a value that was not read through the library's check.
LEMMA StepReadInv == TypeOK /\ ReadInv /\ [Next]_vars => ReadInv'
  <1> SUFFICES ASSUME TypeOK, ReadInv, [Next]_vars PROVE ReadInv'
    OBVIOUS
  <1> DEFINE Drawn == \A o \in 0 .. (PAGE_SIZE - 1) :
                         /\ ReadFrom(memMap, screen'.cells[o])
                         /\ ReadFrom(memMap, screen'.preview[o])
             Cleared == \A o \in 0 .. (PAGE_SIZE - 1) :
                         /\ screen'.cells[o] = Masked
                         /\ screen'.preview[o] = Masked
             Kept == screen'.cells = screen.cells /\ screen'.preview = screen.preview
  <1>0. "cells" \in DOMAIN screen /\ "preview" \in DOMAIN screen
    BY DEF TypeOK
  <1>1. ASSUME memMap' = memMap, Drawn, pc' # "menu" PROVE ReadInv'
    BY <1>1 DEF ReadInv, OnlyReadableRegionsAreRead
  <1>2. ASSUME Cleared PROVE ReadInv'
    BY <1>2, MaskedIsReadFrom DEF ReadInv, OnlyReadableRegionsAreRead, Masked
  <1>3. ASSUME memMap' = memMap, Kept, pc' # "menu" \/ pc' = pc
        PROVE  ReadInv'
    BY <1>3 DEF ReadInv, OnlyReadableRegionsAreRead, Masked
  <1>4. CASE \E m \in MemoryMaps : EnterPage(m)
    BY <1>2, <1>4 DEF EnterPage, ReadInv
  <1>5. CASE EnterFails
    BY <1>2, <1>5 DEF EnterFails, ReadInv
  <1>6. CASE DrawAndWait
    <2>1. cursor \in Cursors
      BY DEF TypeOK
    <2>2. ReadFrom(memMap, Masked)
      BY MaskedIsReadFrom
    <2>3. \A o \in 0 .. (PAGE_SIZE - 1) : ReadFrom(memMap, DrawPage.cells[o])
      BY <2>1, <2>2, CellTextIsReadable DEF DrawPage
    <2>4. \A o \in 0 .. (PAGE_SIZE - 1) : ReadFrom(memMap, DrawPage.preview[o])
      BY <2>1, PreviewTextIsReadable DEF DrawPage
    <2>5. Drawn
      BY <1>6, <2>3, <2>4 DEF DrawAndWait, ReadInv, OnlyReadableRegionsAreRead
    <2> QED
      BY <1>1, <1>6, <2>5 DEF DrawAndWait, maps
  <1>7. CASE \E arrow \in {"up", "down", "left", "right"} : ArrowKey(arrow)
    <2>1. Drawn
      BY <1>7, ArrowReads
    <2> QED
      BY <1>1, <1>7, <2>1 DEF ArrowKey, maps
  <1>8. CASE \E w \in Widths : WidthKey(w)
    BY <1>3, <1>8 DEF WidthKey, maps
  <1>9. CASE EditKey \/ EditRefused
    BY <1>0, <1>3, <1>9 DEF EditKey, EditRefused, WithError, maps
  <1>10. CASE (\E v \in Values(cursor) : EditSubmit(v)) \/ EditFails \/ EditCancel
    BY <1>0, <1>3, <1>10 DEF EditSubmit, EditFails, EditCancel, EditEnds, WithError, maps
  <1>11. CASE GotoKey \/ (\E a \in Word : GotoSubmit(a)) \/ GotoCancel
    BY <1>0, <1>3, <1>11 DEF GotoKey, GotoSubmit, GotoCancel, GotoEnds, maps
  <1>12. CASE PageDownKey \/ PageUpKey
    BY <1>3, <1>12 DEF PageDownKey, PageUpKey, MoveToPage, maps
  <1>13. CASE RangesKey
    BY <1>2, <1>13 DEF RangesKey, ClearedScreen, Blank
  <1>14. CASE RangesReturn \/ OtherKey
    BY <1>3, <1>14 DEF RangesReturn, OtherKey, maps
  <1>15. CASE EscKey
    BY <1>2, <1>15 DEF EscKey, ClearedScreen, Blank
  <1>16. CASE \E p \in EfiPages, A \in AttributeChoices : FirmwareSetsAttributes(p, A)
    BY <1>3, <1>16 DEF FirmwareSetsAttributes, maps
  <1>17. CASE UNCHANGED vars
    BY <1>3, <1>17 DEF vars
  <1> QED
    BY <1>4, <1>5, <1>6, <1>7, <1>8, <1>9, <1>10, <1>11, <1>12, <1>13, <1>14,
       <1>15, <1>16, <1>17 DEF Next

\* Every value on the screen was read from one region of RAM or ACPI data:
\* MMIO, reserved memory and holes are never read.
THEOREM ReadsAreChecked == Spec => []OnlyReadableRegionsAreRead
  <1>1. Init => ReadInv
    BY DEF Init, ReadInv, ReadFrom, OnlyReadableRegionsAreRead, ClearedScreen, Blank
  <1>2. ReadInv => OnlyReadableRegionsAreRead
    BY DEF ReadInv
  <1> QED
    BY <1>1, <1>2, StepReadInv, TypeCorrect, PTL DEF Spec

-----------------------------------------------------------------------------
(* The type row. *)

\* Each step that changes the page, and no other, looks its type and access
\* up, and only the firmware makes the access old.
LEMMA StepPageInfo ==
    TypeOK /\ PageInfoIsCurrent /\ [Next]_vars => PageInfoIsCurrent'
  <1> SUFFICES ASSUME TypeOK, PageInfoIsCurrent, [Next]_vars
               PROVE  PageInfoIsCurrent'
    OBVIOUS
  <1> USE DEF PageInfoIsCurrent
  <1>1. ASSUME pc # "menu", UNCHANGED <<maps, firmware, attributeChanges>>,
               \/ cursor'.Address = cursor.Address /\ pageInfo' = pageInfo
               \/ pageInfo' = PageInfo(cursor'.Address)
        PROVE  PageInfoIsCurrent'
    BY <1>1 DEF PageInfo, maps
  <1>2. CASE \E m \in MemoryMaps : EnterPage(m)
    BY <1>2 DEF EnterPage, PageInfo, budget
  <1>3. CASE EnterFails
    BY <1>3 DEF EnterFails
  <1>4. CASE DrawAndWait \/ EditKey \/ EditRefused \/ GotoKey \/ GotoCancel
             \/ RangesKey \/ RangesReturn \/ OtherKey
    BY <1>1, <1>4 DEF DrawAndWait, EditKey, EditRefused, GotoKey, GotoCancel, GotoEnds,
                      RangesKey, RangesReturn, OtherKey, budget
  <1>5. CASE \E arrow \in {"up", "down", "left", "right"} : ArrowKey(arrow)
    <2>1. PICK arrow \in {"up", "down", "left", "right"} : ArrowKey(arrow)
      BY <1>5
    <2>2. cursor'.Address = cursor.Address
      BY <2>1, ArrowDeltaIsInt, MoveCursorStaysOnPage DEF ArrowKey, TypeOK, Cursors
    <2> QED
      BY <1>1, <2>1, <2>2 DEF ArrowKey, budget
  <1>6. CASE \E w \in Widths : WidthKey(w)
    <2>1. cursor'.Address = cursor.Address
      BY <1>6 DEF WidthKey, PageCoreSetCursorWidth, TypeOK, Cursors
    <2> QED
      BY <1>1, <1>6, <2>1 DEF WidthKey, budget
  <1>7. CASE (\E v \in Values(cursor) : EditSubmit(v)) \/ EditFails \/ EditCancel
    BY <1>1, <1>7 DEF EditSubmit, EditFails, EditCancel, EditEnds
  <1>8. CASE \E a \in Word : GotoSubmit(a)
    BY <1>1, <1>8 DEF GotoSubmit, GotoEnds, budget
  <1>9. CASE PageDownKey \/ PageUpKey
    <2>1. PICK p : MoveToPage(p)
      BY <1>9 DEF PageDownKey, PageUpKey
    <2>2. CASE p # cursor.Address
      <3>1. cursor'.Address = p /\ pageInfo' = PageInfo(p)
        BY <2>1, <2>2 DEF MoveToPage, TypeOK, Cursors
      <3> QED
        BY <1>1, <2>1, <3>1 DEF MoveToPage, budget
    <2>3. CASE p = cursor.Address
      BY <1>1, <2>1, <2>3 DEF MoveToPage, budget
    <2> QED
      BY <2>2, <2>3
  <1>10. CASE EscKey
    BY <1>10 DEF EscKey
  <1>11. CASE \E p \in EfiPages, A \in AttributeChoices : FirmwareSetsAttributes(p, A)
    <2>1. attributeChanges' # 0
      BY <1>11 DEF FirmwareSetsAttributes, TypeOK
    <2> QED
      BY <1>11, <2>1 DEF FirmwareSetsAttributes, maps
  <1>12. CASE UNCHANGED vars
    BY <1>12 DEF vars, PageInfo
  <1> QED
    BY <1>2, <1>3, <1>4, <1>5, <1>6, <1>7, <1>8, <1>9, <1>10, <1>11, <1>12 DEF Next

\* The type of the title row is that of the page shown, and its access is
\* the live one until the firmware changes an attribute.
THEOREM TitleIsCurrent == Spec => []PageInfoIsCurrent
  <1>1. Init => PageInfoIsCurrent
    BY DEF Init, PageInfoIsCurrent
  <1> QED
    BY <1>1, StepPageInfo, TypeCorrect, PTL DEF Spec

-----------------------------------------------------------------------------
(* The title row and the cells. *)

\* A region holds a part of a view page only with the whole of it: regions
\* begin and end where view pages do.
LEMMA RegionsHoldWholePages ==
    ASSUME NEW m \in MemoryMaps \cup {<<>>}, NEW p \in ViewPages,
           NEW a \in Nat, NEW n \in Nat \ {0}, p <= a, a + n <= p + PAGE_SIZE
    PROVE  /\ DescriptorsForRange(m, a, n) = DescriptorsForRange(m, p, PAGE_SIZE)
           /\ DescriptorsForRange(m, a, n) # {} => p + PAGE_SIZE <= MaxU64
  <1> DEFINE Z == PAGE_SIZE
  <1>1. /\ p \in Nat /\ p % Z = 0
        /\ Z \in Nat \ {0} /\ EFI_PAGE \in Nat \ {0} /\ EFI_PAGE % Z = 0 /\ MaxU64 \in Nat
    BY ViewPageFits, Sizes, SizesAssumption
  <1>2. ASSUME NEW i \in DOMAIN m, m[i].pages <= MaxU64 \div EFI_PAGE
        PROVE  /\ Covers(m[i], a, n) <=> Covers(m[i], p, Z)
               /\ Covers(m[i], a, n) => p + Z <= MaxU64
    <2> DEFINE d == m[i]
               size == d.pages * EFI_PAGE
               end == d.start + size
    <2>1. Conforming(d)
      <3>1. m = <<>> => DOMAIN m = {}
        OBVIOUS
      <3> QED
        BY <3>1, PageMemAssumption
    <2>2. d.start \in Nat /\ d.pages \in Nat /\ d.start % EFI_PAGE = 0
      BY <1>1, <2>1 DEF Conforming, Word
    <2>3. size \in Nat /\ size <= MaxU64 /\ size % EFI_PAGE = 0
      <3>1. size \in Nat /\ size <= MaxU64
        BY <1>2, <2>2, PagesFit
      <3>2. size = EFI_PAGE * d.pages
        BY <1>1, <2>2, SMTT(20)
      <3>3. (EFI_PAGE * d.pages) % EFI_PAGE = 0
        BY <1>1, <2>2, ProductIsMultiple
      <3> HIDE DEF size
      <3> QED
        BY <3>1, <3>2, <3>3
    <2>4. DescriptorSize(d) = size
      <3>1. DescriptorSize(d) = Wrap(size)
        BY DEF DescriptorSize
      <3> HIDE DEF size, d
      <3> QED
        BY <1>1, <2>3, <3>1, WrapIsWord DEF Word
    <2> HIDE DEF size, d
    <2>5. end \in Nat /\ d.start % Z = 0 /\ end % Z = 0
      <3>1. size % Z = 0 /\ d.start % Z = 0
        BY <1>1, <2>2, <2>3, MultipleOfMultiple
      <3>2. (d.start + size) % Z = 0
        BY <1>1, <2>2, <2>3, <3>1, SumOfMultiples
      <3> QED
        BY <2>2, <2>3, <3>1, <3>2
    <2>6. \A b \in Nat, k \in Nat :
             Covers(d, b, k) <=> /\ d.start <= MaxU64 - size
                                 /\ d.start <= b
                                 /\ b + k <= end
      BY <2>4 DEF Covers, EndsInWord, DescriptorEnd
    <2>7. d.start <= a => d.start <= p
      <3>1. ASSUME p < d.start PROVE p + Z <= d.start
        BY <1>1, <2>2, <2>5, <3>1, MultiplesApart
      <3> QED
        BY <1>1, <2>2, <3>1
    <2>8. a + n <= end => p + Z <= end
      <3>1. ASSUME p < end PROVE p + Z <= end
        BY <1>1, <2>5, <3>1, MultiplesApart
      <3> QED
        BY <1>1, <2>5, <3>1
    <2>9. d.start <= MaxU64 - size => end <= MaxU64
      BY <1>1, <2>2, <2>3
    <2> HIDE DEF end
    <2>10. /\ Covers(d, a, n) <=> Covers(d, p, Z)
           /\ Covers(d, a, n) => p + Z <= MaxU64
      BY <1>1, <2>2, <2>5, <2>6, <2>7, <2>8, <2>9
    <2> QED
      BY <2>10 DEF d
  <1> QED
    BY <1>2 DEF DescriptorsForRange

\* The firmware answers for a part of a view page as for the page, which lies
\* in one EFI page.
LEMMA PartHasAnswerOfPage ==
    ASSUME NEW fw, NEW p \in ViewPages,
           NEW a \in Nat, NEW n \in Nat \ {0}, p <= a, a + n <= p + PAGE_SIZE
    PROVE  GetMemoryAttributes(fw, a, n) = GetMemoryAttributes(fw, p, PAGE_SIZE)
  <1>1. /\ p \in Nat /\ p % PAGE_SIZE = 0
        /\ PAGE_SIZE \in Nat \ {0} /\ EFI_PAGE \in Nat \ {0} /\ EFI_PAGE % PAGE_SIZE = 0
    BY ViewPageFits, Sizes, SizesAssumption
  <1>2. ASSUME NEW q \in EfiPages
        PROVE  (q < a + n /\ a < q + EFI_PAGE) <=> (q < p + PAGE_SIZE /\ p < q + EFI_PAGE)
    <2>1. q \in Nat /\ q % EFI_PAGE = 0
      BY Sizes DEF EfiPages, Word
    <2>2. q % PAGE_SIZE = 0 /\ (q + EFI_PAGE) % PAGE_SIZE = 0 /\ q + EFI_PAGE \in Nat
      <3>1. q % PAGE_SIZE = 0
        BY <1>1, <2>1, MultipleOfMultiple
      <3>2. EFI_PAGE \in Nat /\ q + EFI_PAGE \in Nat
        BY <1>1, <2>1
      <3>3. (q + EFI_PAGE) % PAGE_SIZE = 0
        BY <1>1, <2>1, <3>1, <3>2, SumOfMultiples
      <3> QED
        BY <3>1, <3>2, <3>3
    <2>3. q < p + PAGE_SIZE => q <= p
      <3>1. ASSUME p < q PROVE p + PAGE_SIZE <= q
        BY <1>1, <2>1, <2>2, <3>1, MultiplesApart
      <3> QED
        BY <1>1, <2>1, <3>1
    <2>4. p < q + EFI_PAGE => p + PAGE_SIZE <= q + EFI_PAGE
      BY <1>1, <2>1, <2>2, MultiplesApart
    <2> QED
      BY <1>1, <2>1, <2>3, <2>4
  <1>3. {q \in EfiPages : q < a + n /\ a < q + EFI_PAGE} =
        {q \in EfiPages : q < p + PAGE_SIZE /\ p < q + EFI_PAGE}
    BY <1>2
  <1> QED
    BY <1>3, Zenon DEF GetMemoryAttributes

\* So the library answers for a cell what it answers for its page.
LEMMA CellHasAccessOfPage ==
    ASSUME NEW m \in MemoryMaps \cup {<<>>}, NEW fw, NEW p \in ViewPages,
           NEW a \in Nat, NEW n \in Nat \ {0}, p <= a, a + n <= p + PAGE_SIZE
    PROVE  QueryMemoryAccess(m, fw, a, n) = QueryMemoryAccess(m, fw, p, PAGE_SIZE)
  <1> DEFINE cell == DescriptorsForRange(m, a, n)
             page == DescriptorsForRange(m, p, PAGE_SIZE)
  <1>1. p \in Nat /\ PAGE_SIZE \in Nat \ {0} /\ MaxU64 \in Nat
    BY ViewPageFits, Sizes
  <1>2. cell = page /\ (cell # {} => p + PAGE_SIZE <= MaxU64)
    BY RegionsHoldWholePages
  <1>3. GetMemoryAttributes(fw, a, n) = GetMemoryAttributes(fw, p, PAGE_SIZE)
    BY PartHasAnswerOfPage
  <1>4. CASE page = {}
    BY <1>2, <1>4 DEF QueryMemoryAccess
  <1>5. CASE page # {}
    <2>1. /\ n # 0 /\ PAGE_SIZE # 0
          /\ ~ (a > MaxU64 - n) /\ ~ (p > MaxU64 - PAGE_SIZE)
      BY <1>1, <1>2, <1>5
    <2>2. /\ IsToolRangeReadable(m, a, n) = IsToolRangeReadable(m, p, PAGE_SIZE)
          /\ IsToolRangeWritable(m, a, n) = IsToolRangeWritable(m, p, PAGE_SIZE)
      BY <1>2, Zenon DEF IsToolRangeReadable, IsToolRangeWritable
    <2> HIDE DEF cell, page
    <2> QED
      BY <1>2, <1>3, <2>1, <2>2, Zenon DEF QueryMemoryAccess, cell, page
  <1> QED
    BY <1>4, <1>5

\* The first regions of the map, as Core sees them.
LEMMA AdapterMapFacts ==
    ASSUME NEW m \in MemoryMaps \cup {<<>>}
    PROVE  /\ DOMAIN AdapterMap(m) = {j \in DOMAIN m : j <= MaxDescriptors}
           /\ DOMAIN m \subseteq Nat \ {0}
           /\ \A i \in DOMAIN AdapterMap(m) :
                 /\ AdapterMap(m)[i].type = MapMemoryType(m[i].type)
                 /\ AdapterMap(m)[i].UefiType = m[i].type
                 /\ AdapterMap(m)[i].start = m[i].start
                 /\ AdapterMap(m)[i].pages = m[i].pages
                 /\ m[i].type \in EfiTypes
                 /\ Conforming(m[i])
  <1>1. m # <<>> => /\ m \in Seq(EfiDescriptor)
                    /\ \A i \in DOMAIN m : Conforming(m[i])
    BY PageMemAssumption
  <1>2. /\ DOMAIN m \subseteq Nat \ {0}
        /\ \A i \in DOMAIN m : m[i].type \in EfiTypes /\ Conforming(m[i])
    <2>1. CASE m = <<>>
      <3>1. DOMAIN m = {}
        BY <2>1
      <3> QED
        BY <3>1
    <2>2. CASE m # <<>>
      <3>1. m \in Seq(EfiDescriptor)
        BY <1>1, <2>2
      <3>2. DOMAIN m = 1 .. Len(m) /\ \A i \in DOMAIN m : m[i] \in EfiDescriptor
        BY <3>1
      <3>3. \A i \in DOMAIN m : m[i].type \in EfiTypes
        BY <3>2 DEF EfiDescriptor
      <3>4. DOMAIN m \subseteq Nat \ {0}
        BY <3>1, <3>2
      <3> QED
        BY <1>1, <2>2, <3>3, <3>4
    <2> QED
      BY <2>1, <2>2
  <1> QED
    BY <1>2 DEF AdapterMap

\* A region that has a size at all has one that 64 bits hold.
LEMMA CoveringSizeFits ==
    ASSUME NEW d, Conforming(d), d.pages > MaxU64 \div EFI_PAGE,
           NEW a \in Nat, NEW n \in Nat \ {0}
    PROVE  ~ Covers(d, a, n)
  <1> DEFINE q == MaxU64 \div EFI_PAGE
             size == d.pages * EFI_PAGE
  <1>1. /\ MaxU64 \in Nat /\ EFI_PAGE \in Nat \ {0}
        /\ d.start \in Nat /\ d.pages \in Nat \ {0}
        /\ d.start + size <= MaxU64 + 1
    BY Sizes DEF Conforming, Word
  <1>2. /\ q \in Nat /\ MaxU64 = (EFI_PAGE * q) + (MaxU64 % EFI_PAGE)
        /\ MaxU64 % EFI_PAGE < EFI_PAGE
    BY <1>1, DivisionIdentity
  <1>3. size \in Nat
    BY <1>1
  <1>4. (EFI_PAGE * q) + EFI_PAGE <= size
    <2>1. q + 1 <= d.pages
      BY <1>1, <1>2
    <2> HIDE DEF q
    <2>2. EFI_PAGE * (q + 1) <= d.pages * EFI_PAGE
      BY <1>1, <1>2, <2>1, SMTT(20)
    <2>3. EFI_PAGE * (q + 1) = (EFI_PAGE * q) + EFI_PAGE
      BY <1>1, <1>2, SMTT(20)
    <2> QED
      BY <2>2, <2>3
  <1>5. size = MaxU64 + 1
    <2> HIDE DEF size, q
    <2>1. (EFI_PAGE * q) \in Nat /\ (MaxU64 % EFI_PAGE) \in Nat
      BY <1>1, <1>2
    <2> QED
      BY <1>1, <1>2, <1>3, <1>4, <2>1
  <1>6. DescriptorSize(d) = 0
    <2>1. (MaxU64 + 1) % (MaxU64 + 1) = 0
      BY <1>1
    <2> QED
      BY <1>5, <2>1 DEF DescriptorSize, Wrap
  <1>7. d.start = 0
    <2> HIDE DEF size
    <2> QED
      BY <1>1, <1>5
  <1> QED
    BY <1>6, <1>7 DEF Covers, DescriptorEnd

\* The descriptors of the adapter's copy that hold the page are those of the
\* library's map that do and were not dropped; Core lets a cell pass exactly
\* when one of them may be browsed.
LEMMA CoreSeesRegionsKept ==
    ASSUME NEW m \in MemoryMaps \cup {<<>>}, NEW p \in ViewPages,
           NEW a \in Nat, NEW n \in Nat \ {0}, p <= a, a + n <= p + PAGE_SIZE
    PROVE  /\ DescriptorsAt(AdapterMap(m), p) =
                 DescriptorsForRange(m, p, PAGE_SIZE) \cap DOMAIN AdapterMap(m)
           /\ PageCoreIsRangeValid(AdapterMap(m), a, n) <=>
                 \E i \in DescriptorsAt(AdapterMap(m), p) : IsDescriptorValid(AdapterMap(m)[i])
  <1> DEFINE c == AdapterMap(m)
             kept == DescriptorsForRange(m, p, PAGE_SIZE) \cap DOMAIN c
             core(b, k) == {i \in DOMAIN c : c[i].pages # 0 /\ c[i].pages <= MaxU64 \div EFI_PAGE
                                            /\ Covers(c[i], b, k)}
  <1>1. /\ p \in Nat /\ PAGE_SIZE \in Nat \ {0} /\ MaxU64 \in Nat
        /\ p + 1 <= p + PAGE_SIZE
    BY ViewPageFits, Sizes
  <1>2. ASSUME NEW b \in Nat, NEW k \in Nat \ {0}, p <= b, b + k <= p + PAGE_SIZE
        PROVE  /\ core(b, k) = kept
               /\ core(b, k) # {} => p + PAGE_SIZE <= MaxU64
    <2>1. /\ DescriptorsForRange(m, b, k) = DescriptorsForRange(m, p, PAGE_SIZE)
          /\ DescriptorsForRange(m, b, k) # {} => p + PAGE_SIZE <= MaxU64
      BY <1>2, RegionsHoldWholePages
    <2>2. core(b, k) = DescriptorsForRange(m, b, k) \cap DOMAIN c
      <3>1. DOMAIN c \subseteq DOMAIN m
        BY AdapterMapFacts
      <3>2. ASSUME NEW i \in DOMAIN c
            PROVE  Covers(c[i], b, k) <=> Covers(m[i], b, k)
        BY AdapterMapFacts, Zenon DEF Covers, EndsInWord, DescriptorEnd, DescriptorSize
      <3>3. \A i \in DOMAIN c : c[i].pages = m[i].pages
        BY AdapterMapFacts
      <3> HIDE DEF c
      <3> QED
        BY <3>1, <3>2, <3>3 DEF DescriptorsForRange
    <2> HIDE DEF core
    <2> QED
      BY <2>1, <2>2
  <1>3. DescriptorsAt(c, p) = core(p, 1)
    <2>1. ASSUME NEW i \in DOMAIN c
          PROVE  (c[i].start <= p /\ p < DescriptorEnd(c[i])) <=>
                 (c[i].start <= p /\ p + 1 <= DescriptorEnd(c[i]))
      <3>0. c[i].start = m[i].start /\ c[i].pages = m[i].pages /\ Conforming(m[i])
        BY AdapterMapFacts
      <3>1. c[i].start \in Nat /\ c[i].pages \in Nat
        BY <3>0, Sizes DEF Conforming, Word
      <3>2. DescriptorSize(c[i]) \in Nat
        <4>1. c[i].pages * EFI_PAGE \in Int
          BY <3>1, Sizes
        <4> QED
          BY <4>1, WrapIsWord, Sizes DEF DescriptorSize, Word
      <3> QED
        BY <1>1, <3>1, <3>2 DEF DescriptorEnd
    <2> HIDE DEF c
    <2> QED
      BY <2>1 DEF DescriptorsAt, Covers
  <1>4. DescriptorsAt(c, p) = kept
    BY <1>1, <1>2, <1>3
  <1>5. PageCoreIsRangeValid(c, a, n) <=> \E i \in kept : IsDescriptorValid(c[i])
    <2>1. core(a, n) = kept /\ (kept # {} => a <= MaxU64 - n)
      BY <1>1, <1>2
    <2>2. ASSUME NEW i \in DOMAIN c
          PROVE  Covers(c[i], a, n) <=> i \in core(a, n)
      <3>1. /\ c[i].start = m[i].start /\ c[i].pages = m[i].pages
            /\ Conforming(m[i])
        BY AdapterMapFacts
      <3>2. Conforming(c[i]) /\ c[i].pages # 0
        BY <3>1 DEF Conforming
      <3>3. c[i].pages > MaxU64 \div EFI_PAGE => ~ Covers(c[i], a, n)
        <4> HIDE DEF c
        <4> QED
          BY <3>2, CoveringSizeFits
      <3>4. (MaxU64 \div EFI_PAGE) \in Nat /\ c[i].pages \in Nat
        BY <3>2, Sizes, DivisionIdentity DEF Conforming
      <3>5. c[i].pages > MaxU64 \div EFI_PAGE \/ c[i].pages <= MaxU64 \div EFI_PAGE
        BY <3>4
      <3> QED
        BY <3>2, <3>3, <3>5
    <2> HIDE DEF core, c, kept
    <2>3. n # 0
      OBVIOUS
    <2>4. \A i \in kept : i \in DOMAIN c
      BY DEF kept
    <2> QED
      BY <2>1, <2>2, <2>3, <2>4 DEF PageCoreIsRangeValid, ValidDescriptors
  <1> QED
    BY <1>4, <1>5

\* Where the adapter kept the region that the library finds for the page, the
\* type row names its type; where it did not, the type row names none.
LEMMA PageTypeIsKnown ==
    ASSUME NEW m \in MemoryMaps \cup {<<>>}, NEW p \in ViewPages
    PROVE  /\ TypeAt(AdapterMap(m), p) # Unmapped <=> DescriptorsAt(AdapterMap(m), p) # {}
           /\ DescriptorsAt(AdapterMap(m), p) # {} =>
                Min(DescriptorsForRange(m, p, PAGE_SIZE)) \in DescriptorsAt(AdapterMap(m), p)
  <1> DEFINE c == AdapterMap(m)
             at == DescriptorsAt(c, p)
             found == DescriptorsForRange(m, p, PAGE_SIZE)
  <1>1. /\ p \in Nat /\ PAGE_SIZE \in Nat \ {0}
        /\ p <= p /\ p + PAGE_SIZE <= p + PAGE_SIZE
    BY ViewPageFits, Sizes
  <1>2. at = found \cap DOMAIN c
    BY <1>1, CoreSeesRegionsKept
  <1>3. DOMAIN c = {j \in DOMAIN m : j <= MaxDescriptors} /\ DOMAIN m \subseteq Nat \ {0}
    BY AdapterMapFacts
  <1>4. found \in SUBSET Nat /\ found \subseteq DOMAIN m
    BY <1>3 DEF DescriptorsForRange
  <1>5. at # {} => /\ Min(found) \in found
                   /\ \A j \in found : Min(found) <= j
    <2> HIDE DEF found, at, c
    <2> QED
      BY <1>2, <1>4, LeastElement
  <1>6. at # {} => Min(found) \in at
    <2> HIDE DEF found, at, c
    <2>1. MaxDescriptors \in Nat
      BY PageMemAssumption
    <2>2. ASSUME NEW j \in at PROVE Min(found) \in at
      <3>1. j \in found /\ j <= MaxDescriptors /\ Min(found) <= j /\ Min(found) \in found
        BY <1>2, <1>3, <1>5, <2>2
      <3>2. j \in Nat /\ Min(found) \in Nat
        BY <1>4, <3>1, Zenon
      <3>3. \A x \in Nat, y \in Nat : x <= y /\ y <= MaxDescriptors => x <= MaxDescriptors
        BY <2>1
      <3>4. Min(found) <= MaxDescriptors
        BY <3>1, <3>2, <3>3, Zenon
      <3> QED
        BY <1>2, <1>3, <1>4, <3>1, <3>4, Zenon
    <2> QED
      BY <2>2
  <1>7. at # {} => TypeAt(c, p) # Unmapped
    <2>1. at # {} => Min(at) \in at
      <3>1. at \in SUBSET Nat
        BY <1>2, <1>4
      <3> HIDE DEF at
      <3> QED
        BY <3>1, LeastElement
    <2>2. \A i \in DOMAIN c : c[i].UefiType \in EfiTypes
      BY AdapterMapFacts
    <2>3. Unmapped \notin EfiTypes
      BY DEF Unmapped, EfiTypes, RamTypes, AcpiTypes, IoTypes, DarkTypes
    <2> HIDE DEF c
    <2> QED
      BY <1>2, <2>1, <2>2, <2>3 DEF TypeAt
  <1>8. at = {} => TypeAt(c, p) = Unmapped
    BY DEF TypeAt
  <1> QED
    BY <1>6, <1>7, <1>8

\* What the library lets through in a page, Core lets through in each of its
\* cells, exactly when the type row names a type.
LEMMA CoreAgreesOnKnownPages ==
    ASSUME NEW m \in MemoryMaps \cup {<<>>}, NEW p \in ViewPages,
           NEW a \in Nat, NEW n \in Nat \ {0}, p <= a, a + n <= p + PAGE_SIZE,
           IsToolRangeReadable(m, p, PAGE_SIZE) \/ IsToolRangeWritable(m, p, PAGE_SIZE)
    PROVE  PageCoreIsRangeValid(AdapterMap(m), a, n)
             <=> TypeAt(AdapterMap(m), p) # Unmapped
  <1> DEFINE c == AdapterMap(m)
             at == DescriptorsAt(c, p)
             i == Min(DescriptorsForRange(m, p, PAGE_SIZE))
  <1>1. PageCoreIsRangeValid(c, a, n) <=> \E j \in at : IsDescriptorValid(c[j])
    BY CoreSeesRegionsKept
  <1>2. (TypeAt(c, p) # Unmapped <=> at # {}) /\ (at # {} => i \in at)
    BY PageTypeIsKnown
  <1>3. m[i].type \in RamTypes \cup AcpiTypes
    BY DEF IsToolRangeReadable, IsToolRangeWritable, ReadableTypes, WritableTypes
  <1>4. i \in at => IsDescriptorValid(c[i])
    <2>1. i \in at => i \in DOMAIN c
      BY DEF DescriptorsAt
    <2>2. i \in DOMAIN c => c[i].type = MapMemoryType(m[i].type)
      BY AdapterMapFacts
    <2>3. ASSUME NEW t \in RamTypes \cup AcpiTypes
          PROVE  MapMemoryType(t) = t /\ t \in CoreTypes \ {"Other"}
      BY DEF MapMemoryType, CoreTypes, RamTypes, AcpiTypes, IoTypes
    <2> HIDE DEF c, i, at
    <2> QED
      BY <1>3, <2>1, <2>2, <2>3 DEF IsDescriptorValid
  <1> HIDE DEF c, i, at
  <1>5. PageCoreIsRangeValid(c, a, n) <=> TypeAt(c, p) # Unmapped
    BY <1>1, <1>2, <1>4
  <1> QED
    BY <1>5 DEF c

\* The title row tells what reading and editing a cell will do, through Core's
\* check and the library's, on every map, also one that the adapter cut, at
\* every width and for every answer of the firmware.
THEOREM TitleTellsTheAccess == Spec => []TitleTellsAccess
  <1>1. TypeOK => TitleTellsAccess
    <2> SUFFICES ASSUME TypeOK, pc # "menu", pageInfo = PageInfo(cursor.Address),
                        NEW w \in Widths, NEW o \in Slots(w)
                 PROVE  LET c == [cursor EXCEPT !.Width = w, !.Offset = o]
                            known == pageInfo.type # Unmapped
                        IN /\ CellText(c, o) # Masked <=> known /\ pageInfo.access.ReadAllowed
                           /\ (/\ Editable(c)
                               /\ MemWriteSucceeds(memMap, firmware, PageCoreGetCurrentAddress(c), w))
                                 <=> known /\ pageInfo.access.WriteAllowed
      BY DEF TitleTellsAccess
    <2> DEFINE c == [cursor EXCEPT !.Width = w, !.Offset = o]
               p == cursor.Address
               a == p + o
               q == QueryMemoryAccess(memMap, firmware, p, PAGE_SIZE)
               known == TypeAt(coreMap, p) # Unmapped
               valid == PageCoreIsRangeValid(coreMap, a, w)
    <2>1. /\ p \in ViewPages /\ p \in Nat /\ p % PAGE_SIZE = 0
          /\ PAGE_SIZE \in Nat \ {0}
          /\ w \in Nat \ {0} /\ w <= PAGE_SIZE /\ PAGE_SIZE % w = 0
          /\ o \in Nat /\ o < PAGE_SIZE /\ o % w = 0
          /\ memMap \in MemoryMaps \cup {<<>>}
          /\ coreMap = AdapterMap(memMap)
      BY ViewPageFits, Sizes, WidthFacts DEF TypeOK, Cursors, Slots
    <2>2. p % w = 0 /\ a % w = 0
      <3> HIDE DEF p
      <3>1. p % w = 0
        BY <2>1, MultipleOfMultiple
      <3> QED
        BY <2>1, <3>1, SumOfMultiples
    <2>3. a \in Nat /\ p <= a /\ a + w <= p + PAGE_SIZE
      <3>1. o + w <= PAGE_SIZE
        BY <2>1, MultiplesApart
      <3> HIDE DEF p
      <3> QED
        BY <2>1, <3>1
    <2>4. QueryMemoryAccess(memMap, firmware, a, w) = q
      <3> HIDE DEF p, a
      <3> QED
        BY <2>1, <2>3, CellHasAccessOfPage
    <2>5. pageInfo.access = q /\ (pageInfo.type # Unmapped <=> known)
      BY DEF PageInfo
    <2>6. /\ ~ q.AccessKnown => ~ q.ReadAllowed /\ ~ q.WriteAllowed
          /\ q.ReadAllowed => IsToolRangeReadable(memMap, p, PAGE_SIZE)
          /\ q.WriteAllowed => IsToolRangeWritable(memMap, p, PAGE_SIZE)
      BY DEF QueryMemoryAccess, AccessUnknown
    <2>7. q.ReadAllowed \/ q.WriteAllowed => (valid <=> known)
      <3> HIDE DEF p, a, q
      <3> QED
        BY <2>1, <2>3, <2>6, CoreAgreesOnKnownPages
    <2>8. /\ c \in Cursors /\ c.Address = p /\ c.Offset = o /\ c.Width = w
          /\ Wrap(p + o) = a
      <3>0. o \in 0 .. (PAGE_SIZE - 1) /\ cursor \in Cursors
        BY <2>1 DEF TypeOK
      <3>1. c \in Cursors /\ c.Address = p /\ c.Offset = o /\ c.Width = w
        BY <3>0 DEF Cursors
      <3> HIDE DEF c
      <3> QED
        BY <3>0, <3>1, CursorAddress
    <2> HIDE DEF q, a, c, p, known, valid
    <2>9. /\ MemReadSucceeds(memMap, firmware, a, w) <=> q.ReadAllowed
          /\ MemWriteSucceeds(memMap, firmware, a, w) <=> q.WriteAllowed
      BY <2>2, <2>4, <2>6, Zenon
         DEF MemReadSucceeds, MemWriteSucceeds, IsRangeValid, IsRangeWritable
    <2>10. CellText(c, o) # Masked <=> valid /\ q.ReadAllowed
      <3>1. Content(a, w) # Masked
        <4>1. DOMAIN Content(a, w) = a .. (a + w - 1) /\ a \in a .. (a + w - 1)
          BY <2>1, <2>3 DEF Content
        <4>2. DOMAIN Masked = {}
          BY DEF Masked
        <4> QED
          BY <4>1, <4>2
      <3> QED
        BY <2>8, <2>9, <3>1, Zenon DEF CellText, valid
    <2>11. Editable(c) <=> valid
      BY <2>1, <2>8, Zenon DEF Editable, PageCoreGetCurrentAddress, valid
    <2>12. PageCoreGetCurrentAddress(c) = a
      BY <2>8 DEF PageCoreGetCurrentAddress
    <2>13. /\ CellText(c, o) # Masked <=> pageInfo.type # Unmapped /\ pageInfo.access.ReadAllowed
           /\ (Editable(c) /\ MemWriteSucceeds(memMap, firmware, PageCoreGetCurrentAddress(c), w))
                 <=> pageInfo.type # Unmapped /\ pageInfo.access.WriteAllowed
      BY <2>5, <2>7, <2>9, <2>10, <2>11, <2>12, Zenon
    <2> QED
      BY <2>13, Zenon DEF c
  <1> QED
    BY <1>1, TypeCorrect, PTL
=============================================================================
