---------------------------- MODULE PageMemProofs ----------------------------
(***************************************************************************)
(* PageMem for every map, every page size and every width: its state is    *)
(* well typed, and what the user sees at the prompt is the page, the       *)
(* cursor and the memory as they are.                                      *)
(***************************************************************************)
EXTENDS PageMemProperties, AddressMapProofs

-----------------------------------------------------------------------------
(* The cursor. *)

\* A width divides the page and the row, and is no larger than either.
LEMMA WidthFacts ==
    ASSUME NEW w \in Widths
    PROVE  /\ w \in Nat \ {0}
           /\ w <= PAGE_SIZE
           /\ PAGE_SIZE % w = 0
           /\ COLS \div w \in Nat
  <1>1. w \in Nat \ {0} /\ w <= PAGE_SIZE /\ PAGE_SIZE % w = 0
    BY WidthsAssumption
  <1>2. COLS \in Nat
    BY ColsAssumption
  <1>3. COLS \div w \in Nat
    BY <1>1, <1>2, DivisionIdentity
  <1> QED
    BY <1>1, <1>3

\* Moving by any number of cells keeps the page and the width, and leaves the
\* cursor on a slot of the page.
LEMMA MoveCursorStaysOnPage ==
    ASSUME NEW c \in Cursors, NEW delta \in Int
    PROVE  /\ PageCoreMoveCursor(c, delta) \in Cursors
           /\ PageCoreMoveCursor(c, delta).Address = c.Address
           /\ PageCoreMoveCursor(c, delta).Width = c.Width
           /\ PageCoreMoveCursor(c, delta).Offset \in Slots(c.Width)
           /\ PageCoreMoveCursor(c, delta).Offset = c.Offset
                => PageCoreMoveCursor(c, delta) = c
  <1> DEFINE w == c.Width
             moved == c.Offset + (delta * w)
             last == PAGE_SIZE - w
             clamped == IF moved < 0 THEN 0 ELSE IF moved > last THEN last ELSE moved
             off == AlignDown(clamped, w)
  <1>1. w \in Nat \ {0} /\ w <= PAGE_SIZE /\ PAGE_SIZE \in Nat
    BY WidthFacts, Sizes DEF Cursors
  <1>2. moved \in Int
    BY <1>1 DEF Cursors
  <1>3. clamped \in Nat /\ clamped <= last /\ last \in Nat
    <2> HIDE DEF moved, w
    <2> QED
      BY <1>1, <1>2
  <1>4. off \in Nat /\ off <= clamped
    <2> HIDE DEF clamped, w
    <2> QED
      BY <1>1, <1>3, AlignDownBounds
  <1>5. off \in 0 .. (PAGE_SIZE - 1)
    <2> HIDE DEF clamped, off, w
    <2> QED
      BY <1>1, <1>3, <1>4
  <1>6. off % w = 0
    <2> HIDE DEF clamped, w
    <2> QED
      BY <1>1, <1>3, AlignDownIsMultiple
  <1>7. PageCoreMoveCursor(c, delta) = [c EXCEPT !.Offset = off]
    BY DEF PageCoreMoveCursor
  <1> HIDE DEF off, w
  <1> QED
    BY <1>5, <1>6, <1>7 DEF Cursors, Slots, w

\* The keys 1, 2, 4 and 8 round the offset down to a slot of the same page.
LEMMA SetCursorWidthStaysOnPage ==
    ASSUME NEW c \in Cursors, NEW w \in Widths
    PROVE  /\ PageCoreSetCursorWidth(c, w) \in Cursors
           /\ PageCoreSetCursorWidth(c, w).Address = c.Address
  <1> DEFINE off == AlignDown(c.Offset, w)
  <1>1. /\ c.Offset \in Nat
        /\ c.Offset < PAGE_SIZE
        /\ PAGE_SIZE \in Nat
        /\ w \in Nat \ {0}
        /\ w <= PAGE_SIZE
    BY WidthFacts, Sizes DEF Cursors
  <1>2. off \in Nat /\ off <= c.Offset
    BY <1>1, AlignDownBounds
  <1>3. (IF off >= PAGE_SIZE THEN PAGE_SIZE - w ELSE off) \in 0 .. (PAGE_SIZE - 1)
    <2> HIDE DEF off
    <2> QED
      BY <1>1, <1>2
  <1> HIDE DEF off
  <1> QED
    BY <1>3 DEF PageCoreSetCursorWidth, Cursors, off

\* Every arrow moves by a whole number of cells.
LEMMA ArrowDeltaIsInt ==
    ASSUME NEW w \in Widths, NEW arrow \in {"up", "down", "left", "right"}
    PROVE  ArrowDelta(arrow, w) \in Int
  BY WidthFacts DEF ArrowDelta

\* An address Goto is given becomes a page and an offset in it.
LEMMA GotoSplitsAddress ==
    ASSUME NEW a \in Word
    PROVE  /\ PageCoreAlignToPage(a) \in ViewPages
           /\ a - PageCoreAlignToPage(a) \in 0 .. (PAGE_SIZE - 1)
  <1>1. a \in Nat /\ PAGE_SIZE \in Nat \ {0}
    BY Sizes DEF Word
  <1> DEFINE base == AlignDown(a, PAGE_SIZE)
  <1>2. base \in Nat /\ base <= a /\ a < base + PAGE_SIZE
    BY <1>1, AlignDownBounds
  <1>3. a - base \in 0 .. (PAGE_SIZE - 1)
    <2> HIDE DEF base
    <2> QED
      BY <1>1, <1>2
  <1> QED
    BY <1>3, AlignDownIsViewPage DEF PageCoreAlignToPage

-----------------------------------------------------------------------------
(* The maps and the page information. *)

Maps == MemoryMaps \cup {<<>>}

\* MemAdapterInit gives Core descriptors of addresses and page counts.
LEMMA AdapterMapIsTyped ==
    ASSUME NEW m \in Maps
    PROVE  /\ TypedMap(AdapterMap(m))
           /\ \A i \in DOMAIN AdapterMap(m) : AdapterMap(m)[i].UefiType \in EfiTypes
  <1>1. m \in Seq(EfiDescriptor)
    <2>1. <<>> \in Seq(EfiDescriptor)
      OBVIOUS
    <2> QED
      BY <2>1, PageMemAssumption DEF Maps
  <1>2. DOMAIN m \subseteq Nat /\ \A i \in DOMAIN m : m[i] \in EfiDescriptor
    BY <1>1
  <1> QED
    BY <1>2 DEF AdapterMap, TypedMap, EfiDescriptor

\* The type of the title row is a UEFI type or Unmapped.
LEMMA TypeAtIsTyped ==
    ASSUME NEW m \in Maps, NEW a
    PROVE  TypeAt(AdapterMap(m), a) \in EfiTypes \cup {Unmapped}
  <1> DEFINE D == DescriptorsAt(AdapterMap(m), a)
  <1>1. D \subseteq DOMAIN AdapterMap(m) /\ D \in SUBSET Nat
    BY AdapterMapIsTyped DEF DescriptorsAt, TypedMap
  <1>2. D # {} => Min(D) \in D
    <2> HIDE DEF D
    <2> QED
      BY <1>1, LeastElement
  <1> HIDE DEF D
  <1> QED
    BY <1>1, <1>2, AdapterMapIsTyped DEF TypeAt, D

\* QueryMemoryAccess answers with four booleans on every path.
LEMMA AccessIsTyped ==
    ASSUME NEW m, NEW fw, NEW a, NEW n
    PROVE  QueryMemoryAccess(m, fw, a, n) \in AccessInfo
  <1>1. IsToolRangeReadable(m, a, n) \in BOOLEAN /\ IsToolRangeWritable(m, a, n) \in BOOLEAN
    BY DEF IsToolRangeReadable, IsToolRangeWritable
  <1>2. AccessUnknown \in AccessInfo
    BY DEF AccessUnknown, AccessInfo
  <1>3. \A r, w, x \in BOOLEAN :
          [AccessKnown |-> TRUE, ReadAllowed |-> r, WriteAllowed |-> w,
           ExecuteAllowed |-> x] \in AccessInfo
    BY DEF AccessInfo
  <1> QED
    BY <1>1, <1>2, <1>3 DEF QueryMemoryAccess

\* What PageMemControllerUpdatePageType stores has its type.
LEMMA PageInfoIsTyped ==
    ASSUME TypeOK, pc # "menu", NEW a
    PROVE  PageInfo(a) \in PageInfos
  <1>1. memMap \in Maps /\ coreMap = AdapterMap(memMap)
    BY DEF TypeOK, Maps
  <1> QED
    BY <1>1, TypeAtIsTyped, AccessIsTyped DEF PageInfo, PageInfos

\* The values that stand for a page that is not open have their types.
LEMMA NoCursorIsTyped == NoCursor \in Cursors /\ NoInfo \in PageInfos
  <1>1. NoCursor \in Cursors
    BY Sizes, WidthsAssumption DEF NoCursor, Cursors, ViewPages, Word
  <1>2. NoInfo \in PageInfos
    BY DEF NoInfo, PageInfos, AccessUnknown, AccessInfo
  <1> QED
    BY <1>1, <1>2

-----------------------------------------------------------------------------
(* Type correctness. *)

\* The program starts in a state of the right type.
LEMMA InitTypeOK == Init => TypeOK
  <1> SUFFICES ASSUME Init PROVE TypeOK
    OBVIOUS
  <1>1. firmware \in Protocol
    BY DEF Init, Protocol, AttributeSets
  <1>2. AdapterMap(<<>>) = <<>>
    BY DEF AdapterMap
  <1>3. memory \in [Word -> Byte]
    BY DEF Init
  <1>4. /\ DOMAIN screen = {"title", "cells", "preview", "lit", "info", "prompt", "error"}
        /\ DOMAIN screen.cells = 0 .. (PAGE_SIZE - 1)
        /\ DOMAIN screen.preview = 0 .. (PAGE_SIZE - 1)
    BY DEF Init, ClearedScreen, Blank
  <1>5. 0 \in 0 .. MaxWrites /\ 0 \in 0 .. MaxAttributeChanges
    BY PageMemAssumption
  <1> QED
    BY <1>1, <1>2, <1>3, <1>4, <1>5, NoCursorIsTyped DEF Init, TypeOK

\* PageMemControllerInit leaves a page-aligned cursor on any map.
LEMMA EnterPageTypeOK ==
    ASSUME TypeOK, NEW m \in MemoryMaps, EnterPage(m)
    PROVE  TypeOK'
  <1>1. m \in Maps /\ m # <<>>
    BY PageMemAssumption DEF Maps
  <1>2. memMap' = m /\ coreMap' = AdapterMap(m) /\ pc' = "loop"
    BY DEF EnterPage
  <1>3. cursor'.Address \in ViewPages /\ cursor' \in Cursors
    <2>1. AlignDown(PageCoreGetFirstValidAddress(AdapterMap(m)), PAGE_SIZE) \in ViewPages
      BY <1>1, AdapterMapIsTyped, FirstPageIsViewPage
    <2>2. 0 \in 0 .. (PAGE_SIZE - 1) /\ 1 \in Widths
      BY Sizes, WidthsAssumption
    <2> QED
      BY <1>2, <2>1, <2>2 DEF EnterPage, PageCoreAlignToPage, Cursors
  <1>4. pageInfo' \in PageInfos
    BY <1>1, <1>2, TypeAtIsTyped, AccessIsTyped DEF EnterPage, PageInfos
  <1> QED
    BY <1>1, <1>2, <1>3, <1>4 DEF EnterPage, TypeOK, budget

\* N and P keep the types when the page they move to is a view page.
LEMMA MoveToPageTypeOK ==
    ASSUME TypeOK, NEW p \in ViewPages, MoveToPage(p)
    PROVE  TypeOK'
  <1>1. [cursor EXCEPT !.Address = p, !.Offset = 0] \in Cursors
    <2>1. cursor \in Cursors
      BY DEF TypeOK
    <2>2. 0 \in 0 .. (PAGE_SIZE - 1)
      BY Sizes
    <2> QED
      BY <2>1, <2>2 DEF Cursors
  <1>2. PageInfo(p) \in PageInfos
    BY PageInfoIsTyped DEF MoveToPage
  <1>3. cursor' \in Cursors /\ pageInfo' \in PageInfos /\ needsRedraw' \in BOOLEAN
    BY <1>1, <1>2 DEF MoveToPage, TypeOK
  <1> QED
    BY <1>3 DEF MoveToPage, TypeOK, maps, budget

\* The pages N and P move to are view pages, on any map of the firmware.
LEMMA PageTargetsAreViewPages ==
    ASSUME TypeOK
    PROVE  /\ PageDownTarget(coreMap, cursor.Address) \in ViewPages
           /\ PageUpTarget(coreMap, cursor.Address) \in ViewPages
  <1>1. TypedMap(coreMap) /\ cursor.Address \in ViewPages
    BY AdapterMapIsTyped DEF TypeOK, Maps, Cursors
  <1> QED
    BY <1>1, NextPageIsViewPage, PreviousPageIsViewPage DEF PageDownTarget, PageUpTarget

\* A goto keeps the offset in the page, whatever address was typed.
LEMMA GotoSubmitTypeOK ==
    ASSUME TypeOK, NEW a \in Word, GotoSubmit(a)
    PROVE  TypeOK'
  <1>1. cursor \in Cursors /\ pc # "menu"
    BY DEF TypeOK, GotoSubmit
  <1>2. [cursor EXCEPT !.Address = PageCoreAlignToPage(a),
                       !.Offset  = a - PageCoreAlignToPage(a)] \in Cursors
    BY <1>1, GotoSplitsAddress DEF Cursors
  <1>3. cursor' \in Cursors
    BY <1>2 DEF GotoSubmit
  <1>4. pageInfo' \in PageInfos
    BY <1>1, PageInfoIsTyped DEF GotoSubmit, TypeOK
  <1> QED
    BY <1>3, <1>4 DEF GotoSubmit, GotoEnds, TypeOK, maps, budget

\* An arrow keeps the cursor on a slot of its page.
LEMMA ArrowKeyTypeOK ==
    ASSUME TypeOK, NEW arrow \in {"up", "down", "left", "right"}, ArrowKey(arrow)
    PROVE  TypeOK'
  <1> DEFINE moved == PageCoreMoveCursor(cursor, ArrowDelta(arrow, cursor.Width))
  <1>1. cursor \in Cursors /\ cursor.Width \in Widths
    BY DEF TypeOK, Cursors
  <1>2. moved \in Cursors
    BY <1>1, ArrowDeltaIsInt, MoveCursorStaysOnPage
  <1>3. /\ DOMAIN MoveHighlight(moved) = DOMAIN screen
        /\ DOMAIN MoveHighlight(moved).cells = DOMAIN screen.cells
        /\ MoveHighlight(moved).preview = screen.preview
    BY DEF MoveHighlight, TypeOK
  <1>4. cursor' \in Cursors /\ needsRedraw' \in BOOLEAN
    BY <1>2 DEF ArrowKey, TypeOK
  <1>5. /\ DOMAIN screen' = DOMAIN screen
        /\ DOMAIN screen'.cells = DOMAIN screen.cells
        /\ screen'.preview = screen.preview
    <2> HIDE DEF moved
    <2> QED
      BY <1>3 DEF ArrowKey, moved
  <1> QED
    BY <1>4, <1>5 DEF ArrowKey, TypeOK, maps, budget

\* The steps that end the E key write bytes and nothing else.
LEMMA EditTypeOK ==
    ASSUME TypeOK,
           (\E v \in Values(cursor) : EditSubmit(v)) \/ EditFails \/ EditCancel
    PROVE  TypeOK'
  <1>1. CASE \E v \in Values(cursor) : EditSubmit(v)
    <2>1. PICK v \in Values(cursor) : EditSubmit(v)
      BY <1>1
    <2>2. \A x \in DOMAIN v : v[x] \in Byte
      BY DEF Values
    <2>3. memory' \in [Word -> Byte]
      BY <2>1, <2>2 DEF EditSubmit, TypeOK
    <2>4. writes' \in 0 .. MaxWrites
      BY <2>1, PageMemAssumption DEF EditSubmit, TypeOK
    <2> QED
      BY <2>1, <2>3, <2>4 DEF EditSubmit, EditEnds, TypeOK, maps
  <1>2. CASE EditFails
    BY <1>2 DEF EditFails, EditEnds, WithError, TypeOK, maps
  <1>3. CASE EditCancel
    BY <1>3 DEF EditCancel, EditEnds, TypeOK, maps
  <1> QED
    BY <1>1, <1>2, <1>3

\* A change of attributes leaves one attribute set for each EFI page.
LEMMA FirmwareSetsAttributesTypeOK ==
    ASSUME TypeOK, NEW p \in EfiPages, NEW A \in AttributeChoices,
           FirmwareSetsAttributes(p, A)
    PROVE  TypeOK'
  <1>1. A \in AttributeSets
    BY PageMemAssumption
  <1>2. firmware' \in Protocol
    BY <1>1 DEF FirmwareSetsAttributes, TypeOK, Protocol
  <1>3. attributeChanges' \in 0 .. MaxAttributeChanges
    BY PageMemAssumption DEF FirmwareSetsAttributes, TypeOK
  <1> QED
    BY <1>2, <1>3 DEF FirmwareSetsAttributes, TypeOK, maps

\* Every step of the viewer and of the firmware keeps the types.
LEMMA StepTypeOK == TypeOK /\ [Next]_vars => TypeOK'
  <1> SUFFICES ASSUME TypeOK, [Next]_vars PROVE TypeOK'
    OBVIOUS
  <1>1. CASE \E m \in MemoryMaps : EnterPage(m)
    BY <1>1, EnterPageTypeOK
  <1>2. CASE EnterFails
    BY <1>2 DEF EnterFails, TypeOK, budget
  <1>3. CASE DrawAndWait
    BY <1>3 DEF DrawAndWait, DrawPage, TypeOK, maps, budget
  <1>4. CASE \E arrow \in {"up", "down", "left", "right"} : ArrowKey(arrow)
    BY <1>4, ArrowKeyTypeOK
  <1>5. CASE \E w \in Widths : WidthKey(w)
    BY <1>5, SetCursorWidthStaysOnPage DEF WidthKey, TypeOK, maps, budget
  <1>6. CASE EditKey
    BY <1>6 DEF EditKey, TypeOK, maps, budget
  <1>7. CASE EditRefused
    BY <1>7 DEF EditRefused, WithError, TypeOK, maps, budget
  <1>8. CASE (\E v \in Values(cursor) : EditSubmit(v)) \/ EditFails \/ EditCancel
    BY <1>8, EditTypeOK
  <1>9. CASE GotoKey
    BY <1>9 DEF GotoKey, TypeOK, maps, budget
  <1>10. CASE \E a \in Word : GotoSubmit(a)
    BY <1>10, GotoSubmitTypeOK
  <1>11. CASE GotoCancel
    BY <1>11 DEF GotoCancel, GotoEnds, TypeOK, maps, budget
  <1>12. CASE PageDownKey \/ PageUpKey
    BY <1>12, PageTargetsAreViewPages, MoveToPageTypeOK DEF PageDownKey, PageUpKey
  <1>13. CASE RangesKey
    BY <1>13 DEF RangesKey, ClearedScreen, Blank, TypeOK, maps, budget
  <1>14. CASE RangesReturn
    BY <1>14 DEF RangesReturn, TypeOK, maps, budget
  <1>15. CASE OtherKey
    BY <1>15 DEF OtherKey, TypeOK, maps, budget
  <1>16. CASE EscKey
    BY <1>16, NoCursorIsTyped DEF EscKey, ClearedScreen, Blank, TypeOK, maps, budget
  <1>17. CASE \E p \in EfiPages, A \in AttributeChoices : FirmwareSetsAttributes(p, A)
    BY <1>17, FirmwareSetsAttributesTypeOK
  <1>18. CASE UNCHANGED vars
    BY <1>18 DEF vars, TypeOK
  <1> QED
    BY <1>1, <1>2, <1>3, <1>4, <1>5, <1>6, <1>7, <1>8, <1>9, <1>10, <1>11, <1>12,
       <1>13, <1>14, <1>15, <1>16, <1>17, <1>18 DEF Next

\* Type correctness of the viewer: the cursor never leaves its page and the
\* page base is a page base, for every key, width and address typed.
THEOREM TypeCorrect == Spec => []TypeOK
  BY InitTypeOK, StepTypeOK, PTL DEF Spec

-----------------------------------------------------------------------------
(* What is on the screen.  The user looks at it at the prompt, but it is   *)
(* drawn at the top of the loop and only if a redraw is pending, so the    *)
(* invariant speaks of every state from which the prompt is reached with   *)
(* no redraw: the key loop, and the top of the loop with NeedsRedraw clear.*)

NoRedrawAhead == pc = "key" \/ (pc = "loop" /\ ~needsRedraw)

FrameDrawn == /\ screen.prompt = "none"
              /\ screen.title = {pageInfo}
              /\ screen.info = {cursor}

HighlightDrawn == screen.lit = {cursor.Offset} \cap Slots(cursor.Width)

CellDrawn(o) ==
    screen.cells[o] # Masked =>
        /\ o \in Slots(cursor.Width)
        /\ screen.cells[o] = Content(cursor.Address + o, cursor.Width)

CellsDrawn == \A o \in 0 .. (PAGE_SIZE - 1) : CellDrawn(o)

PreviewDrawn ==
    \A o \in 0 .. (PAGE_SIZE - 1) :
        /\ screen.preview[o] # Masked => screen.preview[o] = Content(cursor.Address + o, 1)
        /\ attributeChanges = 0 => screen.preview[o] = PreviewText(cursor, o)

ModeInv ==
    /\ pc \in {"loop", "key", "ranges"} => mode = "VIEWING"
    /\ pc = "key" => ~needsRedraw

ScreenInv ==
    /\ ModeInv
    /\ NoRedrawAhead => FrameDrawn /\ HighlightDrawn /\ CellsDrawn /\ PreviewDrawn

\* A cell drawn with bytes is drawn from a slot: the library refuses to read
\* an address that is not a multiple of the width.
LEMMA CellTextIsContent ==
    ASSUME NEW c \in Cursors, NEW o \in 0 .. (PAGE_SIZE - 1),
           CellText(c, o) # Masked
    PROVE  /\ o \in Slots(c.Width)
           /\ CellText(c, o) = Content(c.Address + o, c.Width)
  <1> DEFINE a == c.Address + o
             w == c.Width
  <1>1. c.Address \in ViewPages /\ w \in Widths
    BY DEF Cursors
  <1>2. /\ c.Address \in Nat
        /\ c.Address % PAGE_SIZE = 0
        /\ c.Address + PAGE_SIZE <= MaxU64 + 1
    BY <1>1, ViewPageFits
  <1>3. o \in Nat /\ o < PAGE_SIZE
    BY Sizes
  <1>4. Wrap(a) = a /\ a \in Nat
    <2>1. a \in Word
      BY <1>2, <1>3, Sizes DEF Word
    <2> QED
      BY <2>1, <1>2, <1>3, WrapIsWord
  <1>5. CellText(c, o) = Content(a, w) /\ a % w = 0
    BY <1>4 DEF CellText, MemReadSucceeds
  <1>6. w \in Nat \ {0} /\ PAGE_SIZE % w = 0 /\ PAGE_SIZE \in Nat \ {0}
    BY <1>1, WidthFacts, Sizes
  <1>7. c.Address % w = 0
    BY <1>2, <1>6, MultipleOfMultiple
  <1>8. (a - c.Address) % w = 0
    <2>1. c.Address <= a
      BY <1>2, <1>3
    <2> QED
      BY <1>2, <1>4, <1>5, <1>6, <1>7, <2>1, DifferenceOfMultiples
  <1>9. a - c.Address = o
    BY <1>2, <1>3
  <1> QED
    BY <1>5, <1>8, <1>9 DEF Slots

\* What the preview shows for a byte is that byte.
LEMMA PreviewTextIsContent ==
    ASSUME NEW c \in Cursors, NEW o \in 0 .. (PAGE_SIZE - 1)
    PROVE  PreviewText(c, o) # Masked => PreviewText(c, o) = Content(c.Address + o, 1)
  <1> DEFINE byte == [c EXCEPT !.Width = 1]
  <1>1. byte \in Cursors /\ byte.Address = c.Address /\ byte.Width = 1
    BY WidthsAssumption DEF Cursors
  <1> QED
    BY <1>1, CellTextIsContent DEF PreviewText

\* The preview depends on the page, the map, the attributes and the memory.
LEMMA PreviewTextKept ==
    ASSUME NEW o, TypeOK, cursor' \in Cursors, cursor'.Address = cursor.Address,
           UNCHANGED <<memMap, coreMap, firmware, memory>>
    PROVE  PreviewText(cursor, o)' = PreviewText(cursor, o)
  <1>1. cursor \in Cursors
    BY DEF TypeOK
  <1>2. /\ [cursor EXCEPT !.Width = 1].Address = cursor.Address
        /\ [cursor EXCEPT !.Width = 1].Width = 1
        /\ [cursor' EXCEPT !.Width = 1].Address = cursor'.Address
        /\ [cursor' EXCEPT !.Width = 1].Width = 1
    BY <1>1 DEF Cursors
  <1> QED
    BY <1>2 DEF PreviewText, CellText, Content, Masked

\* A step that draws nothing in the preview and changes nothing it depends on
\* keeps it; a change of attributes ends the second half of what it promises.
LEMMA PreviewKept ==
    ASSUME TypeOK, TypeOK', PreviewDrawn, cursor'.Address = cursor.Address,
           screen'.preview = screen.preview, memory' = memory,
           \/ attributeChanges' # 0
           \/ UNCHANGED <<memMap, coreMap, firmware, attributeChanges>>
    PROVE  PreviewDrawn'
  <1> SUFFICES ASSUME NEW o \in 0 .. (PAGE_SIZE - 1)
               PROVE  /\ screen'.preview[o] # Masked =>
                            screen'.preview[o] = Content(cursor.Address + o, 1)
                      /\ attributeChanges' = 0 => screen'.preview[o] = PreviewText(cursor, o)'
    BY DEF PreviewDrawn, Content, Masked
  <1>1. cursor' \in Cursors
    BY DEF TypeOK
  <1>2. attributeChanges' = 0 => PreviewText(cursor, o)' = PreviewText(cursor, o)
                              /\ attributeChanges = 0
    BY <1>1, PreviewTextKept
  <1> QED
    BY <1>2 DEF PreviewDrawn

\* The whole page drawn afresh.
LEMMA DrawPageIsDrawn ==
    ASSUME TypeOK, pc = "loop", DrawAndWait, needsRedraw
    PROVE  FrameDrawn' /\ HighlightDrawn' /\ CellsDrawn' /\ PreviewDrawn'
  <1>1. /\ screen' = DrawPage
        /\ cursor' = cursor
        /\ pageInfo' = pageInfo
        /\ memory' = memory
        /\ UNCHANGED <<memMap, coreMap, firmware>>
    BY DEF DrawAndWait, maps
  <1>2. FrameDrawn' /\ HighlightDrawn'
    BY <1>1 DEF DrawPage, FrameDrawn, HighlightDrawn, Slots
  <1>3. ASSUME NEW o \in 0 .. (PAGE_SIZE - 1) PROVE CellDrawn(o)'
    <2>1. screen'.cells[o] # Masked' => CellText(cursor, o) = screen'.cells[o]
                                     /\ screen'.cells[o] # Masked
      BY <1>1 DEF DrawPage, Masked
    <2>2. CellText(cursor, o) # Masked =>
             /\ o \in Slots(cursor.Width)
             /\ CellText(cursor, o) = Content(cursor.Address + o, cursor.Width)
      BY CellTextIsContent DEF TypeOK
    <2>3. Content(cursor.Address + o, cursor.Width)'
             = Content(cursor.Address + o, cursor.Width)
      BY <1>1 DEF Content
    <2> QED
      BY <1>1, <2>1, <2>2, <2>3 DEF CellDrawn, Slots
  <1>4. ASSUME NEW o \in 0 .. (PAGE_SIZE - 1)
        PROVE  /\ screen'.preview[o] # Masked =>
                     screen'.preview[o] = Content(cursor.Address + o, 1)
               /\ screen'.preview[o] = PreviewText(cursor, o)'
    <2>1. cursor \in Cursors
      BY DEF TypeOK
    <2>2. screen'.preview[o] = PreviewText(cursor, o)
      BY <1>1 DEF DrawPage
    <2>3. PreviewText(cursor, o)' = PreviewText(cursor, o)
      BY <1>1, <2>1, PreviewTextKept
    <2> QED
      BY <2>1, <2>2, <2>3, PreviewTextIsContent
  <1>5. PreviewDrawn'
    <2>1. \A o : Content(cursor.Address + o, 1)' = Content(cursor.Address + o, 1)
      BY <1>1 DEF Content
    <2> QED
      BY <1>4, <2>1 DEF PreviewDrawn, Masked
  <1> QED
    BY <1>2, <1>3, <1>5 DEF CellsDrawn

\* The fast path of the arrow keys, from a cursor that Goto may have put
\* between two slots: if it stands between slots nothing is highlighted and
\* the cell redrawn at its offset is masked.
LEMMA MoveHighlightIsDrawn ==
    ASSUME TypeOK, FrameDrawn, HighlightDrawn, CellsDrawn,
           NEW arrow \in {"up", "down", "left", "right"}, ArrowKey(arrow)
    PROVE  FrameDrawn' /\ HighlightDrawn' /\ CellsDrawn'
  <1> DEFINE moved == PageCoreMoveCursor(cursor, ArrowDelta(arrow, cursor.Width))
             w == cursor.Width
             old == Slot(moved, cursor.Offset)
             new == Slot(moved, moved.Offset)
             In(o) == o \in 0 .. (PAGE_SIZE - 1)
  <1>1. cursor \in Cursors /\ w \in Widths /\ ArrowDelta(arrow, w) \in Int
    BY ArrowDeltaIsInt DEF TypeOK, Cursors
  <1>2. /\ moved \in Cursors
        /\ moved.Address = cursor.Address
        /\ moved.Width = w
        /\ moved.Offset \in Slots(w)
        /\ moved.Offset = cursor.Offset => moved = cursor
    BY <1>1, MoveCursorStaysOnPage
  <1>3. cursor' = moved /\ pageInfo' = pageInfo /\ memory' = memory
    BY DEF ArrowKey
  <1> HIDE DEF moved
  <1>4. CASE moved.Offset = cursor.Offset
    <2>1. cursor' = cursor /\ screen' = screen
      BY <1>2, <1>3, <1>4 DEF ArrowKey, moved
    <2> QED
      BY <1>3, <2>1 DEF FrameDrawn, HighlightDrawn, CellsDrawn, CellDrawn, Content,
         Slots, Masked
  <1>5. CASE moved.Offset # cursor.Offset
    <2>1. screen' = MoveHighlight(moved)
      BY <1>5 DEF ArrowKey, moved
    <2>2. /\ In(cursor.Offset) /\ In(moved.Offset)
          /\ cursor.Offset \in Nat /\ moved.Offset \in Nat /\ w \in Nat \ {0}
      BY <1>1, <1>2, WidthFacts, Sizes DEF Cursors
    <2>3. new = moved.Offset
      BY <1>2, <2>2 DEF Slot, AlignDown, Slots
    <2>4. In(old)
      <3>1. old \in Nat /\ old <= cursor.Offset
        BY <1>2, <2>2, AlignDownBounds DEF Slot
      <3> QED
        BY <2>2, <3>1, Sizes
    <2>5. cursor.Offset \in Slots(w) => old = cursor.Offset
      BY <1>2, <2>2 DEF Slot, AlignDown, Slots
    <2>6. /\ screen'.prompt = screen.prompt
          /\ screen'.title = screen.title
          /\ screen'.info = {moved}
          /\ screen'.lit = (screen.lit \ {old}) \cup {new}
      BY <2>1 DEF MoveHighlight, TypeOK
    <2>7. \A o \in 0 .. (PAGE_SIZE - 1) :
             screen'.cells[o] = IF o = new THEN CellText(moved, moved.Offset)
                                ELSE IF o = old THEN CellText(moved, cursor.Offset)
                                ELSE screen.cells[o]
      <3>1. screen'.cells = [screen.cells EXCEPT ![old] = CellText(moved, cursor.Offset),
                                                 ![new] = CellText(moved, moved.Offset)]
        BY <2>1 DEF MoveHighlight, TypeOK
      <3>2. DOMAIN screen.cells = 0 .. (PAGE_SIZE - 1)
        BY DEF TypeOK
      <3>3. In(new)
        BY <2>2, <2>3
      <3> HIDE DEF old, new
      <3> QED
        BY <2>4, <3>1, <3>2, <3>3
    <2>8. FrameDrawn'
      BY <1>3, <2>6 DEF FrameDrawn
    <2>9. HighlightDrawn'
      <3>1. screen'.lit = {moved.Offset}
        BY <2>3, <2>5, <2>6 DEF HighlightDrawn
      <3> QED
        BY <1>2, <1>3, <3>1 DEF HighlightDrawn, Slots
    <2>10. ASSUME NEW o \in 0 .. (PAGE_SIZE - 1) PROVE CellDrawn(o)'
      <3> DEFINE Shown(text, p) == text # Masked => /\ p \in Slots(w)
                                                    /\ text = Content(cursor.Address + p, w)
      <3>1. Shown(CellText(moved, moved.Offset), moved.Offset)
        BY <1>2, <2>2, CellTextIsContent
      <3>2. Shown(CellText(moved, cursor.Offset), cursor.Offset)
        BY <1>2, <2>2, CellTextIsContent
      <3>3. Shown(screen.cells[o], o)
        BY DEF CellsDrawn, CellDrawn
      <3>4. Shown(CellText(moved, cursor.Offset), old)
        BY <2>5, <3>2
      <3>5. Shown(screen'.cells[o], o)
        <4> HIDE DEF Shown, old, new
        <4> QED
          BY <2>3, <2>7, <3>1, <3>3, <3>4
      <3>6. Content(cursor.Address + o, w)' = Content(moved.Address + o, moved.Width)
        BY <1>3 DEF Content
      <3> QED
        BY <1>2, <1>3, <3>5, <3>6 DEF CellDrawn, Slots, Masked
    <2> QED
      BY <2>8, <2>9, <2>10 DEF CellsDrawn
  <1> QED
    BY <1>4, <1>5

\* A step that changes nothing the screen depends on.
LEMMA ScreenKept ==
    ASSUME FrameDrawn, HighlightDrawn, CellsDrawn,
           UNCHANGED <<screen, cursor, pageInfo, memory>>
    PROVE  FrameDrawn' /\ HighlightDrawn' /\ CellsDrawn'
  BY DEF FrameDrawn, HighlightDrawn, CellsDrawn, CellDrawn, Content, Slots, Masked

\* Every step keeps the screen in agreement with the page it will show.
LEMMA StepScreenInv == TypeOK /\ ScreenInv /\ [Next]_vars => ScreenInv'
  <1> SUFFICES ASSUME TypeOK, ScreenInv, [Next]_vars PROVE ScreenInv'
    OBVIOUS
  <1>t. TypeOK'
    BY StepTypeOK
  <1> DEFINE Drawn == FrameDrawn /\ HighlightDrawn /\ CellsDrawn /\ PreviewDrawn
             Awaits == needsRedraw' /\ pc' = "loop" /\ mode' = "VIEWING"
  <1>a. ASSUME Awaits PROVE ScreenInv'
    BY <1>a DEF ScreenInv, ModeInv, NoRedrawAhead
  <1>b. ASSUME pc' \in {"menu", "editHex", "gotoHex"} PROVE ScreenInv'
    BY <1>b DEF ScreenInv, ModeInv, NoRedrawAhead
  <1>c. ASSUME pc = "key" PROVE mode = "VIEWING" /\ ~needsRedraw /\ Drawn
    BY <1>c DEF ScreenInv, ModeInv, NoRedrawAhead
  <1>d. ASSUME Drawn', ModeInv' PROVE ScreenInv'
    BY <1>d DEF ScreenInv
  <1>1. CASE \E m \in MemoryMaps : EnterPage(m)
    BY <1>1, <1>a DEF EnterPage
  <1>2. CASE EnterFails
    BY <1>2, <1>b DEF EnterFails
  <1>3. CASE DrawAndWait
    <2>1. mode = "VIEWING" /\ ModeInv'
      BY <1>3 DEF DrawAndWait, ScreenInv, ModeInv
    <2>2. CASE needsRedraw
      BY <1>3, <1>d, <2>1, <2>2, DrawPageIsDrawn DEF DrawAndWait
    <2>3. CASE ~needsRedraw
      <3>1. /\ Drawn
            /\ UNCHANGED <<screen, cursor, pageInfo, memory>>
            /\ UNCHANGED <<memMap, coreMap, firmware, attributeChanges>>
        BY <1>3, <2>3 DEF DrawAndWait, ScreenInv, NoRedrawAhead, maps, budget
      <3> QED
        BY <1>d, <1>t, <2>1, <3>1, ScreenKept, PreviewKept
    <2> QED
      BY <2>2, <2>3
  <1>4. CASE \E arrow \in {"up", "down", "left", "right"} : ArrowKey(arrow)
    <2>1. ModeInv'
      BY <1>4 DEF ArrowKey, ScreenInv, ModeInv
    <2>2. Drawn
      BY <1>4, <1>c DEF ArrowKey
    <2>3. PICK arrow \in {"up", "down", "left", "right"} : ArrowKey(arrow)
      BY <1>4
    <2>4. cursor'.Address = cursor.Address
      BY <2>3, ArrowDeltaIsInt, MoveCursorStaysOnPage DEF ArrowKey, TypeOK, Cursors
    <2>5. screen'.preview = screen.preview
      BY <2>3 DEF ArrowKey, MoveHighlight, TypeOK
    <2>6. UNCHANGED <<memMap, coreMap, firmware, memory, attributeChanges>>
      BY <2>3 DEF ArrowKey, maps, budget
    <2>7. PreviewDrawn'
      BY <1>t, <2>2, <2>4, <2>5, <2>6, PreviewKept
    <2> QED
      BY <1>d, <2>1, <2>2, <2>3, <2>7, MoveHighlightIsDrawn
  <1>5. CASE \E w \in Widths : WidthKey(w)
    BY <1>5, <1>a, <1>c DEF WidthKey
  <1>6. CASE EditKey
    BY <1>6, <1>b DEF EditKey
  <1>7. CASE EditRefused
    BY <1>7, <1>a, <1>c DEF EditRefused
  <1>8. CASE (\E v \in Values(cursor) : EditSubmit(v)) \/ EditFails \/ EditCancel
    BY <1>8, <1>a DEF EditSubmit, EditFails, EditCancel, EditEnds
  <1>9. CASE GotoKey
    BY <1>9, <1>b DEF GotoKey
  <1>10. CASE (\E a \in Word : GotoSubmit(a)) \/ GotoCancel
    BY <1>10, <1>a DEF GotoSubmit, GotoCancel, GotoEnds
  <1>11. CASE PageDownKey \/ PageUpKey
    <2>1. PICK p : MoveToPage(p)
      BY <1>11 DEF PageDownKey, PageUpKey
    <2>2. pc = "key" /\ pc' = "loop" /\ mode' = mode /\ memory' = memory /\ screen' = screen
      BY <2>1 DEF MoveToPage
    <2>3. CASE p # cursor.Address
      BY <1>a, <1>c, <2>1, <2>2, <2>3 DEF MoveToPage
    <2>4. CASE p = cursor.Address
      <3>1. /\ UNCHANGED <<screen, cursor, pageInfo, memory>>
            /\ UNCHANGED <<memMap, coreMap, firmware, attributeChanges>>
            /\ needsRedraw' = needsRedraw
        BY <2>1, <2>2, <2>4 DEF MoveToPage, maps, budget
      <3>2. ModeInv'
        BY <1>c, <2>2, <3>1 DEF ModeInv
      <3> QED
        BY <1>c, <1>d, <1>t, <2>2, <3>1, <3>2, ScreenKept, PreviewKept
    <2> QED
      BY <2>3, <2>4
  <1>12. CASE RangesKey
    BY <1>12, <1>c DEF RangesKey, ScreenInv, ModeInv, NoRedrawAhead
  <1>13. CASE RangesReturn
    BY <1>13, <1>a DEF RangesReturn, ScreenInv, ModeInv
  <1>14. CASE OtherKey
    <2>1. /\ Drawn
          /\ UNCHANGED <<screen, cursor, pageInfo, memory>>
          /\ UNCHANGED <<memMap, coreMap, firmware, attributeChanges>>
      BY <1>14, <1>c DEF OtherKey, maps, budget
    <2>2. ModeInv'
      BY <1>14, <1>c DEF OtherKey, ModeInv
    <2> QED
      BY <1>d, <1>t, <2>1, <2>2, ScreenKept, PreviewKept
  <1>15. CASE EscKey
    BY <1>15, <1>b DEF EscKey
  <1>16. CASE \/ \E p \in EfiPages, A \in AttributeChoices : FirmwareSetsAttributes(p, A)
              \/ UNCHANGED vars
    <2>1. UNCHANGED <<screen, cursor, pageInfo, memory, pc, mode, needsRedraw>>
      BY <1>16 DEF FirmwareSetsAttributes, vars
    <2>2. \/ attributeChanges' # 0
          \/ UNCHANGED <<memMap, coreMap, firmware, attributeChanges>>
      BY <1>16 DEF FirmwareSetsAttributes, vars, TypeOK
    <2> QED
      BY <1>t, <2>1, <2>2, ScreenKept, PreviewKept DEF ScreenInv, ModeInv, NoRedrawAhead
  <1> QED
    BY <1>1, <1>2, <1>3, <1>4, <1>5, <1>6, <1>7, <1>8, <1>9, <1>10, <1>11, <1>12,
       <1>13, <1>14, <1>15, <1>16 DEF Next

\* The strengthened screen invariant holds throughout.
LEMMA ScreenInvariant == Spec => []ScreenInv
  <1>1. Init => ScreenInv
    BY DEF Init, ScreenInv, ModeInv, NoRedrawAhead
  <1>2. TypeOK /\ ScreenInv /\ [Next]_vars => ScreenInv'
    BY StepScreenInv
  <1> QED
    BY <1>1, <1>2, TypeCorrect, PTL DEF Spec

\* At the prompt the frame of the page is the current one, after any sequence
\* of keys, prompts and lists.
THEOREM PromptIsCurrent == Spec => []PromptShowsPage
  <1>1. ScreenInv => PromptShowsPage
    BY DEF ScreenInv, ModeInv, NoRedrawAhead, FrameDrawn, PromptShowsPage, AtPrompt
  <1> QED
    BY <1>1, ScreenInvariant, PTL

\* No cell at the prompt shows a value that is no longer in memory, nor one
\* that belongs to another address or width.
THEOREM CellsAreCurrent == Spec => []NoStaleValueShown
  <1>1. ScreenInv => NoStaleValueShown
    BY DEF ScreenInv, NoRedrawAhead, CellsDrawn, CellDrawn, NoStaleValueShown, AtPrompt
  <1> QED
    BY <1>1, ScreenInvariant, PTL

\* The preview column is current, though the fast path of the arrows and the
\* prompts never draw it.
THEOREM PreviewColumnIsCurrent == Spec => []PreviewIsCurrent
  <1>1. ScreenInv => PreviewIsCurrent
    BY DEF ScreenInv, NoRedrawAhead, PreviewDrawn, PreviewIsCurrent, AtPrompt
  <1> QED
    BY <1>1, ScreenInvariant, PTL

\* The one highlighted cell is the cursor's.
THEOREM HighlightIsCurrent == Spec => []HighlightFollowsCursor
  <1>1. ScreenInv => HighlightFollowsCursor
    BY DEF ScreenInv, NoRedrawAhead, HighlightDrawn, HighlightFollowsCursor, AtPrompt
  <1> QED
    BY <1>1, ScreenInvariant, PTL

-----------------------------------------------------------------------------
(* The arrow keys. *)

\* An address between a multiple and the next one is rounded down to it.
LEMMA AlignDownBetween ==
    ASSUME NEW n \in Nat \ {0}, NEW q \in Nat, q % n = 0,
           NEW x \in Nat, q <= x, x < q + n
    PROVE  AlignDown(x, n) = q
  <1> DEFINE b == AlignDown(x, n)
  <1>1. b \in Nat /\ b <= x /\ x < b + n /\ b % n = 0
    BY AlignDownBounds, AlignDownIsMultiple
  <1> HIDE DEF b
  <1>2. ~ (b < q)
    <2>1. ASSUME b < q PROVE b + n <= q
      BY <1>1, <2>1, MultiplesApart
    <2> QED
      BY <1>1, <2>1
  <1>3. ~ (q < b)
    <2>1. ASSUME q < b PROVE q + n <= b
      BY <1>1, <2>1, MultiplesApart
    <2> QED
      BY <1>1, <2>1
  <1>4. b = q
    BY <1>1, <1>2, <1>3
  <1> QED
    BY <1>4 DEF b

\* The offset that lies delta slots from an offset.
OffsetBySlots(c, delta) == Slot(c, c.Offset) + (delta * c.Width)

\* Clamping the offset and rounding it down moves the cursor by whole slots,
\* up to the ends of the page, whether or not it was on a slot.
LEMMA MoveCursorCountsSlots ==
    ASSUME NEW c \in Cursors, NEW delta \in Int
    PROVE  PageCoreMoveCursor(c, delta) =
             [c EXCEPT !.Offset =
                IF OffsetBySlots(c, delta) \in Slots(c.Width) THEN OffsetBySlots(c, delta)
                ELSE IF OffsetBySlots(c, delta) < 0 THEN 0 ELSE PAGE_SIZE - c.Width]
  <1> DEFINE w == c.Width
             o == c.Offset
             r == o % w
             k == o \div w
             l == (PAGE_SIZE \div w) - 1
             j == k + delta
             target == OffsetBySlots(c, delta)
             moved == o + (delta * w)
             last == PAGE_SIZE - w
             clamped == IF moved < 0 THEN 0 ELSE IF moved > last THEN last ELSE moved
             off == AlignDown(clamped, w)
             stop == IF target \in Slots(w) THEN target
                     ELSE IF target < 0 THEN 0 ELSE last
  <1>1. /\ w \in Nat \ {0} /\ w <= PAGE_SIZE /\ PAGE_SIZE \in Nat \ {0} /\ PAGE_SIZE % w = 0
        /\ o \in Nat /\ o < PAGE_SIZE
    BY WidthFacts, Sizes DEF Cursors
  <1>2. k \in Nat /\ o = (w * k) + r /\ r \in Nat /\ r < w
    <2> HIDE DEF w, o
    <2>1. (o \div w) \in Nat /\ o = (w * (o \div w)) + (o % w)
      BY <1>1, DivisionIdentity
    <2>2. (o % w) \in Nat /\ (o % w) < w
      BY <1>1
    <2> QED
      BY <2>1, <2>2
  <1>3. l \in Nat /\ last = w * l /\ last \in Nat
    <2> DEFINE n == PAGE_SIZE \div w
    <2> HIDE DEF w
    <2>1. n \in Nat /\ PAGE_SIZE = (w * n) + (PAGE_SIZE % w)
      BY <1>1, DivisionIdentity
    <2> HIDE DEF n
    <2>2. n # 0
      BY <1>1, <2>1
    <2>3. PAGE_SIZE = w * n
      BY <1>1, <2>1
    <2>4. PAGE_SIZE - w = w * (n - 1)
      BY <1>1, <2>1, <2>3, SMTT(20)
    <2> QED
      BY <1>1, <2>1, <2>2, <2>4 DEF n
  <1>4. j \in Int /\ target = w * j /\ moved = (w * j) + r
    <2> HIDE DEF w, o, r, k
    <2>1. w * (k + delta) = (w * k) + (delta * w)
      BY <1>1, <1>2, SMTT(20)
    <2>2. Slot(c, c.Offset) = o - r
      BY DEF Slot, AlignDown, o, r, w
    <2>3. (w * k) \in Nat /\ (delta * w) \in Int
      BY <1>1, <1>2
    <2> QED
      BY <1>1, <1>2, <2>1, <2>2, <2>3 DEF OffsetBySlots, w
  <1> HIDE DEF w, o, r, k, l, j, target, last
  <1>5. \A x : x \in Slots(w) <=> x \in Nat /\ x <= PAGE_SIZE - 1 /\ x % w = 0
    BY <1>1 DEF Slots
  <1>6. CASE j < 0
    <2>1. w * j <= 0 - w
      BY <1>1, <1>4, <1>6, SMTT(20)
    <2>2. w * j \in Int
      BY <1>1, <1>4
    <2>3. moved < 0 /\ target < 0 /\ target \notin Slots(w)
      BY <1>1, <1>2, <1>4, <1>5, <2>1, <2>2
    <2>4. AlignDown(0, w) = 0
      BY <1>1, AlignDownBounds
    <2> QED
      <3>1. clamped = 0 /\ stop = 0
        BY <2>3
      <3>2. off = stop
        BY <2>4, <3>1
      <3> QED
        BY <3>2 DEF PageCoreMoveCursor, w, o, last, target
  <1>7. CASE j \in Nat /\ j <= l
    <2>1. /\ target \in Nat /\ target % w = 0
          /\ last % w = 0
          /\ target <= last
          /\ target < last => target + w <= last
      <3>1. (w * j) % w = 0 /\ (w * l) % w = 0 /\ w * j \in Nat /\ w * l \in Nat
        BY <1>1, <1>3, <1>7, ProductIsMultiple
      <3>2. w * j <= w * l
        BY <1>1, <1>3, <1>7, SMTT(20)
      <3>3. w * j < w * l => (w * j) + w <= w * l
        BY <1>1, <1>3, <1>7, ProductsApart
      <3> QED
        BY <1>3, <1>4, <3>1, <3>2, <3>3
    <2>2. moved = target + r
      BY <1>4
    <2>3. last <= PAGE_SIZE - 1
      BY <1>1 DEF last
    <2>4. target \in Slots(w)
      BY <1>1, <1>3, <1>5, <2>1, <2>3
    <2>5. clamped \in Nat /\ target <= clamped /\ clamped < target + w
      <3> HIDE DEF moved
      <3> QED
        BY <1>1, <1>2, <1>3, <2>1, <2>2
    <2>6. off = target
      <3> HIDE DEF clamped
      <3> QED
        BY <1>1, <2>1, <2>5, AlignDownBetween
    <2>7. off = stop
      BY <2>4, <2>6
    <2> QED
      BY <2>7 DEF PageCoreMoveCursor, w, o, last, target
  <1>8. CASE j \in Nat /\ l < j
    <2>1. /\ target \in Nat /\ last + w <= target
          /\ last % w = 0
      <3>1. (w * l) % w = 0 /\ w * j \in Nat /\ w * l \in Nat
        BY <1>1, <1>3, <1>8, ProductIsMultiple
      <3>2. w * l < w * j
        BY <1>1, <1>3, <1>8, SMTT(20)
      <3>3. (w * l) + w <= w * j
        BY <1>1, <1>3, <1>8, <3>2, ProductsApart
      <3> QED
        BY <1>3, <1>4, <3>1, <3>3
    <2>2. moved = target + r
      BY <1>4
    <2>3. last = PAGE_SIZE - w
      BY DEF last
    <2>4. target \notin Slots(w) /\ ~ (target < 0)
      BY <1>1, <1>5, <2>1, <2>3
    <2>5. clamped = last
      <3> HIDE DEF moved
      <3> QED
        BY <1>1, <1>2, <1>3, <2>1, <2>2
    <2>6. AlignDown(last, w) = last
      BY <1>1, <1>3, <2>1, AlignDownBetween
    <2>7. off = stop
      BY <2>4, <2>5, <2>6
    <2> QED
      BY <2>7 DEF PageCoreMoveCursor, w, o, last, target
  <1> QED
    BY <1>3, <1>4, <1>6, <1>7, <1>8

\* The arrows move the cursor by whole slots at every width, and also from an
\* offset between two slots, where only Goto leaves it.
THEOREM ArrowsCountSlots == Spec => ArrowsMoveBySlots
  <1> DEFINE Moves == \A arrow \in {"up", "down", "left", "right"} : ArrowKey(arrow) =>
                        LET w      == cursor.Width
                            target == Slot(cursor, cursor.Offset) + ArrowDelta(arrow, w) * w
                        IN cursor' = [cursor EXCEPT !.Offset =
                                        IF target \in Slots(w) THEN target
                                        ELSE IF target < 0 THEN 0 ELSE PAGE_SIZE - w]
  <1>1. TypeOK => Moves
    <2> SUFFICES ASSUME TypeOK, NEW arrow \in {"up", "down", "left", "right"}, ArrowKey(arrow)
                 PROVE  cursor' = [cursor EXCEPT !.Offset =
                          IF OffsetBySlots(cursor, ArrowDelta(arrow, cursor.Width)) \in Slots(cursor.Width)
                          THEN OffsetBySlots(cursor, ArrowDelta(arrow, cursor.Width))
                          ELSE IF OffsetBySlots(cursor, ArrowDelta(arrow, cursor.Width)) < 0
                               THEN 0 ELSE PAGE_SIZE - cursor.Width]
      BY Zenon DEF OffsetBySlots
    <2>1. cursor \in Cursors /\ ArrowDelta(arrow, cursor.Width) \in Int
      BY ArrowDeltaIsInt DEF TypeOK, Cursors
    <2> QED
      BY <2>1, MoveCursorCountsSlots, Zenon DEF ArrowKey
  <1> HIDE DEF Moves
  <1>2. Spec => [][Moves]_vars
    BY <1>1, TypeCorrect, PTL DEF Spec
  <1> QED
    BY <1>2 DEF Moves, ArrowsMoveBySlots
=============================================================================
