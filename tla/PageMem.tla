------------------------------- MODULE PageMem ------------------------------
(***************************************************************************)
(* The PageMem memory viewer: the controller's key loop, the actions it    *)
(* dispatches, what they leave on the screen, and the memory they touch.   *)
(*                                                                         *)
(* The program is a single thread that runs between four places where it   *)
(* waits for a key: the key loop (pc = "key"), the hexadecimal input of    *)
(* Edit and Goto ("editHex", "gotoHex"), and the range list ("ranges").    *)
(* A step is the code between two of them; "loop" is the top of the loop   *)
(* in PageMemControllerRun, "menu" the application menu outside the page.  *)
(* While the program waits, the firmware may change memory attributes.     *)
(***************************************************************************)
EXTENDS AddressMap, NexusMemLib, CursorEngine

CONSTANTS
    Byte,                \* the values of a byte of memory
    MemoryMaps,          \* the maps the firmware may report
    MaxDescriptors,      \* capacity of gBridgeDescriptors and gCoreDescriptors, 128
    AttributeChoices,    \* the attribute sets the firmware moves between
    MaxWrites,           \* bound: successful writes in a behaviour
    MaxAttributeChanges  \* bound: attribute changes in a behaviour

ASSUME PageMemAssumption ==
    /\ Byte # {}
    /\ \A w \in Widths : w <= COLS /\ PAGE_SIZE % COLS = 0 /\ COLS % w = 0
    /\ \A m \in MemoryMaps : /\ m \in Seq(EfiDescriptor)
                             /\ m # <<>>
                             /\ \A i \in DOMAIN m : Conforming(m[i])
    /\ MaxDescriptors \in Nat \ {0}
    /\ AttributeChoices \subseteq AttributeSets
    /\ MaxWrites \in Nat
    /\ MaxAttributeChanges \in Nat

VARIABLES
    memMap,            \* gMemMap, the library's copy of the firmware map
    coreMap,           \* gCoreDescriptors, the adapter's copy, used by Core
    firmware,          \* the memory attribute protocol and its attributes
    memory,            \* contents of physical memory
    pc,                \* where the program is
    mode,              \* CurrentState
    cursor,            \* CursorState
    pageInfo,          \* PageUefiMemoryType, PageHasMemoryDescriptor, PageAccess
    needsRedraw,       \* NeedsRedraw
    screen,            \* what the console shows
    writes,            \* successful writes so far
    attributeChanges   \* attribute changes so far

vars == <<memMap, coreMap, firmware, memory, pc, mode, cursor, pageInfo,
          needsRedraw, screen, writes, attributeChanges>>

maps   == <<memMap, coreMap>>
budget == <<writes, attributeChanges>>

-----------------------------------------------------------------------------
(* The adapter's view of the map. *)

\* MemAdapterInit: types mapped, descriptors beyond the capacity dropped.
AdapterMap(m) ==
    [i \in {j \in DOMAIN m : j <= MaxDescriptors} |->
        [type |-> MapMemoryType(m[i].type), UefiType |-> m[i].type,
         start |-> m[i].start, pages |-> m[i].pages]]

\* MemAdapterGetMemoryTypeAtAddress: the indices of the descriptors holding
\* the address; the code stops at the first.
DescriptorsAt(map, a) ==
    {i \in DOMAIN map : /\ map[i].pages # 0
                        /\ map[i].pages <= MaxU64 \div EFI_PAGE
                        /\ EndsInWord(map[i])
                        /\ map[i].start <= a
                        /\ a < DescriptorEnd(map[i])}

\* The type shown for an address that no descriptor holds.
Unmapped == "Unmapped"

TypeAt(map, a) == IF DescriptorsAt(map, a) = {} THEN Unmapped
                  ELSE map[Min(DescriptorsAt(map, a))].UefiType

\* PageMemControllerUpdatePageType for the page at a.
PageInfo(a) ==
    [type |-> TypeAt(coreMap, a),
     access |-> QueryMemoryAccess(memMap, firmware, a, PAGE_SIZE)]

-----------------------------------------------------------------------------
(* The screen.  A cell is kept by the offset of its slot.  Its text is the *)
(* bytes it shows, by address, or Masked ('?').  preview is the column of  *)
(* characters on the right, one for each byte, where Masked is the dot of  *)
(* a byte that could not be read.  lit holds the slots drawn in the        *)
(* highlight attribute; info and title hold what the information and the   *)
(* type row show, if anything; prompt is what was written over the page    *)
(* since it was drawn, error whether an error message is on it.            *)

Masked == [x \in {} |-> 0]
Content(a, w) == [x \in a .. (a + w - 1) |-> memory[x]]

NoCursor == [Address |-> 0, Offset |-> 0, Width |-> 1]
NoInfo   == [type |-> Unmapped, access |-> AccessUnknown]

Slots(w) == {o \in 0 .. (PAGE_SIZE - 1) : o % w = 0}

Blank == [o \in 0 .. (PAGE_SIZE - 1) |-> Masked]

ClearedScreen == [title |-> {}, cells |-> Blank, preview |-> Blank,
                  lit |-> {}, info |-> {}, prompt |-> "none", error |-> FALSE]

\* Mutant: reads the address directly instead of through MemRead.
CellTextUnchecked(c, o) ==
    LET a == Wrap(c.Address + o)
    IN IF PageCoreIsRangeValid(coreMap, a, c.Width)
       THEN Content(a, c.Width) ELSE Masked

\* Mutant: leaves the check of the range to the library.
CellTextWithoutCore(c, o) ==
    LET a == Wrap(c.Address + o)
    IN IF MemReadSucceeds(memMap, firmware, a, c.Width)
       THEN Content(a, c.Width) ELSE Masked

\* The text DrawCell produces for the cell at an offset of the page.
CellText(c, o) ==
    LET a == Wrap(c.Address + o)
    IN IF /\ PageCoreIsRangeValid(coreMap, a, c.Width)
          /\ MemReadSucceeds(memMap, firmware, a, c.Width)
       THEN Content(a, c.Width) ELSE Masked

\* RenderAsciiPreview makes the same check and read for each byte on its own,
\* whatever the width.
PreviewText(c, o) == CellText([c EXCEPT !.Width = 1], o)

\* GetCellPosition gives every offset of a slot the slot's position.
Slot(c, o) == AlignDown(o, c.Width)

\* PageMemViewDrawPage.
DrawPage ==
    [title  |-> {pageInfo},
     cells  |-> [o \in 0 .. (PAGE_SIZE - 1) |->
                    IF o \in Slots(cursor.Width) THEN CellText(cursor, o) ELSE Masked],
     preview |-> [o \in 0 .. (PAGE_SIZE - 1) |-> PreviewText(cursor, o)],
     lit    |-> {cursor.Offset} \cap Slots(cursor.Width),
     info   |-> {cursor},
     prompt |-> "none",
     error  |-> FALSE]

\* Mutant: draws the new cell only.
MoveHighlightForward(c) ==
    LET new == Slot(c, c.Offset)
    IN [screen EXCEPT
          !.cells = [@ EXCEPT ![new] = CellText(c, c.Offset)],
          !.lit   = @ \cup {new},
          !.info  = {c}]

\* The fast path of the arrow keys: the old cell without, the new cell with
\* the highlight, then the information row.
MoveHighlight(c) ==
    LET old == Slot(c, cursor.Offset)
        new == Slot(c, c.Offset)
    IN [screen EXCEPT
          !.cells = [@ EXCEPT ![old] = CellText(c, cursor.Offset),
                              ![new] = CellText(c, c.Offset)],
          !.lit   = (@ \ {old}) \cup {new},
          !.info  = {c}]

\* ErrorAdapter->ReportError.
WithError(s) == [s EXCEPT !.error = TRUE]

-----------------------------------------------------------------------------
Init ==
    /\ memMap = <<>>
    /\ coreMap = <<>>
    /\ firmware \in [present : BOOLEAN, attrs : [EfiPages -> {{}}]]
    /\ \E b \in Byte : memory = [a \in Word |-> b]
    /\ pc = "menu"
    /\ mode = "VIEWING"
    /\ cursor = NoCursor
    /\ pageInfo = NoInfo
    /\ needsRedraw = FALSE
    /\ screen = ClearedScreen
    /\ writes = 0
    /\ attributeChanges = 0

\* PageMemControllerInit with a firmware that reports the map m.
EnterPage(m) ==
    /\ pc = "menu"
    /\ memMap' = m
    /\ coreMap' = AdapterMap(m)
    /\ pc' = "loop"
    /\ mode' = "VIEWING"
    /\ cursor' = [Address |-> PageCoreAlignToPage(PageCoreGetFirstValidAddress(coreMap')),
                  Offset |-> 0, Width |-> 1]
    /\ pageInfo' = [type |-> TypeAt(coreMap', cursor'.Address),
                    access |-> QueryMemoryAccess(memMap', firmware, cursor'.Address, PAGE_SIZE)]
    /\ needsRedraw' = TRUE
    /\ UNCHANGED <<firmware, memory, screen, budget>>

\* PageMemControllerInit when InitMemoryMap fails: the library has no map, the
\* adapter keeps the one of the last entry, and the menu clears the error
\* message as it is drawn again.  After a failure of the second GetMemoryMap
\* the code keeps a buffer that was never filled, and its size (MemInit has
\* this case); no page reads it, since the next opening frees it.
EnterFails ==
    /\ pc = "menu"
    /\ memMap' = <<>>
    /\ UNCHANGED <<coreMap, firmware, memory, pc, mode, cursor, pageInfo,
                   needsRedraw, screen, budget>>

\* The top of the loop in PageMemControllerRun.
DrawAndWait ==
    /\ pc = "loop"
    /\ pc' = "key"
    /\ screen' = IF needsRedraw THEN DrawPage ELSE screen
    /\ needsRedraw' = FALSE
    /\ UNCHANGED <<maps, firmware, memory, mode, cursor, pageInfo, budget>>

ArrowKey(arrow) ==
    LET moved == PageCoreMoveCursor(cursor, ArrowDelta(arrow, cursor.Width))
    IN /\ pc = "key"
       /\ pc' = "loop"
       /\ cursor' = moved
       /\ IF moved.Offset # cursor.Offset
          THEN screen' = MoveHighlight(moved) /\ needsRedraw' = FALSE
          ELSE UNCHANGED <<screen, needsRedraw>>
       /\ UNCHANGED <<maps, firmware, memory, mode, pageInfo, budget>>

\* Mutant: forgets to mark the page for redraw.
WidthKeyWithoutRedraw(w) ==
    /\ pc = "key"
    /\ pc' = "loop"
    /\ cursor' = PageCoreSetCursorWidth(cursor, w)
    /\ UNCHANGED <<maps, firmware, memory, mode, pageInfo, needsRedraw, screen, budget>>

WidthKey(w) ==
    /\ pc = "key"
    /\ pc' = "loop"
    /\ cursor' = PageCoreSetCursorWidth(cursor, w)
    /\ needsRedraw' = TRUE
    /\ UNCHANGED <<maps, firmware, memory, mode, pageInfo, screen, budget>>

-----------------------------------------------------------------------------
(* Edit. *)

\* The checks PageMemActionEditValue makes before it asks for a value.
Editable(c) ==
    /\ c.Offset % c.Width = 0
    /\ PageCoreIsRangeValid(coreMap, PageCoreGetCurrentAddress(c), c.Width)

EditKey ==
    /\ pc = "key"
    /\ Editable(cursor)
    /\ pc' = "editHex"
    /\ mode' = "EDITING"
    /\ needsRedraw' = TRUE
    /\ screen' = [screen EXCEPT !.info = {}, !.prompt = "edit"]
    /\ UNCHANGED <<maps, firmware, memory, cursor, pageInfo, budget>>

\* The action reports the failure, and so does the loop.
EditRefused ==
    /\ pc = "key"
    /\ ~Editable(cursor)
    /\ pc' = "loop"
    /\ needsRedraw' = TRUE
    /\ screen' = WithError(screen)
    /\ UNCHANGED <<maps, firmware, memory, mode, cursor, pageInfo, budget>>

\* The state transition and the redraw request that end the E key.
EditEnds ==
    /\ pc' = "loop"
    /\ mode' = "VIEWING"
    /\ needsRedraw' = TRUE
    /\ UNCHANGED <<maps, firmware, cursor, pageInfo, attributeChanges>>

\* The bytes ReadHex can deliver at the selected width: at most two digits
\* for each byte, so the value always fits.
Values(c) == LET a == PageCoreGetCurrentAddress(c) IN [a .. (a + c.Width - 1) -> Byte]

\* Mutant: trusts the access looked up when the page was entered.
EditSubmitTrustingPage(v) ==
    /\ pc = "editHex"
    /\ pageInfo.access.WriteAllowed
    /\ writes < MaxWrites
    /\ memory' = [x \in Word |-> IF x \in DOMAIN v THEN v[x] ELSE memory[x]]
    /\ writes' = writes + 1
    /\ EditEnds
    /\ UNCHANGED screen

\* Mutant: redraws the edited cell and the information row instead of the page.
EditSubmitCellOnly(v) ==
    /\ pc = "editHex"
    /\ MemWriteSucceeds(memMap, firmware, PageCoreGetCurrentAddress(cursor), cursor.Width)
    /\ writes < MaxWrites
    /\ memory' = [x \in Word |-> IF x \in DOMAIN v THEN v[x] ELSE memory[x]]
    /\ writes' = writes + 1
    /\ pc' = "loop"
    /\ mode' = "VIEWING"
    /\ needsRedraw' = FALSE
    /\ screen' = [screen EXCEPT !.cells = [@ EXCEPT ![cursor.Offset] = v],
                                !.info = {cursor}, !.prompt = "none"]
    /\ UNCHANGED <<maps, firmware, cursor, pageInfo, attributeChanges>>

\* The user enters a value and MemWrite stores it.
EditSubmit(v) ==
    /\ pc = "editHex"
    /\ MemWriteSucceeds(memMap, firmware, PageCoreGetCurrentAddress(cursor), cursor.Width)
    /\ writes < MaxWrites
    /\ memory' = [x \in Word |-> IF x \in DOMAIN v THEN v[x] ELSE memory[x]]
    /\ writes' = writes + 1
    /\ EditEnds
    /\ UNCHANGED screen

\* The user enters a value and MemWrite refuses it.
EditFails ==
    /\ pc = "editHex"
    /\ ~MemWriteSucceeds(memMap, firmware, PageCoreGetCurrentAddress(cursor), cursor.Width)
    /\ EditEnds
    /\ screen' = WithError(screen)
    /\ UNCHANGED <<memory, writes>>

\* ESC in the prompt.
EditCancel ==
    /\ pc = "editHex"
    /\ EditEnds
    /\ UNCHANGED <<memory, writes, screen>>

-----------------------------------------------------------------------------
(* Goto. *)

GotoKey ==
    /\ pc = "key"
    /\ pc' = "gotoHex"
    /\ mode' = "GOTO"
    /\ needsRedraw' = TRUE
    /\ screen' = [screen EXCEPT !.prompt = "goto"]
    /\ UNCHANGED <<maps, firmware, memory, cursor, pageInfo, budget>>

\* ClearGotoPrompt and the state transition that end the G key.
GotoEnds ==
    /\ pc' = "loop"
    /\ mode' = "VIEWING"
    /\ needsRedraw' = TRUE
    /\ screen' = [screen EXCEPT !.prompt = "none"]
    /\ UNCHANGED <<maps, firmware, memory, budget>>

\* Mutant: forgets to look up the type and the access of the new page.
GotoSubmitKeepingType(a) ==
    /\ pc = "gotoHex"
    /\ cursor' = [cursor EXCEPT !.Address = PageCoreAlignToPage(a),
                                !.Offset  = a - PageCoreAlignToPage(a)]
    /\ GotoEnds
    /\ UNCHANGED pageInfo

GotoSubmit(a) ==
    /\ pc = "gotoHex"
    /\ cursor' = [cursor EXCEPT !.Address = PageCoreAlignToPage(a),
                                !.Offset  = a - PageCoreAlignToPage(a)]
    /\ pageInfo' = IF cursor'.Address # cursor.Address
                   THEN PageInfo(cursor'.Address) ELSE pageInfo
    /\ GotoEnds

GotoCancel ==
    /\ pc = "gotoHex"
    /\ GotoEnds
    /\ UNCHANGED <<cursor, pageInfo>>

-----------------------------------------------------------------------------
(* Paging and the other keys. *)

\* The page N (P) moves to: the one Core finds, if it is a full valid page.
PageDownTarget(map, p) ==
    LET next == PageCoreGetNextValidPageAddress(map, p)
    IN IF PageCoreIsRangeValid(map, next, PAGE_SIZE) THEN next ELSE p

PageUpTarget(map, p) ==
    LET previous == PageCoreGetPreviousValidPageAddress(map, p)
    IN IF PageCoreIsRangeValid(map, previous, PAGE_SIZE) THEN previous ELSE p

MoveToPage(p) ==
    /\ pc = "key"
    /\ pc' = "loop"
    /\ IF p # cursor.Address
       THEN /\ cursor' = [cursor EXCEPT !.Address = p, !.Offset = 0]
            /\ pageInfo' = PageInfo(p)
            /\ needsRedraw' = TRUE
       ELSE UNCHANGED <<cursor, pageInfo, needsRedraw>>
    /\ UNCHANGED <<maps, firmware, memory, mode, screen, budget>>

PageDownKey == MoveToPage(PageDownTarget(coreMap, cursor.Address))
PageUpKey   == MoveToPage(PageUpTarget(coreMap, cursor.Address))

\* R: DumpMemoryRanges clears the screen and waits for a key.
RangesKey ==
    /\ pc = "key"
    /\ pc' = "ranges"
    /\ screen' = [ClearedScreen EXCEPT !.prompt = "ranges"]
    /\ UNCHANGED <<maps, firmware, memory, mode, cursor, pageInfo, needsRedraw, budget>>

\* Mutant: forgets to mark the page for redraw.
RangesReturnWithoutRedraw ==
    /\ pc = "ranges"
    /\ pc' = "loop"
    /\ UNCHANGED <<maps, firmware, memory, mode, cursor, pageInfo, needsRedraw, screen, budget>>

RangesReturn ==
    /\ pc = "ranges"
    /\ pc' = "loop"
    /\ needsRedraw' = TRUE
    /\ UNCHANGED <<maps, firmware, memory, mode, cursor, pageInfo, screen, budget>>

\* A key that is bound to nothing: NX_UI_NOT_FOUND, which the loop ignores.
OtherKey ==
    /\ pc = "key"
    /\ pc' = "loop"
    /\ UNCHANGED <<maps, firmware, memory, mode, cursor, pageInfo, needsRedraw, screen, budget>>

\* ESC in the key loop: the page returns and its state is gone.
EscKey ==
    /\ pc = "key"
    /\ pc' = "menu"
    /\ cursor' = NoCursor
    /\ pageInfo' = NoInfo
    /\ needsRedraw' = FALSE
    /\ screen' = ClearedScreen
    /\ UNCHANGED <<maps, firmware, memory, mode, budget>>

\* Firmware code that runs while the program waits for a key protects or
\* unprotects an EFI page.
FirmwareSetsAttributes(p, attributes) ==
    /\ pc # "loop"
    /\ attributeChanges < MaxAttributeChanges
    /\ firmware.attrs[p] # attributes
    /\ firmware' = [firmware EXCEPT !.attrs[p] = attributes]
    /\ attributeChanges' = attributeChanges + 1
    /\ UNCHANGED <<maps, memory, pc, mode, cursor, pageInfo, needsRedraw, screen, writes>>

-----------------------------------------------------------------------------
Next ==
    \/ \E m \in MemoryMaps : EnterPage(m)
    \/ EnterFails
    \/ DrawAndWait
    \/ \E arrow \in {"up", "down", "left", "right"} : ArrowKey(arrow)
    \/ \E w \in Widths : WidthKey(w)
    \/ EditKey
    \/ EditRefused
    \/ \E v \in Values(cursor) : EditSubmit(v)
    \/ EditFails
    \/ EditCancel
    \/ GotoKey
    \/ \E a \in Word : GotoSubmit(a)
    \/ GotoCancel
    \/ PageDownKey
    \/ PageUpKey
    \/ RangesKey
    \/ RangesReturn
    \/ OtherKey
    \/ EscKey
    \/ \E p \in EfiPages, A \in AttributeChoices : FirmwareSetsAttributes(p, A)

Spec == Init /\ [][Next]_vars
=============================================================================
