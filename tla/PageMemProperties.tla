-------------------------- MODULE PageMemProperties -------------------------
(***************************************************************************)
(* What PageMem must satisfy.  The last part states what the repository's  *)
(* documents say and the code does not do.                                 *)
(***************************************************************************)
EXTENDS PageMem

\* The program waits in the key loop: the user is looking at the page.
AtPrompt == pc = "key"

Cursors == [Address : ViewPages, Offset : 0 .. (PAGE_SIZE - 1), Width : Widths]
PageInfos == [type : EfiTypes \cup {Unmapped}, access : AccessInfo]

\* Type correctness.  The cursor conjunct is also a promise: for every arrow,
\* width and goto the page base stays page-aligned and the offset inside the
\* page, so the cursor's address never wraps and its slot exists.
TypeOK ==
    /\ memMap \in MemoryMaps \cup {<<>>}
    /\ coreMap \in {AdapterMap(m) : m \in MemoryMaps \cup {<<>>}}
    /\ pc # "menu" => memMap # <<>> /\ coreMap = AdapterMap(memMap)
    /\ firmware \in Protocol
    /\ memory \in [Word -> Byte]
    /\ pc \in {"menu", "loop", "key", "editHex", "gotoHex", "ranges"}
    /\ mode \in {"VIEWING", "EDITING", "GOTO"}
    /\ cursor \in Cursors
    /\ pageInfo \in PageInfos
    /\ needsRedraw \in BOOLEAN
    /\ DOMAIN screen = {"title", "cells", "preview", "lit", "info", "prompt", "error"}
    /\ DOMAIN screen.cells = 0 .. (PAGE_SIZE - 1)
    /\ DOMAIN screen.preview = 0 .. (PAGE_SIZE - 1)
    /\ writes \in 0 .. MaxWrites
    /\ attributeChanges \in 0 .. MaxAttributeChanges

-----------------------------------------------------------------------------
(* The screen at the prompt. *)

\* Whatever was typed before, when PageMem waits for a key the type row and
\* the information row are those of the current page and cursor, nothing of
\* an input prompt or of the range list is left, and the controller is back
\* in its viewing state with no redraw pending.
PromptShowsPage ==
    AtPrompt => /\ mode = "VIEWING"
                /\ ~needsRedraw
                /\ screen.prompt = "none"
                /\ screen.title = {pageInfo}
                /\ screen.info = {cursor}

\* A cell the user sees at the prompt is '?' or the bytes that are in memory
\* now at the address the page, the slot and the width stand for: no edit,
\* page move, width change or partial redraw leaves an old value behind.  In
\* the model only PageMem's own edits change memory.
NoStaleValueShown ==
    AtPrompt => \A o \in 0 .. (PAGE_SIZE - 1) :
                    screen.cells[o] # Masked =>
                        /\ o \in Slots(cursor.Width)
                        /\ screen.cells[o] = Content(cursor.Address + o, cursor.Width)

\* The preview column at the prompt is as current as the cells, although only
\* the full redraw writes it: every character is that of the byte in memory
\* now (which only PageMem's own edits change, in the model), and as long as the firmware changes no attribute a byte that can be
\* read has its character.
PreviewIsCurrent ==
    AtPrompt => \A o \in 0 .. (PAGE_SIZE - 1) :
        /\ screen.preview[o] # Masked => screen.preview[o] = Content(cursor.Address + o, 1)
        /\ attributeChanges = 0 => screen.preview[o] = PreviewText(cursor, o)

\* At the prompt the highlighted cell is the one Edit would write, and it is
\* the only one: the fast path of the arrow keys always clears the cell it
\* leaves, even when Goto had put the cursor between two slots.
HighlightFollowsCursor ==
    AtPrompt => screen.lit = {cursor.Offset} \cap Slots(cursor.Width)

\* The type and access kept for the title row are those of the current page:
\* every action that moves to another page looks them up again.  The access
\* is the live one until the firmware changes an attribute.
PageInfoIsCurrent ==
    pc # "menu" =>
        /\ pageInfo.type = TypeAt(coreMap, cursor.Address)
        /\ attributeChanges = 0 => pageInfo = PageInfo(cursor.Address)

\* The title row shows a type and an access; together they are what happens in
\* the page.  As long as the access shown is the live one, every cell has a
\* value, and Edit on it reaches memory, exactly when the title names a type
\* and allows the access.  The access comes from one query of the library for
\* the page, the type from the adapter's copy of the map, which may be cut; a
\* cell must pass Core's check of the range in that copy and the library's
\* check of the range in its own map.  For a region that the adapter dropped
\* the library allows what Core refuses: then the title shows no type.
TitleTellsAccess ==
    (pc # "menu" /\ pageInfo = PageInfo(cursor.Address)) =>
        \A w \in Widths : \A o \in Slots(w) :
            LET c == [cursor EXCEPT !.Width = w, !.Offset = o]
                known == pageInfo.type # Unmapped
            IN /\ CellText(c, o) # Masked <=> known /\ pageInfo.access.ReadAllowed
               /\ (/\ Editable(c)
                   /\ MemWriteSucceeds(memMap, firmware, PageCoreGetCurrentAddress(c), w))
                     <=> known /\ pageInfo.access.WriteAllowed

-----------------------------------------------------------------------------
(* The memory PageMem touches. *)

\* A value on the screen, in a cell or in the preview column, was read from
\* one region of RAM or ACPI data: MMIO, reserved and unmapped addresses are
\* never read, although MMIO pages can be browsed and Goto reaches any address.
ReadFrom(map, text) ==
    \E i \in DOMAIN map \cup {0} :
        IF i = 0 THEN text = Masked
        ELSE /\ map[i].type \in ReadableTypes
             /\ \A x \in DOMAIN text :
                    /\ map[i].start <= x
                    /\ x < map[i].start + map[i].pages * EFI_PAGE

OnlyReadableRegionsAreRead ==
    \A o \in 0 .. (PAGE_SIZE - 1) :
        /\ ReadFrom(memMap, screen.cells[o])
        /\ ReadFrom(memMap, screen.preview[o])

\* A write changes only the cell the cursor is on, all of it in one region of
\* RAM, and only where the firmware's attributes at that moment allow it:
\* protection the firmware adds while the user is typing the value is honoured,
\* whatever the access shown when the page was entered.
AttributesAllowWrite(x) ==
    /\ firmware.present
    /\ firmware.attrs[AlignDown(x, EFI_PAGE)] # NoAnswer
    /\ "RO" \notin firmware.attrs[AlignDown(x, EFI_PAGE)]

WriteAllowedNow(bytes) ==
    /\ \A x \in bytes : AttributesAllowWrite(x)
    /\ \E i \in DOMAIN memMap :
          /\ memMap[i].type \in RamTypes
          /\ \A x \in bytes : /\ memMap[i].start <= x
                              /\ x < memMap[i].start + memMap[i].pages * EFI_PAGE

ChangedBytes == {x \in Word : memory'[x] # memory[x]}

WritesAreAllowed ==
    [][ChangedBytes # {} =>
            /\ mode = "EDITING"
            /\ WriteAllowedNow(ChangedBytes)
            /\ \A x \in ChangedBytes :
                  /\ cursor.Address + cursor.Offset <= x
                  /\ x < cursor.Address + cursor.Offset + cursor.Width]_vars

-----------------------------------------------------------------------------
(* Navigation. *)

\* An arrow key moves by whole slots, counted from the slot that holds the
\* offset, and stops at the first or the last slot of the page.  It lands on
\* a slot also from an offset between two slots, where Goto may leave it.
ArrowsMoveBySlots ==
    [][\A arrow \in {"up", "down", "left", "right"} : ArrowKey(arrow) =>
            LET w      == cursor.Width
                target == Slot(cursor, cursor.Offset) + ArrowDelta(arrow, w) * w
            IN cursor' = [cursor EXCEPT !.Offset =
                            IF target \in Slots(w) THEN target
                            ELSE IF target < 0 THEN 0 ELSE PAGE_SIZE - w]]_vars

\* N and P go to the nearest view page, above or below, that lies inside one
\* browsable descriptor, and stay where they are exactly when there is none.
PageKeysFindNearest ==
    [][/\ PageDownKey => cursor'.Address = NearestAbove(ValidPages(coreMap), cursor.Address)
       /\ PageUpKey   => cursor'.Address = NearestBelow(ValidPages(coreMap), cursor.Address)]_vars

\* Core's navigation and the library's own, two implementations of the same
\* promise over two copies of the map, agree on every page while the adapter
\* has room for the map.
NavigationsAgree ==
    (pc # "menu" /\ Len(memMap) <= MaxDescriptors) =>
        /\ PageDownTarget(coreMap, cursor.Address) = GetNextValidPageAddress(memMap, cursor.Address)
        /\ PageUpTarget(coreMap, cursor.Address) = GetPreviousValidPageAddress(memMap, cursor.Address)

\* PageMem implements the abstract viewer: no key other than N, P and an
\* answered Goto changes the page, and N and P change it to a neighbour.
Browser == INSTANCE PageBrowser WITH
    Pages <- ViewPages,
    state <- CASE pc = "menu" -> "closed"
               [] pc = "gotoHex" -> "asking"
               [] OTHER -> "viewing",
    valid <- IF pc = "menu" THEN {} ELSE ValidPages(coreMap),
    page  <- cursor.Address

ImplementsPageBrowser == Browser!Spec

-----------------------------------------------------------------------------
(* Promises of the documents that the code does not keep. *)

\* PageMemView.c:408: "The cell is rendered as a formatted value when the
\* range is valid".  After a Goto to an address between two slots, an arrow
\* key redraws the slot it leaves from the unaligned offset.
ReadableCellsAreShown ==
    (AtPrompt /\ attributeChanges = 0) =>
        \A o \in Slots(cursor.Width) :
            CellText(cursor, o) # Masked => screen.cells[o] # Masked

\* PageMem/README.md:65: "failed writes report an error".  The redraw that
\* the E key always requests clears the screen before the next key is read.
ReportedErrorsAreSeen ==
    [][(screen.error /\ pc' = "key") => screen'.error]_vars

\* NexusMemLib.h:45: "Missing or failed firmware attributes do not make an
\* otherwise known tool policy unknown".  QueryMemoryAccess returns unknown.
KnownPolicyStaysKnown ==
    (pc # "menu" /\ DescriptorsForRange(memMap, cursor.Address, PAGE_SIZE) # {})
        => pageInfo.access.AccessKnown

\* PageMemLayered.h, PageMemActionGotoAddress: "The target page must be valid
\* according to the Core address map."
GotoGoesToValidPages ==
    [][(pc = "gotoHex" /\ cursor'.Address # cursor.Address) =>
            cursor'.Address \in ValidPages(coreMap)]_vars

\* PageMem/README.md:7: "The displayed Type is the original UEFI type for the
\* descriptor containing the current 256-byte view's starting address".  The
\* adapter keeps the first 128 descriptors only.
TypeIsFirmwareType ==
    pc # "menu" =>
        \A i \in DOMAIN memMap :
            (/\ memMap[i].start <= cursor.Address
             /\ cursor.Address < memMap[i].start + memMap[i].pages * EFI_PAGE)
                => pageInfo.type = memMap[i].type
=============================================================================
