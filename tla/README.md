# UefiNexus in TLA+

UefiNexus is a UEFI application with one page so far, PageMem: a viewer and
editor of physical memory on the text console. It is single-threaded. What
makes it hard is not threads but state that is kept in several copies (the
firmware's memory map, the library's, the bridge's and the adapter's; the
firmware's live memory attributes and the access shown in the title; the cursor
and what is drawn on the screen), changed by long sequences of keys, by the
firmware between two keys, and by opening the page again.

Paths below are relative to `UefiNexusPkg/`.

## Inventory

| Component | State | Operations | What makes it correct |
|---|---|---|---|
| PageMem controller and actions (`UI/Pages/PageMem/PageMemController.c`, `PageMemActions.c`) | the page state: mode, cursor, type and access of the page, redraw flag | `Init`, the key loop, Edit, Goto, PageUp, PageDown, width keys, range list, ESC | every path leaves the screen, the title and the cursor in agreement; writes only what is allowed when it writes |
| Core address map (`Core/AddressMap.c`) | none (reads the adapter's descriptors) | range check, next and previous valid page, first address | N and P find the nearest valid page, also at both ends of the address space |
| Core cursor (`Core/CursorEngine.c`) | the cursor | move, set width, align, current address | the cursor stays on its page and on a slot |
| Core state machine (`Core/StateMachine.c`) | mode, redraw flag | transition, mark for redraw | each change of mode requests a redraw |
| View (`PageMemView.c`) | the console | draw the page, redraw one cell, redraw the information row | a partial redraw gives what a full one would |
| Core layout and format (`Core/FormatEngine.c`, `LayoutEngine.c`) | none | text of cells, headers and addresses, display widths | at every width the bytes of a cell stand in the order and under the columns that the header gives |
| NexusMemLib policy (`Library/NexusMemLib/MemMap.c`, `MemAccess.c`) | the cached map, the attribute protocol | `QueryMemoryAccess`, range checks, `MemRead`, `MemWrite`, its own page navigation, `DumpMemoryRanges` | no access outside the policy; agrees with Core |
| NexusMemLib initialization (`MemMap.c`, `InitMemoryMap`) | `gMemMap`, `gMemMapSize`, `gDescSize`, protocol pointer | free, ask for the size, allocate, fetch | re-entrant: nothing lost, nothing stale |
| Bridge and memory adapter (`Adapter/Uefi/UefiBridge.c`, `MemAdapter.c`) | two arrays of 128 descriptors | copy the map down, look up a type, forward | the page works on a prefix of the library's map |
| UI, error adapters, adapter manager | pointers to static tables | forward | - |
| TuiLib (`Library/TuiLib`) | a digit buffer while a number is typed | `TuiReadKey`, `TuiReadHex`, screen calls | the value is the one the user sees |
| Application shell (`Application/UefiNexus`) | menu selection, saved console state | init, menu, dispatch, restore | the console is restored; ESC leads out from everywhere; a page that fails to open leads back to the menu |

Interaction. The menu calls `PageMemLayered`, which calls the controller with
three tables of functions (the adapters). `PageMemControllerInit` calls down:
adapter, bridge, library, firmware; each layer copies the map up. From then on
Core decides with the adapter's copy what may be browsed and the library
decides with its own copy and the firmware's live attributes what may be read
and written. The controller blocks in `ReadKey`, `ReadHex` or the range list.
While it blocks, firmware events run: they may change memory attributes and the
firmware's map. They never run between the check and the access inside
`MemRead` or `MemWrite` in a way that the program could observe, and the model
does not interleave them there.

Hard behaviours: attributes that change between the check that opens a prompt
and the write that ends it; partial redraws over a screen that prompts and
lists have overwritten; Goto to addresses that no slot has; the two ends of the
64-bit address space; the map that grows between the calls that ask for its
size and fetch it; opening the page again after a failure. `PROJECT.json` lists
them as hazards, each with the line where it bites.

## Modules

| Module | Models |
|---|---|
| `UefiMemory` | 64-bit arithmetic with wrapping, memory types, type policies, descriptors |
| `AddressMap` | `Core/AddressMap.c`, and the nearest valid page it is measured against |
| `NexusMemLib` | the library's access policy and page navigation; the attribute protocol is external |
| `CursorEngine` | `Core/CursorEngine.c` and the arrow keys' deltas |
| `PageMem` | the viewer: composes the four modules above into a state machine |
| `PageBrowser` | abstract specification: which page is shown, and nothing else |
| `PageMemProperties` | the properties of `PageMem` and its refinement of `PageBrowser` |
| `PageText` | the strings of the page by row and column: header, prefixes, cells, preview |
| `MCPageMem` | small instances for TLC |
| `MemInit` | opening the page: `InitMemoryMap` call by call and the copies of the bridge and the adapter |
| `MapSnapshot` | abstract specification: the page works on one snapshot of the firmware's map |
| `MCMemInit` | small instances for TLC |
| `TuiInput` | the prompt for a number: `TuiReadHex` key by key |
| `LineEditor` | abstract specification: a line of symbols, edited and then submitted or given up |
| `UefiNexus` | the application: startup, menu, dispatch, the range list screen by screen, the console that all of them use |
| `UefiNexusProperties` | the properties of the whole application |
| `MCUefiNexus` | a small instance for TLC |
| `AddressMapProofs`, `PageMemProofs`, `PageMemAccessProofs`, `PageNavigationProofs`, `PageTextProofs`, `MemInitProofs`, `TuiInputProofs`, `UefiNexusProofs` | theorems and their proofs |

`PageMem` composes `UefiMemory`, `AddressMap`, `NexusMemLib` and
`CursorEngine`; `UefiNexus` extends it with the shell and the list, each of its
steps being a step of the page together with what it does to the console, or a
step of the shell that leaves the page alone. `MemInit` and `TuiInput` refine what `PageMem` takes in one
step: how the map it enters with came about, and how the value of a prompt did.
`MapSnapshot` is what `MemInit` promises of the first: one map of the firmware, cut to
what the adapter holds, and fixed until the page is left. `EnterPage` takes just that.

### PageMem: state and actions

| Variable | Code |
|---|---|
| `memMap`, `coreMap` | `gMemMap`; `gCoreDescriptors` |
| `firmware` | the memory attribute protocol: whether it is there, and the attributes of each EFI page |
| `memory` | the bytes of physical memory |
| `pc` | where the program waits: `menu`, the top of the `loop`, `key` (`ReadKey`), `editHex` and `gotoHex` (`ReadHex`), `ranges` |
| `mode`, `cursor`, `pageInfo`, `needsRedraw` | `CurrentState`, `CursorState`, `PageUefiMemoryType` with `PageAccess`, `NeedsRedraw` |
| `screen` | the console: type row, cells, preview column, highlighted cells, information row, prompt text, error text |
| `writes`, `attributeChanges` | history counters, bounded by `MaxWrites` and `MaxAttributeChanges` |

An action is the code from one blocking call to the next; `DrawAndWait` is the
top of the loop, kept apart because errors are reported just before it.

| Action | Code |
|---|---|
| `EnterPage`, `EnterFails` | `PageMemControllerInit` |
| `DrawAndWait` | `PageMemControllerRun`: redraw if requested, `ReadKey` |
| `ArrowKey` | the cursor move and the fast redraw path |
| `WidthKey` | keys 1, 2, 4, 8 |
| `EditKey`, `EditRefused`, `EditSubmit`, `EditFails`, `EditCancel` | key E: the checks and the prompt; their failure; a value that `MemWrite` stores; one that it refuses; ESC |
| `GotoKey`, `GotoSubmit`, `GotoCancel` | key G likewise |
| `PageDownKey`, `PageUpKey` | keys N and P |
| `RangesKey`, `RangesReturn` | key R, and the key that leaves the list |
| `OtherKey`, `EscKey` | an unbound key; leaving the page |
| `FirmwareSetsAttributes` | external: an event that protects or unprotects an EFI page |

A cell's text is kept as the bytes it shows, by address, or as `Masked`; two
texts are the same exactly when address, width and bytes are.

### MemInit: state and actions

`pc` marks the points inside `InitMemoryMap` (`idle`, `sized`, `allocated`,
`fetched`) and the open page. `gMemMap`, `gMemMapSize` are the library's statics,
`capacity` and `pools` the truth about the pool, `bridge` and `core` the arrays up to
their counts. `AskForSize` frees the old buffer and makes the first
`GetMemoryMap` call; `Allocate` and `AllocateFails` grow the size by two
descriptors and allocate, which may change the firmware's map; `FetchMap` is
the second call; `CopyDown` is the copying up to the adapter; `ClosePage` is
ESC; `FirmwareChangesMap` may happen between any two. Sizes count descriptors.
`mapsSince` is history: the maps that the firmware has had since the opening under way, or the
last one, began. A second `GetMemoryMap` call that fails leaves a buffer that was never
filled, with the size that it asked for (`MemMap.c:302`); the next opening frees it.
`PageMem`'s `EnterFails` says only that there is no map, because the page cannot tell the two apart.
`GetMemoryMap` is external and answers as the UEFI specification says: too
small a size gets the size needed, a missing buffer that would be large enough
gets `EFI_INVALID_PARAMETER`. It may overestimate the size by `Slack`.

### TuiInput: state and actions

`buffer`, `index` and `maxDigits` are the locals of `TuiReadHex`; `echo` is what the
prompt shows, `result` the value of a call that returned `TRUE`. `ReadHex` is the code
up to the loop: the array starts with any contents, as an uninitialized local does. `DigitKey`,
`BackspaceKey`, `EnterKey` and `EscKey` are one turn of the loop each; every
other key, a digit beyond the limit and a backspace on an empty line change
nothing. `StrHexToUint64` is external: it reads up to the terminator, digit by
digit (`AddDigit`), and stops at the largest value. Both cases of a hexadecimal letter are one digit.

### PageText: the page by row and column

`PageText` has no state of its own: `Printed` is the set of strings, each with its
row and column, that the view has printed for the state of `screen`. The header is
one string, cell behind cell; a cell is at `GetCellPosition` with its bytes from
the last to the first; prefixes and preview are at fixed columns. The columns
are those of the code, the sizes of page and row those of the instance.

### UefiNexus: state and actions

| Variable | Code |
|---|---|
| `app` | where the application is: not started, in `PageMenu`, in a page, ended |
| `selected` | `Selected` of `PageMenu`, counted from 1 |
| `console` | `gST->ConOut->Mode`: cursor visibility and attribute; and the attribute of the last clear |
| `saved` | `CursorVisible` and `Attribute` of `APP_CONTEXT` |
| `original` | history: the console before the start |
| `list` | `DumpMemoryRanges`: its index, the lines printed since the last clear with the access shown, and history of the regions that were visible at a wait |

`AppInit` and `MenuEsc` are the start and the end of `UefiNexusMain`; `UpKey`, `DownKey`,
`MenuEnter` and `MenuDigit` are the keys of `PageMenu`, the last two with the
dispatch in `AppRun`. An entry without an entry point, and a page that cannot
be opened, lead back to the menu. `PageDraws`, `PageArrow`, `PageKey`, `PageCancel` and
`PageEsc` are `PageMem`'s actions, grouped by what they do to the console.
`ListStart`, `ListRegion` (a turn of the loop), `ListEnds`, `ListContinue` and
`ListReturn` are `DumpMemoryRanges`. The console scrolls: of what was printed since the last
clear, `OnConsole` keeps what its rows hold. `FirmwareEvent` happens only where
the application waits for a key.

## Runs

| Run | Question | Bounds |
|---|---|---|
| `protection` | Is anything read or written that must not be? Does the title tell what may be done? (`TypeOK`, `OnlyReadableRegionsAreRead`, `TitleTellsAccess`, `WritesAreAllowed`) | 16 addresses in four EFI pages of two view pages, widths 1 and 2, one map with RAM, MMIO, ACPI and a hole, one write, two attribute changes at any prompt: none, read-only or read-protected |
| `screen` | Does the screen show the truth, and do the arrows go by slots? (`PromptShowsPage`, `NoStaleValueShown`, `PreviewIsCurrent`, `BytesStandUnderTheirOffsets`, `HighlightFollowsCursor`, `PageInfoIsCurrent`, `ArrowsMoveBySlots`) | view pages of 8 bytes in two rows of 4, widths 1 and 2, two regions and a hole, one write |
| `navigation` | Do the keys go where they should? (`NavigationsAgree`, `PageKeysFindNearest`, `ImplementsPageBrowser`) | every map of up to two regions over four EFI pages, in any order, overlapping or not, ending at the end of the address space or not |
| `openings` | Is opening re-entrant? (`TypeOK`, `NoBufferIsLost`, `SizeFitsBuffer`, `OpensOnMapOfThisOpening`, `ImplementsMapSnapshot`) | four openings, maps of one to five descriptors, an adapter that keeps three, slack 0 or 1 |
| `hex_input` | Is the value the one the user saw? (`TypeOK`, `ShownIsDelivered`, `ValueFitsRequest`, `ImplementsLineEditor`) | an array of four entries, requests below, at and above its size, base 4 with its least and greatest digit, every initial content of the array |
| `session` | Does the application as a whole keep its promises? (`SessionTypeOK`, `ConsoleRestored`, `ListsEveryRegion`, `ListAgreesWithTitle`, `PromptShowsPage`, `TitleTellsAccess`, `EscComesNearer`, `EscLeadsOut`) | eight addresses in four EFI pages, view pages of one byte, two regions on a screen of the list, a console with no row to spare, maps of one, three and four regions over an adapter that keeps three, so that it drops a region of RAM from the last, no write, one attribute change, to read-protected or to a page without an answer, two entries in the menu |

Why these bounds are enough. The behaviour depends on alignments and on which
side of a boundary an address lies, not on the sizes: pages with several slots
of two widths, an unaligned offset, regions that begin and end at every
boundary, and both ends of the address space all occur. One write is enough to
make any other copy of a value stale, and `session` needs none: its questions are about
waits, the list and the console, which do not depend on memory; two attribute changes are enough to
protect and then protect otherwise, which allows writing again, around a prompt. Two regions
give every relation of a region to the page and to another region; the adapter
with three slots and maps of four and five descriptors exercises truncation, when the
map is opened and in the application, where the title and the cells of the dropped region are compared.
Four openings let a failed one lie between successful ones. An array of four
entries lets digits that were taken back lie before, at and behind the
terminator; the greatest digit alone reaches the limit of the width. The bytes are
symmetric. Rows of four cells of one byte and of two cells of two show every
relation of header and cells: several cells in a row, several bytes in a cell,
and several rows. In `session` the maps fill less than a screen of the list, a screen and
a half, and two screens exactly; the rows are exactly those that a full screen
with its prompt needs, so that one line more would scroll; one region has two
EFI pages, so that an attribute can change in a part of it. The code registers
one page; the second entry, without an entry point, makes the selection matter
and reaches the dispatch of a missing one.

Each property has a mutant in `PROJECT.json`, a plausible bug of the code under
which TLC finds the property violated in the same run.

Runs that end in a violation: what a document of the repository says and the
code does not do.

| Run | What it shows |
|---|---|
| `unaligned_goto` | A Goto to an odd address, then an arrow key at width 2: the slot left is redrawn from the unaligned address and shows `?`, although it is readable (`PageMemView.c:408`). A full redraw repairs it. |
| `lost_error` | The message of a failed or refused write is cleared by the redraw that the E key always requests before a key can be read (`PageMem/README.md:65`). |
| `goto_anywhere` | Goto accepts any address; the header says that the target must be valid (`PageMemLayered.h:95`), `docs/testing.md:98` that this is intended. The header is out of date. |
| `truncated_map` | With more descriptors than the 128 of the bridge and the adapter, the Type row of a later region says that there is none (`PageMem/README.md:7`). |
| `no_protocol` | Without the attribute protocol the access of every range is unknown and nothing can be read; `Include/Library/NexusMemLib.h:45` promises the fallback to the tool policy. `PageMem/README.md:41` says what the code does, and `Tests/Core/test_memlib.c:383` tests it ("Missing protocol leaves access unknown and denied"): the header is out of date. |
| `second_opening` | The second opening passes the old size with no buffer; a firmware map that has not grown makes `GetMemoryMap` refuse the call, and the page does not open (`MemMap.c:275`). The opening after that succeeds or not by the size that the refusal left. |

## Fairness and deadlock

`PageMem`, `MemInit` and `TuiInput` assume no fairness: whether anything happens next
depends on the user, who owes the program nothing. Deadlock is checked in
their runs.

`SessionSpec` assumes weak fairness of `ProgramStep`: drawing the page and running
the loop of the list wait for nothing, and the program is a single thread of
straight-line code. It assumes nothing of the user. What `EscLeadsOut` needs of the user is in
the property itself: a user who from some point on presses nothing but ESC, and presses it
wherever the program waits. Firmware events may go on; they are bounded by
`MaxAttributeChanges`, and none of them disables a key. The run does not check
deadlock, because the application ends. `EscComesNearer` needs no fairness: it says that `StepsToExit`,
the number of steps from the end when nothing but ESC is pressed, falls with every ESC and
every step of the program, which is the reason for `EscLeadsOut`.

## Proofs

`tlapm` checks the eight proof modules for every value of the constants that
satisfies the named assumptions. Those of the viewer: `SizesAssumption` (a view page divides an EFI
page, which divides the address space), `WidthsAssumption`, `ColsAssumption`
and `PageMemAssumption` (widths divide the row and the page, maps are nonempty
and consist of conforming descriptors). All hold of the code's values: 256-byte
pages, 4 KiB EFI pages, 2^64 addresses, widths 1, 2, 4, 8, rows of 16.
`PageTextAssumption` takes pages of at most 256 bytes, whose offsets two hexadecimal
digits can tell apart, and rows whose cells, three columns to a byte, end before the
preview column: the code's 16 begin at column 4 and end before column 52, the preview is at 54.
`MemInitAssumption` takes any set of nonempty maps over any descriptors, told
apart from the two marks of a buffer without a map; the arrays hold at least one
descriptor. `TuiInputAssumption` takes an array of at least one entry and digits
below the base. `UefiNexusAssumption` takes any registry that is not empty and any
console with room for a full screen of the list; the code's 16 lines need 21 of its 25 rows.

| Theorem | States |
|---|---|
| `TypeCorrect` | `Spec => []TypeOK` |
| `PromptIsCurrent` | `Spec => []PromptShowsPage` |
| `CellsAreCurrent` | `Spec => []NoStaleValueShown` |
| `PreviewColumnIsCurrent` | `Spec => []PreviewIsCurrent` |
| `HighlightIsCurrent` | `Spec => []HighlightFollowsCursor` |
| `WritesAreChecked` | `Spec => WritesAreAllowed` |
| `ReadsAreChecked` | `Spec => []OnlyReadableRegionsAreRead` |
| `TitleIsCurrent` | `Spec => []PageInfoIsCurrent` |
| `TitleTellsTheAccess` | `Spec => []TitleTellsAccess` |
| `BytesAreUnderTheirOffsets` | `Spec => []BytesStandUnderTheirOffsets` |
| `NavigationsAlwaysAgree` | `Spec => []NavigationsAgree` |
| `PageKeysGoToNearest` | `Spec => PageKeysFindNearest` |
| `PageMemIsBrowser` | `Spec => ImplementsPageBrowser` |
| `ArrowsCountSlots` | `Spec => ArrowsMoveBySlots` |
| `OpeningTypeCorrect` | `Spec => []TypeOK` of `MemInit` |
| `OpeningsLoseNoBuffer` | `Spec => []NoBufferIsLost` |
| `OpeningsKeepSizes` | `Spec => []SizeFitsBuffer` |
| `OpeningIsFresh` | `Spec => []OpensOnMapOfThisOpening` |
| `OpeningIsSnapshot` | `Spec => ImplementsMapSnapshot` |
| `InputStaysInArray` | `Spec => []TypeOK` of `TuiInput` |
| `DeliveredAsShown` | `Spec => []ShownIsDelivered` |
| `DeliveredFitsRequest` | `Spec => ValueFitsRequest` |
| `InputIsLineEditor` | `Spec => ImplementsLineEditor` |
| `SessionWritesAreChecked` | `SessionSpec => WritesAreAllowed` |
| `SessionShowsTheTruth` | `SessionSpec => []` of `PromptShowsPage`, `NoStaleValueShown`, `PreviewIsCurrent`, `HighlightFollowsCursor`, `PageInfoIsCurrent`, `TitleTellsAccess`, `OnlyReadableRegionsAreRead` |
| `SessionNavigates` | `SessionSpec =>` `[]NavigationsAgree`, `PageKeysFindNearest`, `ImplementsPageBrowser`, `ArrowsMoveBySlots` |
| `SessionTypeCorrect` | `SessionSpec => []SessionTypeOK` |
| `ConsoleIsRestored` | `SessionSpec => []ConsoleRestored` |
| `ListIsComplete` | `SessionSpec => []ListsEveryRegion` |
| `ListMatchesTitle` | `SessionSpec => []ListAgreesWithTitle` |
| `EscAlwaysComesNearer` | `SessionSpec => EscComesNearer` |

`AddressMapProofs` has the arithmetic: what rounding returns, sums and
differences of multiples, that `Min` and `Max` of the candidate sets exist
(from the well-foundedness of strict inclusion on finite sets, which needs no
induction), and that both searches return view pages on any map.

`TypeOK` is inductive as it stands. Its heart is the cursor: each of the moves,
width changes and gotos keeps the base on a page boundary and the offset in
the page, so the 64-bit sum of both never wraps.

`ArrowsMoveBySlots` states what the code's signed sum with its two comparisons does in terms of
slots: the offset may lie between two of them, and what it is rounded down to
after the move is the target counted from the slot that holds it (`MoveCursorCountsSlots`).

The three screen properties speak of the prompt, but the screen is drawn
earlier, and not always. `ScreenInv` strengthens them to every state from which
the prompt is reached without a redraw: the prompt itself, and the top of the loop with the flag
clear (`NoRedrawAhead`); there the frame, the highlight and the cells must
already be right. The step that needs an argument is the fast path of the
arrows (`MoveHighlightIsDrawn`): it redraws two cells of a page that was right,
from offsets that after a Goto need not be slots. It is sound because a read
from an unaligned offset is refused, so that the cell becomes `?` rather than
a wrong value (`CellTextIsContent`), and because an offset between slots was
not highlighted in the first place.

Reads and writes rest on two facts about the library: the descriptor that the
search returns contains the whole range, with an end that did not wrap
(`FoundDescriptorCovers`), and where the attribute protocol has an answer for a
range it is the answer for each address of it (`AnswerIsUniform`). `WritesAreAllowed`
speaks of all bytes that a step changes at once: they are in one region. It
then needs only that a value is asked for in the editing state (`EditMode`): the
checks before the prompt play no part, because `MemWrite` repeats them.
`OnlyReadableRegionsAreRead` speaks of the map of now, and opening the page
replaces it; `ReadInv` adds that nothing is left on the screen when the page is
left. `PageInfoIsCurrent` is inductive together with `TypeOK`.

`TitleTellsAccess` relates the title, which shows one query for the view page and one type, to
`DrawCell` and to Edit, which ask for a cell twice: Core over the adapter's copy of the map, and
the library over its own. It needs no more of the state than `TypeOK`, but facts about
maps and attributes: the regions of a conforming map begin and end where view pages do, so that
the one which the search returns for the page is the one it returns for each cell, whatever
else overlaps them (`RegionsHoldWholePages`); a view page lies in one EFI page,
so that all of its cells have one set of attributes (`PartHasAnswerOfPage`); the adapter's copy is
the beginning of the library's map (`AdapterMapFacts`), so that Core finds a cell valid exactly when
the title names a type (`PageTypeIsKnown`, `CoreAgreesOnKnownPages`), the check of the
descriptor's size included (`CoveringSizeFits`). For a region beyond the adapter's capacity
the library's answer may be that reading and writing is allowed; the title shows that answer beside no type,
and no cell of it is read or written. The property says so.

`BytesStandUnderTheirOffsets` is about columns. `Coordinates` says that an offset is a row,
a cell of the row and a byte of the cell, in one way; `ColumnsApart`, `CellAlone` and
`HeaderAlone` that no two strings meet on a place, so that what is read there is what one
of them says. `HeaderIsRead` and `CellIsRead` then find the offset's digits and the
byte's in the same column: both count from the last byte of a cell to the first.
`NoStaleValueShown` and `PreviewIsCurrent` make it the byte that is in memory.

`InitInv` of `MemInit` adds to the checked invariants what the buffer is at each point
of `InitMemoryMap`: none after the first call, unwritten after the allocation
(`BufferInv`). Without it nothing says that the allocation finds no buffer to
lose. `OpeningInv` says that while an opening is under way the firmware's map is one of `mapsSince`,
so that what the second call stores is, and that the adapter's copy is of the library's map while
the page is open; that a copy of a copy is the copy (`CopyOfCopy`) makes the
bridge's and the adapter's equal. A snapshot alone would allow a page that opens on a map kept from an
earlier opening; `OpensOnMapOfThisOpening` does not. The refinement maps `CopyDown` to the abstract
`Open`, `ClosePage` to `Close`, the start of a new opening to `Forget`, and every other step to a stutter.

The navigation theorems need no invariant but `TypeOK`. `PagesInside` and the lemmas
on it say what the nearest page above or below is for any family of ranges of
whole view pages: the neighbour if it is valid, otherwise the first (last)
page of a range. `CoreFindsAbove`, `CoreFindsBelow`, `LibFindsAbove` and `LibFindsBelow` show
that each of the four searches, with the check its caller makes, returns that
page for a conforming map. Two corners are why they are not obvious. Core
takes 0 for "no candidate" on the way down; that is harmless only because a
region has at least two view pages, so that page 0 is never the last of one.
And near the end of the address space Core's end of a page wraps to 0; the
range check of the caller refuses what would come of it. `SamePages` shows that the
adapter's types and the library's admit the same regions, which makes the two
navigations agree. The refinement of `PageBrowser` follows key by key
(`StepBrowser`).

`InputInv` of `TuiInput` adds `EchoInv`: the array agrees with the screen below
the index. What lies behind it, digits taken back or the array's first
contents, is cut off by the terminator (`TextOfDigits`), which is why the
value is that of the echo, and why the abstract line is the echo (`LineIsEcho`).

`ValueFitsRequest` compares a parser with a power, both recursive. What the provers
need for that is proved here rather than taken from the library, whose theorems have
operators as parameters: `Induction` is about a set of numbers, `RecursionExists` says that a
function with these equations exists, and `NumbersOfPowers` and
`ValueFits` use both. A number of `n` digits is below the `n`-th power of the base, whether or not
the parser stopped at the largest value on the way, because `AddDigit` never exceeds the sum it
stands for (`AddDigitBounds`).

In the application every step is a step of the page or leaves it alone
(`SessionStepIsPageStep`). That is how `UefiNexus` is written, and by itself says nothing of the code
(`SessionIsPageMem` is a lemma only); it lets the theorems about `PageMem` carry over:
`SessionWritesAreChecked`, `SessionShowsTheTruth` and `SessionNavigates` state them of the application. `ConsoleKept` strengthens `ConsoleRestored`: while the application
runs, `saved` is what the console was before the start. `ListComplete` says
of every turn of the list's loop what has been shown and what is still on the
screen: the regions before the index are those seen at a wait and those printed
since the last clear, which are never more than the rows hold. `ListCurrent` says that every line printed
since the last clear has the access that a query would give now, as long as
no attribute has changed; that the view pages of a region get the same answer
as the region is a fact about `QueryMemoryAccess` on maps without overlaps.

`EscComesNearer` is what can be proved of `EscLeadsOut`. `StepsToExit` is a natural number wherever
the application runs; no ESC and no step of the program leaves it as it is, in a prompt, in
any turn of the list's loop or in the menu, and no event of the firmware changes it.

Only model-checked: `EscLeadsOut`, which takes the step from there to liveness. It rests on fairness,
and so on when an action is enabled, which the provers at hand cannot reason about.

## Abstractions

- In `PageMem` the range list is one wait for one key; `UefiNexus` takes it apart into
  regions, screens and pauses.
- Only the viewer's own edits change `memory`. A byte that the firmware or a device
  changes while the page is shown stays as it was drawn until the next redraw, in the
  code too; `NoStaleValueShown` and `PreviewIsCurrent` are about what the viewer itself makes stale.
- `ListAgreesWithTitle` compares a line of the list with the query made when a view page is entered, not
  with a title that was drawn earlier (`PageInfoIsCurrent` is about that), and says
  nothing of a region whose access the list shows as unknown.
- The help text and the wording of the title, the information row and of messages are not
  modelled. A character of the preview stands for its byte: that an unprintable byte is a dot is left out.
- The console of `UefiNexus` is its attribute and its cursor; the
  highlight attribute of a cell, set and reset within one step, matters to no property.
- `ReadHex` in `PageMem` delivers any value of the width, or is cancelled.
  `TuiInput` shows that a value always fits the width (`ValueFitsRequest`), so
  the check that follows the prompt of Edit cannot fail. An empty line delivers
  0, as in the code.
- `TuiReadKey` is the wait before an action; its one-time choice between the
  two input protocols is not modelled.
- `memMap` is fixed while a page is open. `MemInit` checks that this is so.
- `EnterPage` takes the map as given; how it is obtained, and how that fails, is
  `MemInit`. The attribute protocol is looked up once and its presence never
  changes.
- Reads are atomic with their check (see Interaction), and MMIO side effects
  cannot occur because MMIO is never read.

Not modelled: the names of memory types (`UefiMemoryType.c`), the formatting of the
information row, `LayoutEngine.c` and `PageCoreFormatBytes`, which only the tests
call, the forwarders of the adapters with their translation of
status codes, the tests, and the build scripts. Missing adapters and a missing console cannot
occur in a started application. The application ends without freeing the
library's map; nothing in the repository says who should, so no property
speaks of it.

## Plan

1. Done: the viewer with its Core, library policy, screen and memory; opening
   the page; the prompt for a number; the text of the page; the application with
   menu, range list and console; the abstract specifications `PageBrowser`,
   `MapSnapshot` and `LineEditor`; theorems for every safety property and refinement that a run
   checks, for the page alone and in the application.
2. Open: `MemInit` composed with `UefiNexus` in one run, where an opening that fails
   is followed by the menu with the library's map gone (each side is checked on
   its own); the information row's digits.
