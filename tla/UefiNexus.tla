------------------------------ MODULE UefiNexus -----------------------------
(***************************************************************************)
(* The application around PageMem: startup, the page menu, the dispatch of *)
(* a page, the list of memory ranges screen by screen, and the console     *)
(* state that the application borrows and gives back.                      *)
(*                                                                         *)
(* Every step of the page is a step of PageMem together with what it does  *)
(* to the console; the steps of the shell leave the page alone.  A step is *)
(* the code between two waits for a key, except that the list takes one    *)
(* step for each region.                                                   *)
(***************************************************************************)
EXTENDS PageMem

CONSTANTS
    EntryPoints,  \* mPages: the pages' entry points, <<"PageMemLayered">>
    Attributes,   \* console attributes the firmware may have set
    LINES,        \* regions on a screen of the list, 16
    ROWS          \* rows of the console, 25

NORMAL == "PAGEMEM_ATTR_NORMAL"

\* Rows of the list that are not regions: title, blank, header, and the
\* blank row and the prompt at the end.
LIST_FRAME == 5

ASSUME UefiNexusAssumption ==
    /\ EntryPoints \in Seq({"PageMemLayered", "NULL"})
    /\ EntryPoints # <<>>
    /\ LINES \in Nat \ {0}
    /\ ROWS \in Nat
    /\ LINES + LIST_FRAME <= ROWS

VARIABLES
    app,       \* "firmware" before the start, "menu", "page", "exited"
    selected,  \* Selected of PageMenu, counted from 1
    console,   \* the mode of gST->ConOut, and the attribute of the last clear
    saved,     \* CursorVisible and Attribute of APP_CONTEXT
    original,  \* history: the console before the start
    list       \* DumpMemoryRanges: where it is, and what it has shown

sessionVars == <<vars, app, selected, console, saved, original, list>>

-----------------------------------------------------------------------------
(* The console: ClearScreen fills it with the attribute of the moment. *)

ClearScreen(c)    == [c EXCEPT !.background = c.Attribute]
SetAttribute(c, a) == [c EXCEPT !.Attribute = a]
EnableCursor(c, visible) == [c EXCEPT !.CursorVisible = visible]

\* PageMemViewDrawPage clears first and then selects its own attribute; each
\* cell drawn later leaves that attribute behind.
DrawnPage(c) == SetAttribute(ClearScreen(c), NORMAL)

-----------------------------------------------------------------------------
(* The list.  lines are the regions printed since the last clear, with the *)
(* access shown for each; since is the number of attribute changes at that *)
(* clear; seen collects the regions that were on the screen while the list *)
(* waited for a key.                                                       *)

NoList == [phase |-> "none", index |-> 1, printed |-> 0, lines |-> <<>>,
           since |-> 0, seen |-> {}]

\* The regions that are still on the console once the prompt is printed: the
\* console scrolls.
OnConsole(lines) ==
    {lines[k].region : k \in {j \in DOMAIN lines : j > Len(lines) - (ROWS - LIST_FRAME)}}

\* Mutant: asks for the access of the first EFI page of the region only.
ListLineOfFirstPage(i) ==
    [region |-> i,
     access |-> QueryMemoryAccess(memMap, firmware, memMap[i].start, EFI_PAGE)]

\* What the list prints for the region at index i of the library's map.
ListLine(i) ==
    [region |-> i,
     access |-> IF memMap[i].pages <= MaxU64 \div EFI_PAGE
                THEN QueryMemoryAccess(memMap, firmware, memMap[i].start,
                                       DescriptorSize(memMap[i]))
                ELSE AccessUnknown]

-----------------------------------------------------------------------------
SessionInit ==
    /\ Init
    /\ app = "firmware"
    /\ selected = 1
    /\ console \in [CursorVisible : BOOLEAN, Attribute : Attributes, background : Attributes]
    /\ saved = console
    /\ original = console
    /\ list = NoList

\* AppInit, and the menu that AppRun draws first.
AppInit ==
    /\ app = "firmware"
    /\ app' = "menu"
    /\ saved' = console
    /\ console' = EnableCursor(ClearScreen(console), FALSE)
    /\ UNCHANGED <<vars, selected, original, list>>

\* Mutant: gives the attribute back after the last clear.
AppDeinitClearingFirst ==
    /\ app' = "exited"
    /\ console' = SetAttribute(ClearScreen(EnableCursor(console, saved.CursorVisible)),
                               saved.Attribute)

AppDeinit ==
    /\ app' = "exited"
    /\ console' = ClearScreen(SetAttribute(EnableCursor(console, saved.CursorVisible),
                                           saved.Attribute))

-----------------------------------------------------------------------------
(* The menu. *)

\* PageMenu is called again: it selects the first entry and draws the menu.
ReturnToMenu ==
    /\ app' = "menu"
    /\ selected' = 1
    /\ console' = ClearScreen(console)

\* Mutant: moves past the ends of the menu.
MoveSelectionUnchecked(s) ==
    /\ app = "menu"
    /\ selected' = s
    /\ console' = ClearScreen(console)
    /\ UNCHANGED <<vars, app, saved, original, list>>

\* DrawMenu after Up or Down.
MoveSelection(s) ==
    /\ app = "menu"
    /\ s \in DOMAIN EntryPoints
    /\ selected' = s
    /\ console' = ClearScreen(console)
    /\ UNCHANGED <<vars, app, saved, original, list>>

UpKey   == MoveSelection(selected - 1)
DownKey == MoveSelection(selected + 1)

\* AppRun calls the entry point of the selected page; with none, or when the
\* page cannot be opened, the menu comes back.
Dispatch(s) ==
    /\ app = "menu"
    /\ IF EntryPoints[s] = "NULL"
       THEN ReturnToMenu /\ UNCHANGED vars
       ELSE \/ /\ \E m \in MemoryMaps : EnterPage(m)
               /\ app' = "page"
               /\ selected' = s
               /\ UNCHANGED console
            \/ EnterFails /\ ReturnToMenu
    /\ UNCHANGED <<saved, original, list>>

\* Enter opens the selected page, a digit its own.
MenuEnter    == Dispatch(selected)
MenuDigit(d) == Dispatch(d)

MenuEsc ==
    /\ app = "menu"
    /\ AppDeinit
    /\ UNCHANGED <<vars, selected, saved, original, list>>

-----------------------------------------------------------------------------
(* The page. *)

PageDraws ==
    /\ DrawAndWait
    /\ console' = IF needsRedraw THEN DrawnPage(console) ELSE console
    /\ UNCHANGED <<app, selected, saved, original, list>>

PageArrow(arrow) ==
    /\ ArrowKey(arrow)
    /\ console' = IF cursor'.Offset # cursor.Offset
                  THEN SetAttribute(console, NORMAL) ELSE console
    /\ UNCHANGED <<app, selected, saved, original, list>>

\* The keys and answers that print in the attribute of the moment.
PageKey ==
    /\ \/ \E w \in Widths : WidthKey(w)
       \/ EditKey \/ EditRefused \/ EditFails
       \/ \E v \in Values(cursor) : EditSubmit(v)
       \/ GotoKey
       \/ \E a \in Word : GotoSubmit(a)
       \/ PageDownKey \/ PageUpKey
       \/ OtherKey
    /\ UNCHANGED <<app, selected, console, saved, original, list>>

PageCancel ==
    /\ EditCancel \/ GotoCancel
    /\ UNCHANGED <<app, selected, console, saved, original, list>>

PageEsc ==
    /\ EscKey
    /\ ReturnToMenu
    /\ UNCHANGED <<saved, original, list>>

-----------------------------------------------------------------------------
(* DumpMemoryRanges, which the bridge calls for every type of memory. *)

ListStart ==
    /\ RangesKey
    /\ list' = [NoList EXCEPT !.phase = "loop", !.since = attributeChanges]
    /\ console' = ClearScreen(console)
    /\ UNCHANGED <<app, selected, saved, original>>

\* Mutant: no pause when the screen is full.
ListRegionWithoutPause ==
    /\ list.phase = "loop"
    /\ list.index <= Len(memMap)
    /\ list' = [list EXCEPT !.index = @ + 1, !.printed = @ + 1,
                            !.lines = Append(@, ListLine(list.index))]
    /\ UNCHANGED <<vars, app, selected, console, saved, original>>

\* A turn of the loop: an empty descriptor is passed over, any other is
\* printed, and after every LINES of them the list waits.
ListRegion ==
    /\ list.phase = "loop"
    /\ list.index <= Len(memMap)
    /\ LET lines   == Append(list.lines, ListLine(list.index))
           printed == list.printed + 1
           full    == printed % LINES = 0
       IN list' = IF memMap[list.index].pages = 0
                  THEN [list EXCEPT !.index = @ + 1]
                  ELSE [list EXCEPT !.index   = @ + 1,
                                    !.printed = printed,
                                    !.lines   = lines,
                                    !.phase   = IF full THEN "pause" ELSE @,
                                    !.seen    = IF full THEN @ \cup OnConsole(lines) ELSE @]
    /\ UNCHANGED <<vars, app, selected, console, saved, original>>

\* The loop is over: the last prompt.
ListEnds ==
    /\ list.phase = "loop"
    /\ list.index > Len(memMap)
    /\ list' = [list EXCEPT !.phase = "end", !.seen = @ \cup OnConsole(list.lines)]
    /\ UNCHANGED <<vars, app, selected, console, saved, original>>

\* Any key but ESC at a full screen.
ListContinue ==
    /\ list.phase = "pause"
    /\ list' = [list EXCEPT !.phase = "loop", !.lines = <<>>, !.since = attributeChanges]
    /\ console' = ClearScreen(console)
    /\ UNCHANGED <<vars, app, selected, saved, original>>

\* Mutant: takes ESC for no key at all while the screen is full.
ListReturnAtEndOnly ==
    /\ list.phase = "end"
    /\ RangesReturn
    /\ list' = NoList
    /\ UNCHANGED <<app, selected, console, saved, original>>


\* Mutant: takes ESC at a full screen for any key, and goes on with the list.
ListReturnContinuing ==
    \/ ListContinue
    \/ /\ list.phase = "end"
       /\ RangesReturn
       /\ list' = NoList
       /\ UNCHANGED <<app, selected, console, saved, original>>

\* ESC at a full screen, any key at the end.
ListReturn ==
    /\ list.phase \in {"pause", "end"}
    /\ RangesReturn
    /\ list' = NoList
    /\ UNCHANGED <<app, selected, console, saved, original>>

-----------------------------------------------------------------------------
\* The application waits for a key; only then can firmware events run.
Waiting ==
    \/ app = "menu"
    \/ app = "page" /\ pc # "loop" /\ list.phase # "loop"

FirmwareEvent ==
    /\ Waiting
    /\ \E p \in EfiPages, A \in AttributeChoices : FirmwareSetsAttributes(p, A)
    /\ UNCHANGED <<app, selected, console, saved, original, list>>

\* What the program does without waiting for anything.
ProgramStep == PageDraws \/ ListRegion \/ ListEnds

\* What ESC does wherever the program waits for a key.
EscStep == PageCancel \/ PageEsc \/ ListReturn \/ MenuEsc

SessionNext ==
    \/ AppInit
    \/ UpKey
    \/ DownKey
    \/ MenuEnter
    \/ \E d \in DOMAIN EntryPoints : d <= 9 /\ MenuDigit(d)
    \/ MenuEsc
    \/ PageDraws
    \/ \E arrow \in {"up", "down", "left", "right"} : PageArrow(arrow)
    \/ PageKey
    \/ PageCancel
    \/ PageEsc
    \/ ListStart
    \/ ListRegion
    \/ ListEnds
    \/ ListContinue
    \/ ListReturn
    \/ FirmwareEvent

\* The program is a single thread of straight-line code: it goes on as long
\* as it does not wait.  Nobody has to press a key.
SessionSpec ==
    SessionInit /\ [][SessionNext]_sessionVars /\ WF_sessionVars(ProgramStep)
=============================================================================
