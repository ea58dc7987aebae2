--------------------------- MODULE UefiNexusProofs ---------------------------
(***************************************************************************)
(* The application as a whole: that it is PageMem inside a shell, so that  *)
(* what is proved of the page holds of it, and what the shell adds.        *)
(***************************************************************************)
EXTENDS UefiNexusProperties, PageNavigationProofs

-----------------------------------------------------------------------------
(* The shell adds nothing to the page. *)

\* A step of the application is a step of the page or leaves it alone.
LEMMA SessionStepIsPageStep == [SessionNext]_sessionVars => [Next]_vars
  <1> SUFFICES ASSUME [SessionNext]_sessionVars PROVE [Next]_vars
    OBVIOUS
  <1> USE DEF Next
  <1>1. CASE UNCHANGED sessionVars
    BY <1>1 DEF sessionVars
  <1>2. CASE AppInit \/ UpKey \/ DownKey \/ MenuEsc \/ ListRegion \/ ListEnds \/ ListContinue
    BY <1>2 DEF AppInit, UpKey, DownKey, MoveSelection, MenuEsc, ListRegion, ListEnds, ListContinue
  <1>3. ASSUME NEW s, Dispatch(s) PROVE [Next]_vars
    BY <1>3 DEF Dispatch
  <1>4. CASE MenuEnter \/ \E d \in DOMAIN EntryPoints : d <= 9 /\ MenuDigit(d)
    BY <1>3, <1>4 DEF MenuEnter, MenuDigit
  <1>5. CASE PageDraws \/ PageKey \/ PageCancel \/ PageEsc
    BY <1>5 DEF PageDraws, PageKey, PageCancel, PageEsc
  <1>6. CASE \E arrow \in {"up", "down", "left", "right"} : PageArrow(arrow)
    BY <1>6 DEF PageArrow
  <1>7. CASE ListStart \/ ListReturn \/ FirmwareEvent
    BY <1>7 DEF ListStart, ListReturn, FirmwareEvent
  <1> QED
    BY <1>1, <1>2, <1>4, <1>5, <1>6, <1>7 DEF SessionNext

\* The application is written as PageMem with a shell around it, so what is
\* proved of the page holds in the application.
LEMMA SessionIsPageMem == SessionSpec => Spec
  <1>1. SessionInit => Init
    BY DEF SessionInit
  <1> QED
    BY <1>1, SessionStepIsPageStep, PTL DEF SessionSpec, Spec

\* In the application, too, memory changes only under the cursor, and only
\* where the attributes of that moment allow it.
THEOREM SessionWritesAreChecked == SessionSpec => WritesAreAllowed
  BY SessionIsPageMem, WritesAreChecked, PTL

\* What the user of the application sees is what the page promises: at every
\* prompt the page, the cursor, the cells and the highlight are current, the
\* title tells what a read or an edit will do, and nothing on the screen came
\* from a region that must not be read.
THEOREM SessionShowsTheTruth ==
    SessionSpec => [](/\ PromptShowsPage
                      /\ NoStaleValueShown
                      /\ PreviewIsCurrent
                      /\ HighlightFollowsCursor
                      /\ PageInfoIsCurrent
                      /\ TitleTellsAccess
                      /\ OnlyReadableRegionsAreRead)
  BY SessionIsPageMem, PromptIsCurrent, CellsAreCurrent, PreviewColumnIsCurrent,
     HighlightIsCurrent, TitleIsCurrent, TitleTellsTheAccess, ReadsAreChecked, PTL

\* The keys of the page go where they should in the application, too.
THEOREM SessionNavigates ==
    SessionSpec => /\ []NavigationsAgree
                   /\ ArrowsMoveBySlots
                   /\ PageKeysFindNearest
                   /\ ImplementsPageBrowser
  BY SessionIsPageMem, NavigationsAlwaysAgree, ArrowsCountSlots, PageKeysGoToNearest,
     PageMemIsBrowser, PTL
-----------------------------------------------------------------------------
(* Type correctness. *)

\* The console operations keep the console's type.
LEMMA ConsoleIsTyped ==
    ASSUME NEW c \in Consoles, NEW d \in Consoles, NEW v \in BOOLEAN
    PROVE  /\ ClearScreen(c) \in Consoles
           /\ EnableCursor(c, v) \in Consoles
           /\ SetAttribute(c, NORMAL) \in Consoles
           /\ SetAttribute(c, d.Attribute) \in Consoles
           /\ c.CursorVisible \in BOOLEAN
  BY DEF Consoles, ClearScreen, EnableCursor, SetAttribute

\* What DrawnPage and AppDeinit leave is a console state.
LEMMA ConsoleSequencesAreTyped ==
    ASSUME NEW c \in Consoles, NEW d \in Consoles
    PROVE  /\ DrawnPage(c) \in Consoles
           /\ EnableCursor(ClearScreen(c), FALSE) \in Consoles
           /\ ClearScreen(SetAttribute(EnableCursor(c, d.CursorVisible), d.Attribute)) \in Consoles
  <1>1. ClearScreen(c) \in Consoles /\ EnableCursor(c, d.CursorVisible) \in Consoles
    BY ConsoleIsTyped
  <1>2. SetAttribute(EnableCursor(c, d.CursorVisible), d.Attribute) \in Consoles
    BY <1>1, ConsoleIsTyped
  <1> QED
    BY <1>1, <1>2, ConsoleIsTyped DEF DrawnPage

\* A list with its phase and other fields replaced is a list.
LEMMA ListUpdates ==
    /\ \A l \in Lists, i \in Nat \ {0} : [l EXCEPT !.index = i] \in Lists
    /\ \A l \in Lists, i \in Nat \ {0}, n \in Nat, ls \in Seq([region : Nat, access : AccessInfo]),
         ph \in {"none", "loop", "pause", "end"}, sn \in SUBSET Nat :
         [l EXCEPT !.index = i, !.printed = n, !.lines = ls, !.phase = ph, !.seen = sn] \in Lists
    /\ \A l \in Lists, ph \in {"none", "loop", "pause", "end"}, sn \in SUBSET Nat :
         [l EXCEPT !.phase = ph, !.seen = sn] \in Lists
    /\ \A l \in Lists, ph \in {"none", "loop", "pause", "end"}, s \in 0 .. MaxAttributeChanges :
         [l EXCEPT !.phase = ph, !.since = s] \in Lists
    /\ \A l \in Lists, ph \in {"none", "loop", "pause", "end"},
         ls \in Seq([region : Nat, access : AccessInfo]), s \in 0 .. MaxAttributeChanges :
         [l EXCEPT !.phase = ph, !.lines = ls, !.since = s] \in Lists
  <1> DEFINE Ph == {"none", "loop", "pause", "end"}
             In == Nat \ {0}
             Li == Seq([region : Nat, access : AccessInfo])
             Si == 0 .. MaxAttributeChanges
             Se == SUBSET Nat
             Na == Nat
             All == [phase : Ph, index : In, printed : Na, lines : Li, since : Si, seen : Se]
  <1>1. Lists = All
    BY DEF Lists
  <1> HIDE DEF Ph, In, Li, Si, Se, Na
  <1>3. \A l \in All, i \in In : [l EXCEPT !.index = i] \in All
    OBVIOUS
  <1>4. \A l \in All, i \in In, n \in Na, ls \in Li, ph \in Ph, sn \in Se :
           [l EXCEPT !.index = i, !.printed = n, !.lines = ls, !.phase = ph, !.seen = sn] \in All
    OBVIOUS
  <1>5. \A l \in All, ph \in Ph, sn \in Se : [l EXCEPT !.phase = ph, !.seen = sn] \in All
    OBVIOUS
  <1>6. \A l \in All, ph \in Ph, s \in Si : [l EXCEPT !.phase = ph, !.since = s] \in All
    OBVIOUS
  <1>7. \A l \in All, ph \in Ph, ls \in Li, s \in Si :
           [l EXCEPT !.phase = ph, !.lines = ls, !.since = s] \in All
    OBVIOUS
  <1> HIDE DEF All
  <1>8. \A l \in Lists, i \in In : [l EXCEPT !.index = i] \in Lists
    BY <1>1, <1>3, Zenon
  <1>9. \A l \in Lists, i \in In, n \in Na, ls \in Li, ph \in Ph, sn \in Se :
           [l EXCEPT !.index = i, !.printed = n, !.lines = ls, !.phase = ph, !.seen = sn] \in Lists
    <2> TAKE l \in Lists, i \in In, n \in Na, ls \in Li, ph \in Ph, sn \in Se
    <2>1. l \in All
      BY <1>1, Zenon
    <2> DEFINE r == [l EXCEPT !.index = i, !.printed = n, !.lines = ls, !.phase = ph, !.seen = sn]
    <2>2. r \in All
      BY <1>4, <2>1, Zenon
    <2> HIDE DEF r
    <2>3. r \in Lists
      BY <1>1, <2>2, Zenon
    <2> QED
      BY <2>3, Zenon DEF r
  <1>10. \A l \in Lists, ph \in Ph, sn \in Se : [l EXCEPT !.phase = ph, !.seen = sn] \in Lists
    BY <1>1, <1>5, Zenon
  <1>11. \A l \in Lists, ph \in Ph, s \in Si : [l EXCEPT !.phase = ph, !.since = s] \in Lists
    BY <1>1, <1>6, Zenon
  <1>12. \A l \in Lists, ph \in Ph, ls \in Li, s \in Si :
            [l EXCEPT !.phase = ph, !.lines = ls, !.since = s] \in Lists
    BY <1>1, <1>7, Zenon
  <1> QED
    BY <1>8, <1>9, <1>10, <1>11, <1>12, Zenon DEF Ph, In, Li, Si, Se, Na

\* Outside of DumpMemoryRanges there is no list.
LEMMA NoListIsTyped == NoList \in Lists /\ NoList.phase = "none"
  <1>1. ASSUME NEW S PROVE <<>> \in Seq(S)
    OBVIOUS
  <1>2. 0 \in 0 .. MaxAttributeChanges /\ {} \in SUBSET Nat /\ 1 \in Nat \ {0} /\ 0 \in Nat
    BY PageMemAssumption
  <1>3. ASSUME NEW A, NEW B, NEW C, NEW D, NEW E, NEW F,
               "none" \in A, 1 \in B, 0 \in C, <<>> \in D, 0 \in E, {} \in F
        PROVE  NoList \in [phase : A, index : B, printed : C, lines : D, since : E, seen : F]
    BY <1>3 DEF NoList
  <1>4. ASSUME NEW Line PROVE NoList \in [phase : {"none", "loop", "pause", "end"},
             index : Nat \ {0}, printed : Nat, lines : Seq(Line),
             since : 0 .. MaxAttributeChanges, seen : SUBSET Nat]
    <2>1. <<>> \in Seq(Line)
      BY <1>1
    <2> DEFINE A == {"none", "loop", "pause", "end"}
               B == Nat \ {0}
               C == Nat
               D == Seq(Line)
               E == 0 .. MaxAttributeChanges
               F == SUBSET Nat
    <2>2. "none" \in A /\ 1 \in B /\ 0 \in C /\ <<>> \in D /\ 0 \in E /\ {} \in F
      BY <1>2, <2>1
    <2> HIDE DEF A, B, C, D, E, F
    <2>3. NoList \in [phase : A, index : B, printed : C, lines : D, since : E, seen : F]
      BY <2>2, <1>3
    <2> QED
      BY <2>3 DEF A, B, C, D, E, F
  <1>5. NoList \in Lists
    BY <1>4, Zenon DEF Lists
  <1> QED
    BY <1>5 DEF NoList

\* The regions on the console are indices of the map.
LEMMA OnConsoleIsTyped ==
    ASSUME NEW lines \in Seq([region : Nat, access : AccessInfo])
    PROVE  OnConsole(lines) \in SUBSET Nat
  <1>1. ASSUME NEW S, lines \in Seq(S) PROVE \A k \in DOMAIN lines : lines[k] \in S
    BY <1>1
  <1>2. \A k \in DOMAIN lines : lines[k] \in [region : Nat, access : AccessInfo]
    BY <1>1, Zenon
  <1>3. ASSUME NEW x \in [region : Nat, access : AccessInfo] PROVE x.region \in Nat
    OBVIOUS
  <1>4. \A k \in DOMAIN lines : lines[k].region \in Nat
    BY <1>2, <1>3
  <1> QED
    BY <1>4 DEF OnConsole

\* The library's map is a sequence of regions.
LEMMA MapIsSequence ==
    ASSUME NEW m \in MemoryMaps \cup {<<>>}
    PROVE  /\ m \in Seq(EfiDescriptor)
           /\ Len(m) \in Nat
           /\ DOMAIN m = 1 .. Len(m)
           /\ \A i \in DOMAIN m : Conforming(m[i])
  <1>1. m \in Seq(EfiDescriptor)
    <2>1. ASSUME NEW S PROVE <<>> \in Seq(S)
      OBVIOUS
    <2>2. CASE m = <<>>
      BY <2>1, <2>2, Zenon
    <2>3. CASE m \in MemoryMaps
      BY <2>3, PageMemAssumption, Zenon
    <2> QED
      BY <2>2, <2>3
  <1>2. m = <<>> => DOMAIN m = {}
    OBVIOUS
  <1> QED
    BY <1>1, <1>2, PageMemAssumption

\* A line of the list has its type.
LEMMA ListLineIsTyped ==
    ASSUME NEW i \in Nat
    PROVE  ListLine(i) \in [region : Nat, access : AccessInfo]
  <1>1. AccessUnknown \in AccessInfo
    BY DEF AccessUnknown, AccessInfo
  <1>2. QueryMemoryAccess(memMap, firmware, memMap[i].start, DescriptorSize(memMap[i])) \in AccessInfo
    BY AccessIsTyped
  <1> QED
    BY <1>1, <1>2 DEF ListLine

\* The application starts in a state of the right type.
LEMMA InitSessionTypeOK == SessionInit => SessionTypeOK
  <1> SUFFICES ASSUME SessionInit PROVE SessionTypeOK
    OBVIOUS
  <1>1. TypeOK /\ pc = "menu"
    BY InitTypeOK DEF SessionInit, Init
  <1>2. 1 \in DOMAIN EntryPoints
    BY UefiNexusAssumption
  <1>3. {console, saved, original} \subseteq Consoles
    BY DEF SessionInit, Consoles
  <1> QED
    BY <1>1, <1>2, <1>3, NoListIsTyped DEF SessionInit, SessionTypeOK

\* What the shell adds to the types of the page.
ShellTypeOK ==
    /\ app \in {"firmware", "menu", "page", "exited"}
    /\ app = "page" <=> pc # "menu"
    /\ selected \in DOMAIN EntryPoints
    /\ {console, saved, original} \subseteq Consoles

ListTypeOK ==
    /\ list \in Lists
    /\ list.phase = "none" <=> pc # "ranges"
    /\ IF list.phase = "none" THEN list = NoList ELSE list.index <= Len(memMap) + 1

\* The steps of the shell keep its types.
LEMMA MenuStepTypeOK ==
    ASSUME SessionTypeOK,
           \/ AppInit \/ UpKey \/ DownKey \/ MenuEnter \/ MenuEsc
           \/ \E d \in DOMAIN EntryPoints : d <= 9 /\ MenuDigit(d)
    PROVE  ShellTypeOK' /\ ListTypeOK'
  <1> USE DEF ShellTypeOK, ListTypeOK
  <1>1. /\ console \in Consoles /\ saved \in Consoles /\ original \in Consoles
        /\ selected \in DOMAIN EntryPoints
        /\ ListTypeOK
        /\ app = "page" <=> pc # "menu"
    BY DEF SessionTypeOK
  <1>2. CASE AppInit
    BY <1>1, <1>2, ConsoleSequencesAreTyped DEF AppInit, SessionTypeOK, vars, maps
  <1>3. CASE UpKey \/ DownKey
    BY <1>1, <1>3, ConsoleIsTyped DEF UpKey, DownKey, MoveSelection, SessionTypeOK, vars, maps
  <1>4. ASSUME NEW s \in DOMAIN EntryPoints, Dispatch(s) PROVE ShellTypeOK' /\ ListTypeOK'
    <2>1. 1 \in DOMAIN EntryPoints
      BY UefiNexusAssumption
    <2>2. pc = "menu" /\ list = NoList /\ UNCHANGED <<saved, original, list>>
      BY <1>1, <1>4 DEF Dispatch
    <2>3. CASE UNCHANGED vars /\ ReturnToMenu
      BY <1>1, <2>1, <2>2, <2>3, ConsoleIsTyped DEF ReturnToMenu, vars, maps
    <2>4. CASE EnterFails /\ ReturnToMenu
      BY <1>1, <2>1, <2>2, <2>4, ConsoleIsTyped, NoListIsTyped DEF ReturnToMenu, EnterFails
    <2>5. CASE (\E m \in MemoryMaps : EnterPage(m)) /\ app' = "page" /\ selected' = s /\ UNCHANGED console
      BY <1>1, <2>2, <2>5, NoListIsTyped DEF EnterPage
    <2> QED
      BY <1>4, <2>3, <2>4, <2>5 DEF Dispatch
  <1>5. CASE MenuEnter \/ \E d \in DOMAIN EntryPoints : d <= 9 /\ MenuDigit(d)
    BY <1>1, <1>4, <1>5 DEF MenuEnter, MenuDigit
  <1>6. CASE MenuEsc
    BY <1>1, <1>6, ConsoleSequencesAreTyped DEF MenuEsc, AppDeinit, vars, maps
  <1> QED
    BY <1>2, <1>3, <1>5, <1>6

\* The steps of the page and of the firmware keep the shell's types.
LEMMA PageStepTypeOK ==
    ASSUME SessionTypeOK,
           \/ PageDraws \/ PageKey \/ PageCancel \/ PageEsc \/ FirmwareEvent
           \/ \E arrow \in {"up", "down", "left", "right"} : PageArrow(arrow)
    PROVE  ShellTypeOK' /\ ListTypeOK'
  <1> USE DEF ShellTypeOK, ListTypeOK
  <1>1. /\ console \in Consoles /\ saved \in Consoles /\ original \in Consoles
        /\ selected \in DOMAIN EntryPoints
        /\ ListTypeOK
        /\ app = "page" <=> pc # "menu"
        /\ app \in {"firmware", "menu", "page", "exited"}
    BY DEF SessionTypeOK
  <1>2. CASE PageDraws
    BY <1>1, <1>2, ConsoleSequencesAreTyped DEF PageDraws, DrawAndWait, maps
  <1>3. CASE \E arrow \in {"up", "down", "left", "right"} : PageArrow(arrow)
    BY <1>1, <1>3, ConsoleIsTyped DEF PageArrow, ArrowKey, maps
  <1>4. CASE PageKey
    <2>1. pc # "menu" /\ pc' # "menu" /\ pc # "ranges" /\ pc' # "ranges"
      BY <1>4 DEF PageKey, WidthKey, EditKey, EditRefused, EditFails, EditSubmit, EditEnds,
         GotoKey, GotoSubmit, GotoEnds, PageDownKey, PageUpKey, MoveToPage, OtherKey
    <2> QED
      BY <1>1, <1>4, <2>1 DEF PageKey
  <1>5. CASE PageCancel
    BY <1>1, <1>5 DEF PageCancel, EditCancel, EditEnds, GotoCancel, GotoEnds
  <1>6. CASE PageEsc
    <2>1. 1 \in DOMAIN EntryPoints
      BY UefiNexusAssumption
    <2> QED
      BY <1>1, <1>6, <2>1, ConsoleIsTyped DEF PageEsc, ReturnToMenu, EscKey
  <1>7. CASE FirmwareEvent
    BY <1>1, <1>7 DEF FirmwareEvent, FirmwareSetsAttributes, maps
  <1> QED
    BY <1>2, <1>3, <1>4, <1>5, <1>6, <1>7

\* The steps of the list keep its types.
LEMMA ListStepTypeOK ==
    ASSUME SessionTypeOK,
           ListStart \/ ListRegion \/ ListEnds \/ ListContinue \/ ListReturn
    PROVE  ShellTypeOK' /\ ListTypeOK'
  <1> USE DEF ShellTypeOK, ListTypeOK
  <1>1. /\ console \in Consoles /\ saved \in Consoles /\ original \in Consoles
        /\ selected \in DOMAIN EntryPoints
        /\ ListTypeOK
        /\ app = "page" <=> pc # "menu"
        /\ app \in {"firmware", "menu", "page", "exited"}
        /\ attributeChanges \in 0 .. MaxAttributeChanges
        /\ memMap \in MemoryMaps \cup {<<>>}
    BY DEF SessionTypeOK, TypeOK
  <1>2. Len(memMap) \in Nat
    BY <1>1, MapIsSequence
  <1>3. CASE ListStart
    <2>1. /\ list' = [NoList EXCEPT !.phase = "loop", !.since = attributeChanges]
          /\ pc = "key" /\ pc' = "ranges" /\ memMap' = memMap
      BY <1>3 DEF ListStart, RangesKey, maps
    <2>2. list' \in Lists
      BY <1>1, <2>1, NoListIsTyped, ListUpdates
    <2>3. list'.phase = "loop" /\ list'.index = 1
      BY <2>1 DEF NoList
    <2>4. ListTypeOK'
      BY <1>2, <2>1, <2>2, <2>3
    <2>5. /\ console' = ClearScreen(console) /\ ClearScreen(console) \in Consoles
          /\ UNCHANGED <<app, selected, saved, original>>
      BY <1>1, <1>3, ConsoleIsTyped DEF ListStart
    <2>6. ShellTypeOK'
      BY <1>1, <2>1, <2>5
    <2> QED
      BY <2>4, <2>6
  <1>4. CASE ListRegion
    <2> DEFINE lines == Append(list.lines, ListLine(list.index))
    <2>1. lines \in Seq([region : Nat, access : AccessInfo])
      BY <1>1, ListLineIsTyped DEF Lists
    <2>2. OnConsole(lines) \in SUBSET Nat
      BY <2>1, OnConsoleIsTyped
    <2>3. list'.index <= Len(memMap) + 1 /\ list' \in Lists /\ list'.phase # "none"
      <3> HIDE DEF lines
      <3>1. /\ list.phase = "loop" /\ list.index <= Len(memMap) /\ list \in Lists
            /\ list.index \in Nat /\ list.printed \in Nat /\ list.seen \in SUBSET Nat
        BY <1>1, <1>4 DEF ListRegion, Lists
      <3>2. list.index + 1 \in Nat \ {0} /\ list.printed + 1 \in Nat /\ list.index + 1 <= Len(memMap) + 1
        BY <1>2, <3>1
      <3>3. CASE list' = [list EXCEPT !.index = list.index + 1]
        <4>1. list' \in Lists
          BY <3>1, <3>2, <3>3, ListUpdates
        <4>2. list'.index = list.index + 1 /\ list'.phase = list.phase
          BY <3>1, <3>3 DEF Lists
        <4> QED
          BY <3>1, <3>2, <4>1, <4>2
      <3>4. ASSUME NEW ph \in {"loop", "pause"}, NEW sn \in SUBSET Nat,
                   list' = [list EXCEPT !.index = list.index + 1, !.printed = list.printed + 1,
                                        !.lines = lines, !.phase = ph, !.seen = sn]
            PROVE  list'.index <= Len(memMap) + 1 /\ list' \in Lists /\ list'.phase # "none"
        <4>1. list' \in Lists
          BY <2>1, <3>1, <3>2, <3>4, ListUpdates
        <4>2. list'.index = list.index + 1 /\ list'.phase = ph
          BY <3>1, <3>4 DEF Lists
        <4> QED
          BY <3>2, <3>4, <4>1, <4>2
      <3>5. \/ list' = [list EXCEPT !.index = list.index + 1]
            \/ \E ph \in {"loop", "pause"}, sn \in {list.seen, list.seen \cup OnConsole(lines)} :
                 list' = [list EXCEPT !.index = list.index + 1, !.printed = list.printed + 1,
                                      !.lines = lines, !.phase = ph, !.seen = sn]
        BY <1>4, <3>1 DEF ListRegion, lines
      <3> QED
        BY <2>2, <3>1, <3>3, <3>4, <3>5
    <2> QED
      BY <1>1, <1>4, <2>3 DEF ListRegion, vars, maps
  <1>5. CASE ListEnds
    <2>1. OnConsole(list.lines) \in SUBSET Nat
      BY <1>1, OnConsoleIsTyped DEF Lists
    <2>2. /\ list.seen \cup OnConsole(list.lines) \in SUBSET Nat
          /\ list' = [list EXCEPT !.phase = "end", !.seen = list.seen \cup OnConsole(list.lines)]
      BY <1>1, <1>5, <2>1 DEF ListEnds, Lists
    <2>3. list' \in Lists
      BY <1>1, <2>2, ListUpdates
    <2>4. list'.phase = "end" /\ list'.index = list.index
      BY <1>1, <2>2 DEF Lists
    <2> QED
      BY <1>1, <1>5, <2>3, <2>4 DEF ListEnds, vars, maps
  <1>6. CASE ListContinue
    <2>1. ASSUME NEW S PROVE <<>> \in Seq(S)
      OBVIOUS
    <2>2. <<>> \in Seq([region : Nat, access : AccessInfo])
      BY <2>1, Zenon
    <2>3. list' = [list EXCEPT !.phase = "loop", !.lines = <<>>, !.since = attributeChanges]
      BY <1>6 DEF ListContinue
    <2>4. list' \in Lists
      BY <1>1, <2>2, <2>3, ListUpdates
    <2>5. list'.phase = "loop" /\ list'.index = list.index /\ list.phase = "pause"
      BY <1>1, <1>6, <2>3 DEF Lists, ListContinue
    <2> QED
      BY <1>1, <1>6, <2>4, <2>5, ConsoleIsTyped DEF ListContinue, vars, maps
  <1>7. CASE ListReturn
    BY <1>1, <1>7, NoListIsTyped DEF ListReturn, RangesReturn, maps
  <1> QED
    BY <1>3, <1>4, <1>5, <1>6, <1>7

\* Every step of the application keeps the types.
LEMMA StepSessionTypeOK == SessionTypeOK /\ [SessionNext]_sessionVars => SessionTypeOK'
  <1> SUFFICES ASSUME SessionTypeOK, [SessionNext]_sessionVars PROVE SessionTypeOK'
    OBVIOUS
  <1>1. TypeOK'
    BY SessionStepIsPageStep, StepTypeOK DEF SessionTypeOK
  <1>2. CASE UNCHANGED sessionVars
    BY <1>1, <1>2 DEF sessionVars, vars, maps, SessionTypeOK
  <1>3. CASE SessionNext
    <2>1. ShellTypeOK' /\ ListTypeOK'
      BY <1>3, MenuStepTypeOK, PageStepTypeOK, ListStepTypeOK DEF SessionNext
    <2> QED
      BY <1>1, <2>1 DEF SessionTypeOK, ShellTypeOK, ListTypeOK
  <1> QED
    BY <1>2, <1>3

\* Type correctness of the application: shell and page agree on who has the
\* screen, and the selection and the list stay within their arrays.
THEOREM SessionTypeCorrect == SessionSpec => []SessionTypeOK
  BY InitSessionTypeOK, StepSessionTypeOK, PTL DEF SessionSpec
-----------------------------------------------------------------------------
(* The console is given back as it was found.                              *)

\* Why: until the application has ended, saved holds the console from before
\* the start, and only the application touches the console in between.
ConsoleKept ==
    /\ app = "firmware" => console = original
    /\ app \in {"menu", "page"} => saved = original
    /\ ConsoleRestored

\* Only the start and the end of the application concern ConsoleKept: every
\* other step leads from the running application to the running application.
LEMMA RunningStep ==
    ASSUME SessionTypeOK, SessionNext
    PROVE  \/ AppInit
           \/ MenuEsc
           \/ /\ app \in {"menu", "page"} /\ app' \in {"menu", "page"}
              /\ UNCHANGED <<saved, original>>
  <1>1. app = "page" <=> pc # "menu"
    BY DEF SessionTypeOK
  <1>2. list.phase = "none" <=> pc # "ranges"
    BY DEF SessionTypeOK
  <1>3. CASE UpKey \/ DownKey
    BY <1>3 DEF UpKey, DownKey, MoveSelection
  <1>4. ASSUME NEW s, Dispatch(s)
        PROVE  /\ app \in {"menu", "page"} /\ app' \in {"menu", "page"}
               /\ UNCHANGED <<saved, original>>
    BY <1>4 DEF Dispatch, ReturnToMenu
  <1>5. CASE MenuEnter \/ \E d \in DOMAIN EntryPoints : d <= 9 /\ MenuDigit(d)
    BY <1>4, <1>5 DEF MenuEnter, MenuDigit
  <1>6. CASE PageDraws \/ \E arrow \in {"up", "down", "left", "right"} : PageArrow(arrow)
    BY <1>1, <1>6 DEF PageDraws, DrawAndWait, PageArrow, ArrowKey
  <1>7. CASE PageKey
    <2>1. pc # "menu"
      BY <1>7 DEF PageKey, WidthKey, EditKey, EditRefused, EditFails, EditSubmit,
         GotoKey, GotoSubmit, PageDownKey, PageUpKey, MoveToPage, OtherKey
    <2> QED
      BY <1>1, <1>7, <2>1 DEF PageKey
  <1>8. CASE PageCancel \/ PageEsc
    BY <1>1, <1>8 DEF PageCancel, EditCancel, GotoCancel, PageEsc, EscKey, ReturnToMenu
  <1>9. CASE ListStart \/ ListRegion \/ ListEnds \/ ListContinue \/ ListReturn
    BY <1>1, <1>2, <1>9 DEF ListStart, RangesKey, ListRegion, ListEnds, ListContinue,
       ListReturn, RangesReturn
  <1>10. CASE FirmwareEvent
    BY <1>10 DEF FirmwareEvent, Waiting
  <1> QED
    BY <1>3, <1>5, <1>6, <1>7, <1>8, <1>9, <1>10 DEF SessionNext

\* Every step keeps it.
LEMMA StepConsoleKept ==
    SessionTypeOK /\ ConsoleKept /\ [SessionNext]_sessionVars => ConsoleKept'
  <1> SUFFICES ASSUME SessionTypeOK, ConsoleKept, [SessionNext]_sessionVars
               PROVE  ConsoleKept'
    OBVIOUS
  <1>1. CASE UNCHANGED sessionVars
    BY <1>1 DEF sessionVars, ConsoleKept, ConsoleRestored
  <1>2. CASE AppInit
    BY <1>2 DEF AppInit, ConsoleKept, ConsoleRestored
  <1>3. CASE MenuEsc
    <2>1. saved = original /\ saved \in Consoles /\ console \in Consoles
      BY <1>3 DEF MenuEsc, ConsoleKept, SessionTypeOK
    <2>2. /\ app' = "exited" /\ UNCHANGED original
          /\ console' = ClearScreen(SetAttribute(EnableCursor(console, saved.CursorVisible),
                                                 saved.Attribute))
      BY <1>3 DEF MenuEsc, AppDeinit
    <2>3. /\ console'.CursorVisible = saved.CursorVisible
          /\ console'.Attribute = saved.Attribute
          /\ console'.background = saved.Attribute
      BY <2>1, <2>2 DEF Consoles, ClearScreen, SetAttribute, EnableCursor
    <2> QED
      BY <2>1, <2>2, <2>3 DEF ConsoleKept, ConsoleRestored
  <1>4. CASE /\ app \in {"menu", "page"} /\ app' \in {"menu", "page"}
             /\ UNCHANGED <<saved, original>>
    BY <1>4 DEF ConsoleKept, ConsoleRestored
  <1> QED
    BY <1>1, <1>2, <1>3, <1>4, RunningStep

\* Whatever the user and the firmware did, the application gives the console
\* back as it found it.
THEOREM ConsoleIsRestored == SessionSpec => []ConsoleRestored
  <1>1. SessionInit => ConsoleKept
    BY DEF SessionInit, ConsoleKept, ConsoleRestored
  <1>2. ConsoleKept => ConsoleRestored
    BY DEF ConsoleKept
  <1> QED
    BY <1>1, <1>2, StepConsoleKept, SessionTypeCorrect, PTL DEF SessionSpec
-----------------------------------------------------------------------------
(* The list shows every region, and what it shows agrees with the title.   *)

LineType == [region : Nat, access : AccessInfo]

Regions(lines) == {lines[k].region : k \in DOMAIN lines}

\* The regions that the loop has printed when it is about to look at index n.
Before(n) == {i \in DOMAIN memMap : i < n /\ memMap[i].pages # 0}

\* The remainder of a sum of a multiple and less than the divisor.
LEMMA Remainder ==
    ASSUME NEW n \in Nat \ {0}, NEW q \in Nat, NEW r \in Nat, r < n
    PROVE  (n * q + r) % n = r
  <1> DEFINE m == n * q
             a == m + r
             d == AlignDown(a, n)
  <1>1. m \in Nat /\ m % n = 0
    <2>1. m \in Nat
      BY SMTT(20)
    <2> QED
      BY <2>1, ProductIsMultiple
  <1>2. a \in Nat
    BY <1>1
  <1> HIDE DEF m
  <1>3. /\ d \in Nat /\ d <= a /\ a < d + n
        /\ a - d = a % n /\ d % n = 0
    <2> HIDE DEF a
    <2> QED
      BY <1>2, AlignDownBounds, AlignDownIsMultiple
  <1> HIDE DEF d
  <1>4. ~ (d < m)
    <2>1. d < m => d + n <= m
      BY <1>1, <1>3, MultiplesApart
    <2> QED
      BY <1>1, <1>3, <2>1
  <1>5. ~ (m < d)
    <2>1. m < d => m + n <= d
      BY <1>1, <1>3, MultiplesApart
    <2> QED
      BY <1>1, <1>3, <2>1
  <1>6. d = m
    BY <1>1, <1>3, <1>4, <1>5
  <1>7. a % n = r
    BY <1>1, <1>3, <1>6
  <1> QED
    BY <1>7 DEF a, m

\* What Append does to a sequence.
LEMMA AppendFacts ==
    ASSUME NEW S, NEW s \in Seq(S), NEW x \in S
    PROVE  /\ Len(s) \in Nat
           /\ DOMAIN s = 1 .. Len(s)
           /\ Len(Append(s, x)) = Len(s) + 1
           /\ DOMAIN Append(s, x) = 1 .. (Len(s) + 1)
           /\ \A k \in 1 .. Len(s) : Append(s, x)[k] = s[k]
           /\ Append(s, x)[Len(s) + 1] = x
  OBVIOUS

\* A printed line adds its region.
LEMMA AppendedRegion ==
    ASSUME NEW lines \in Seq(LineType), NEW x \in LineType
    PROVE  Regions(Append(lines, x)) = Regions(lines) \cup {x.region}
  <1> DEFINE more == Append(lines, x)
  <1>1. /\ Len(lines) \in Nat
        /\ DOMAIN lines = 1 .. Len(lines)
        /\ DOMAIN more = 1 .. (Len(lines) + 1)
        /\ \A k \in 1 .. Len(lines) : more[k] = lines[k]
        /\ more[Len(lines) + 1] = x
    BY AppendFacts
  <1> HIDE DEF more
  <1>2. 1 .. (Len(lines) + 1) = (1 .. Len(lines)) \cup {Len(lines) + 1}
    BY <1>1
  <1>3. Regions(more) = Regions(lines) \cup {x.region}
    BY <1>1, <1>2 DEF Regions
  <1> QED
    BY <1>3 DEF more

\* A screen's worth of lines stays on the console.
LEMMA NothingScrolls ==
    ASSUME NEW lines \in Seq(LineType), Len(lines) <= LINES
    PROVE  OnConsole(lines) = Regions(lines)
  <1>1. LINES \in Nat /\ ROWS \in Nat /\ LIST_FRAME = 5 /\ LINES <= ROWS - LIST_FRAME
    BY UefiNexusAssumption DEF LIST_FRAME
  <1>2. Len(lines) \in Nat /\ DOMAIN lines = 1 .. Len(lines)
    OBVIOUS
  <1>3. \A j \in DOMAIN lines : j > Len(lines) - (ROWS - LIST_FRAME)
    BY <1>1, <1>2
  <1> QED
    BY <1>3 DEF OnConsole, Regions

\* Only the steps of the list change the list; while it is open, the only
\* other step is a firmware event.
LEMMA ListStep ==
    ASSUME SessionTypeOK, SessionNext
    PROVE  \/ ListStart \/ ListRegion \/ ListEnds \/ ListContinue \/ ListReturn
           \/ list' = list /\ list.phase = "none"
           \/ list' = list /\ FirmwareEvent
  <1>1. /\ app = "page" <=> pc # "menu"
        /\ list.phase = "none" <=> pc # "ranges"
    BY DEF SessionTypeOK
  <1>2. CASE AppInit \/ UpKey \/ DownKey \/ MenuEsc
    <2>1. app # "page" /\ list' = list
      BY <1>2 DEF AppInit, UpKey, DownKey, MoveSelection, MenuEsc
    <2> QED
      BY <1>1, <2>1
  <1>3. ASSUME NEW s, Dispatch(s) PROVE list' = list /\ list.phase = "none"
    BY <1>1, <1>3 DEF Dispatch
  <1>4. CASE MenuEnter \/ \E d \in DOMAIN EntryPoints : d <= 9 /\ MenuDigit(d)
    BY <1>3, <1>4 DEF MenuEnter, MenuDigit
  <1>5. CASE PageDraws \/ PageCancel \/ PageEsc
    <2>1. pc # "ranges" /\ list' = list
      BY <1>5 DEF PageDraws, DrawAndWait, PageCancel, EditCancel, GotoCancel, PageEsc, EscKey
    <2> QED
      BY <1>1, <2>1
  <1>6. CASE \E arrow \in {"up", "down", "left", "right"} : PageArrow(arrow)
    BY <1>1, <1>6 DEF PageArrow, ArrowKey
  <1>7. CASE PageKey
    <2>1. pc # "ranges" /\ list' = list
      BY <1>7 DEF PageKey, WidthKey, EditKey, EditRefused, EditFails, EditSubmit,
         GotoKey, GotoSubmit, PageDownKey, PageUpKey, MoveToPage, OtherKey
    <2> QED
      BY <1>1, <2>1
  <1>8. CASE FirmwareEvent
    BY <1>8 DEF FirmwareEvent
  <1> QED
    BY <1>2, <1>4, <1>5, <1>6, <1>7, <1>8 DEF SessionNext

\* Why the list is complete: the lines on the screen are those printed since
\* the last full screen, fewer than LINES until the list waits, so none has
\* scrolled away when it does.
ListComplete ==
    list.phase # "none" =>
        /\ \E q \in Nat : list.printed = LINES * q + Len(list.lines)
        /\ IF list.phase = "pause" THEN Len(list.lines) = LINES ELSE Len(list.lines) < LINES
        /\ IF list.phase = "loop"
           THEN list.seen \cup Regions(list.lines) = Before(list.index)
           ELSE list.seen = Before(list.index)
        /\ list.phase = "end" => list.index > Len(memMap)

\* What the types say of an open list.
LEMMA OpenList ==
    ASSUME SessionTypeOK, list.phase # "none"
    PROVE  /\ list.lines \in Seq(LineType) /\ Len(list.lines) \in Nat
           /\ list.index \in Nat \ {0} /\ list.index <= Len(memMap) + 1
           /\ list.printed \in Nat
           /\ list.seen \in SUBSET Nat
           /\ list.since \in Nat /\ list.since <= MaxAttributeChanges
           /\ Len(memMap) \in Nat /\ DOMAIN memMap = 1 .. Len(memMap)
  <1>1. list \in Lists /\ memMap \in MemoryMaps \cup {<<>>} /\ list.index <= Len(memMap) + 1
    BY DEF SessionTypeOK, TypeOK
  <1>2. /\ list.lines \in Seq(LineType) /\ list.index \in Nat \ {0}
        /\ list.printed \in Nat /\ list.seen \in SUBSET Nat
        /\ list.since \in 0 .. MaxAttributeChanges
    <2>1. ASSUME NEW P, NEW I, NEW N, NEW L, NEW S, NEW E,
                 list \in [phase : P, index : I, printed : N, lines : L, since : S, seen : E]
          PROVE  /\ list.lines \in L /\ list.index \in I /\ list.printed \in N
                 /\ list.seen \in E /\ list.since \in S
      BY <2>1
    <2> QED
      BY <1>1, <2>1, Zenon DEF Lists, LineType
  <1>3. ASSUME NEW S, list.lines \in Seq(S) PROVE Len(list.lines) \in Nat
    BY <1>3
  <1>4. Len(list.lines) \in Nat
    BY <1>2, <1>3, Zenon
  <1>5. Len(memMap) \in Nat /\ DOMAIN memMap = 1 .. Len(memMap)
    BY <1>1, MapIsSequence
  <1>6. list.since \in Nat /\ list.since <= MaxAttributeChanges
    BY <1>2, PageMemAssumption
  <1> QED
    BY <1>1, <1>2, <1>4, <1>5, <1>6

\* The region at index is the one that comes next.
LEMMA NextRegion ==
    ASSUME SessionTypeOK, list.phase # "none", list.index <= Len(memMap)
    PROVE  Before(list.index + 1) =
             IF memMap[list.index].pages = 0 THEN Before(list.index)
                                             ELSE Before(list.index) \cup {list.index}
  <1>1. list.index \in DOMAIN memMap /\ list.index \in Nat
    BY OpenList
  <1>2. \A i \in DOMAIN memMap : i < list.index + 1 <=> i < list.index \/ i = list.index
    BY OpenList
  <1> QED
    BY <1>1, <1>2 DEF Before

\* A turn of the loop keeps it.
LEMMA ListRegionComplete ==
    ASSUME SessionTypeOK, ListComplete, ListRegion
    PROVE  ListComplete'
  <1> DEFINE line  == ListLine(list.index)
             lines == Append(list.lines, line)
             full  == (list.printed + 1) % LINES = 0
  <1>1. list.phase = "loop" /\ list.index <= Len(memMap) /\ list \in Lists
    BY DEF ListRegion, SessionTypeOK
  <1>2. line \in LineType /\ line.region = list.index
    BY <1>1, OpenList, ListLineIsTyped DEF LineType, ListLine
  <1>3. UNCHANGED <<memMap, firmware>> /\ \A n : Before(n)' = Before(n)
    BY DEF ListRegion, vars, maps, Before
  <1>4. LINES \in Nat \ {0}
    BY UefiNexusAssumption
  <1>5. PICK q \in Nat : list.printed = LINES * q + Len(list.lines)
    BY <1>1 DEF ListComplete
  <1>6. Len(list.lines) < LINES /\ list.seen \cup Regions(list.lines) = Before(list.index)
    BY <1>1 DEF ListComplete
  <1>7. CASE memMap[list.index].pages = 0
    <2>1. list' = [list EXCEPT !.index = list.index + 1]
      BY <1>7 DEF ListRegion
    <2>2. /\ list'.phase = list.phase /\ list'.index = list.index + 1 /\ list'.printed = list.printed
          /\ list'.lines = list.lines /\ list'.seen = list.seen
      BY <1>1, <2>1 DEF Lists
    <2>3. Before(list.index + 1) = Before(list.index)
      BY <1>1, <1>7, NextRegion
    <2> QED
      BY <1>1, <1>3, <1>5, <1>6, <2>2, <2>3 DEF ListComplete, Regions
  <1>8. CASE memMap[list.index].pages # 0
    <2>1. list' = [list EXCEPT !.index = list.index + 1, !.printed = list.printed + 1,
                               !.lines = lines, !.phase = IF full THEN "pause" ELSE list.phase,
                               !.seen = IF full THEN list.seen \cup OnConsole(lines) ELSE list.seen]
      BY <1>8 DEF ListRegion
    <2> HIDE DEF full
    <2>2. Len(lines) = Len(list.lines) + 1 /\ lines \in Seq(LineType)
      <3>1. list.lines \in Seq(LineType)
        BY <1>1, OpenList
      <3>2. ASSUME NEW S, NEW t \in Seq(S), NEW x \in S
            PROVE Append(t, x) \in Seq(S) /\ Len(Append(t, x)) = Len(t) + 1
        OBVIOUS
      <3> HIDE DEF line
      <3> QED
        BY <1>2, <3>1, <3>2, Zenon
    <2>3. Regions(lines) = Regions(list.lines) \cup {list.index}
      <3> HIDE DEF line
      <3> QED
        BY <1>1, <1>2, OpenList, AppendedRegion
    <2> HIDE DEF lines, line
    <2>4. /\ list'.phase = IF full THEN "pause" ELSE "loop"
          /\ list'.index = list.index + 1 /\ list'.printed = list.printed + 1
          /\ list'.lines = lines
          /\ list'.seen = IF full THEN list.seen \cup OnConsole(lines) ELSE list.seen
      BY <1>1, <2>1 DEF Lists
    <2>5. list.seen \cup Regions(lines) = Before(list.index + 1)
      BY <1>1, <1>6, <1>8, <2>3, NextRegion
    <2>6. Len(list.lines) \in Nat /\ Len(lines) <= LINES
      BY <1>1, <1>4, <1>6, <2>2, OpenList
    <2>7. list.printed + 1 = LINES * q + Len(lines)
      <3>1. LINES * q \in Nat
        BY <1>4, SMTT(20)
      <3> QED
        BY <1>5, <2>2, <2>6, <3>1
    <2>8. full <=> Len(lines) = LINES
      <3>1. CASE Len(lines) = LINES
        <4>1. list.printed + 1 = LINES * (q + 1)
          <5>1. LINES * (q + 1) = LINES * q + LINES
            BY <1>4, SMTT(20)
          <5> QED
            BY <2>7, <3>1, <5>1
        <4>2. (LINES * (q + 1)) % LINES = 0
          BY <1>4, ProductIsMultiple
        <4> QED
          BY <3>1, <4>1, <4>2 DEF full
      <3>2. CASE Len(lines) # LINES
        <4>1. Len(lines) \in Nat \ {0} /\ Len(lines) < LINES
          BY <1>4, <2>2, <2>6, <3>2
        <4>2. (LINES * q + Len(lines)) % LINES = Len(lines)
          BY <1>4, <4>1, Remainder
        <4> QED
          BY <2>7, <3>2, <4>1, <4>2 DEF full
      <3> QED
        BY <3>1, <3>2
    <2>9. full => OnConsole(lines) = Regions(lines)
      BY <2>2, <2>6, NothingScrolls
    <2>10. Regions(list'.lines) = Regions(lines)
      BY <2>4
    <2>11. ListComplete'
      <3>1. \E r \in Nat : list'.printed = LINES * r + Len(list'.lines)
        BY <2>4, <2>7
      <3>2. IF list'.phase = "pause" THEN Len(list'.lines) = LINES ELSE Len(list'.lines) < LINES
        BY <1>4, <2>2, <2>4, <2>6, <2>8
      <3>3. IF list'.phase = "loop"
            THEN list'.seen \cup Regions(list'.lines) = Before(list'.index)
            ELSE list'.seen = Before(list'.index)
        BY <2>4, <2>5, <2>9, <2>10
      <3> QED
        BY <1>3, <2>4, <3>1, <3>2, <3>3 DEF ListComplete, Regions
    <2> QED
      BY <2>11
  <1> QED
    BY <1>7, <1>8

\* So does every other step.
LEMMA StepListComplete ==
    SessionTypeOK /\ ListComplete /\ [SessionNext]_sessionVars => ListComplete'
  <1> SUFFICES ASSUME SessionTypeOK, ListComplete, [SessionNext]_sessionVars
               PROVE  ListComplete'
    OBVIOUS
  <1>1. LINES \in Nat \ {0} /\ list \in Lists
    BY UefiNexusAssumption DEF SessionTypeOK
  <1>2. CASE UNCHANGED sessionVars
    BY <1>2 DEF sessionVars, vars, maps, ListComplete, Regions, Before
  <1>3. CASE ListStart
    <2>1. list' = [NoList EXCEPT !.phase = "loop", !.since = attributeChanges]
      BY <1>3 DEF ListStart
    <2>2. /\ list'.phase = "loop" /\ list'.index = 1 /\ list'.printed = 0
          /\ list'.lines = <<>> /\ list'.seen = {}
      BY <2>1 DEF NoList
    <2>3. memMap' = memMap /\ pc = "key"
      BY <1>3 DEF ListStart, RangesKey, maps
    <2>4. Len(memMap) \in Nat /\ DOMAIN memMap = 1 .. Len(memMap)
      <3>1. memMap \in MemoryMaps \cup {<<>>}
        BY DEF SessionTypeOK, TypeOK
      <3> QED
        BY <3>1, MapIsSequence
    <2>5. Before(1)' = {} /\ Regions(<<>>) = {}
      BY <2>3, <2>4 DEF Before, Regions
    <2>6. 0 = LINES * 0 + Len(<<>>) /\ Len(<<>>) = 0
      BY <1>1
    <2> QED
      BY <1>1, <2>2, <2>5, <2>6 DEF ListComplete, Regions, Before
  <1>4. CASE ListRegion
    BY <1>4, ListRegionComplete
  <1>5. CASE ListEnds
    <2>1. list.phase = "loop" /\ list.index > Len(memMap)
      BY <1>5 DEF ListEnds
    <2>2. list' = [list EXCEPT !.phase = "end", !.seen = list.seen \cup OnConsole(list.lines)]
      BY <1>5 DEF ListEnds
    <2>3. /\ list'.phase = "end" /\ list'.index = list.index /\ list'.printed = list.printed
          /\ list'.lines = list.lines /\ list'.seen = list.seen \cup OnConsole(list.lines)
      BY <1>1, <2>2 DEF Lists
    <2>4. OnConsole(list.lines) = Regions(list.lines)
      BY <1>1, <2>1, OpenList, NothingScrolls DEF ListComplete
    <2>5. memMap' = memMap
      BY <1>5 DEF ListEnds, vars, maps
    <2> QED
      BY <2>1, <2>3, <2>4, <2>5 DEF ListComplete, Before
  <1>6. CASE ListContinue
    <2>1. list.phase = "pause"
      BY <1>6 DEF ListContinue
    <2>2. list' = [list EXCEPT !.phase = "loop", !.lines = <<>>, !.since = attributeChanges]
      BY <1>6 DEF ListContinue
    <2>3. /\ list'.phase = "loop" /\ list'.index = list.index /\ list'.printed = list.printed
          /\ list'.lines = <<>> /\ list'.seen = list.seen
      BY <1>1, <2>2 DEF Lists
    <2>4. PICK q \in Nat : list.printed = LINES * q + LINES
      BY <2>1 DEF ListComplete
    <2>5. list.printed = LINES * (q + 1) + Len(<<>>) /\ Len(<<>>) = 0
      <3>1. LINES * (q + 1) = LINES * q + LINES /\ LINES * (q + 1) \in Nat
        BY <1>1, SMTT(20)
      <3> QED
        BY <2>4, <3>1
    <2>6. list.seen = Before(list.index) /\ Regions(<<>>) = {}
      BY <2>1 DEF ListComplete, Regions
    <2>7. memMap' = memMap
      BY <1>6 DEF ListContinue, vars, maps
    <2>8. \E r \in Nat : list'.printed = LINES * r + Len(list'.lines)
      BY <2>3, <2>5
    <2> QED
      BY <1>1, <2>3, <2>5, <2>6, <2>7, <2>8 DEF ListComplete, Regions, Before
  <1>7. CASE ListReturn
    <2>1. list'.phase = "none"
      BY <1>7 DEF ListReturn, NoList
    <2> QED
      BY <2>1 DEF ListComplete
  <1>8. CASE list' = list /\ list.phase = "none"
    BY <1>8 DEF ListComplete
  <1>9. CASE list' = list /\ FirmwareEvent
    BY <1>9 DEF FirmwareEvent, FirmwareSetsAttributes, maps, ListComplete, Regions, Before
  <1> QED
    BY <1>2, <1>3, <1>4, <1>5, <1>6, <1>7, <1>8, <1>9, ListStep

\* Whatever the map and the size of the console, each region has been on the
\* screen at a prompt, also when the regions fill the last screen exactly.
THEOREM ListIsComplete == SessionSpec => []ListsEveryRegion
  <1>1. SessionInit => ListComplete
    BY DEF SessionInit, NoList, ListComplete
  <1>2. SessionTypeOK /\ ListComplete => ListsEveryRegion
    <2> SUFFICES ASSUME SessionTypeOK, ListComplete, list.phase \in {"pause", "end"}
                 PROVE  /\ list.seen = Before(list.index)
                        /\ list.phase = "end" => list.seen = {i \in DOMAIN memMap : memMap[i].pages # 0}
      BY DEF ListsEveryRegion, Before
    <2>1. list.seen = Before(list.index)
      BY DEF ListComplete
    <2>2. ASSUME list.phase = "end" PROVE \A i \in DOMAIN memMap : i < list.index
      BY <2>2, OpenList DEF ListComplete
    <2> QED
      BY <2>1, <2>2 DEF Before
  <1> QED
    BY <1>1, <1>2, StepListComplete, SessionTypeCorrect, PTL DEF SessionSpec

-----------------------------------------------------------------------------
\* Where GetMemoryAttributes has an answer for a range, it has the same for
\* each part of it.
LEMMA AnswerOfPart ==
    ASSUME NEW fw, NEW a \in Nat, NEW n \in Nat, NEW b \in Word, NEW m \in Nat \ {0},
           a <= b, b + m <= a + n,
           GetMemoryAttributes(fw, a, n) # NoAnswer
    PROVE  GetMemoryAttributes(fw, b, m) = GetMemoryAttributes(fw, a, n)
  <1> DEFINE whole == {fw.attrs[q] : q \in {q \in EfiPages : q < a + n /\ a < q + EFI_PAGE}}
             part  == {fw.attrs[q] : q \in {q \in EfiPages : q < b + m /\ b < q + EFI_PAGE}}
             base  == AlignDown(b, EFI_PAGE)
  <1>1. b \in Nat /\ b <= MaxU64 /\ MaxU64 \in Nat /\ EFI_PAGE \in Nat \ {0}
    BY Sizes DEF Word
  <1>2. base \in Nat /\ base <= b /\ b < base + EFI_PAGE /\ base % EFI_PAGE = 0
    BY <1>1, AlignDownBounds, AlignDownIsMultiple
  <1>3. part \subseteq whole
    <2>1. EfiPages \subseteq Nat
      BY Sizes DEF EfiPages, Word
    <2>2. \A q \in EfiPages : q < b + m /\ b < q + EFI_PAGE => q < a + n /\ a < q + EFI_PAGE
      BY <1>1, <2>1
    <2> QED
      BY <2>2
  <1>4. fw.attrs[base] \in part
    <2> HIDE DEF base
    <2> QED
      BY <1>1, <1>2 DEF EfiPages, Word
  <1>5. /\ GetMemoryAttributes(fw, a, n) =
              IF \E y \in whole : whole = {y} THEN CHOOSE y \in whole : TRUE ELSE NoAnswer
        /\ GetMemoryAttributes(fw, b, m) =
              IF \E y \in part : part = {y} THEN CHOOSE y \in part : TRUE ELSE NoAnswer
    BY DEF GetMemoryAttributes
  <1> HIDE DEF whole, part
  <1>6. PICK y \in whole : whole = {y}
    BY <1>5
  <1>7. part = whole
    BY <1>3, <1>4, <1>6
  <1> QED
    BY <1>5, <1>7

\* In a map of disjoint regions a range inside one of them belongs to it
\* alone.
LEMMA OnlyRegion ==
    ASSUME NEW m \in MemoryMaps \cup {<<>>}, Disjoint(m), NEW i \in DOMAIN m,
           m[i].pages <= MaxU64 \div EFI_PAGE,
           NEW a \in Nat, NEW n \in Nat \ {0}, Covers(m[i], a, n)
    PROVE  DescriptorsForRange(m, a, n) = {i} /\ Min(DescriptorsForRange(m, a, n)) = i
  <1> DEFINE found == DescriptorsForRange(m, a, n)
  <1>1. /\ m \in Seq(EfiDescriptor)
        /\ DOMAIN m = 1 .. Len(m) /\ Len(m) \in Nat
        /\ \A j \in DOMAIN m : Conforming(m[j])
    BY MapIsSequence
  <1>2. \A j \in DOMAIN m : m[j].pages \in Nat \ {0} /\ m[j].start \in Nat
    BY <1>1, Sizes DEF Conforming, Word
  <1>3. \A j \in DOMAIN m : m[j].pages <= MaxU64 \div EFI_PAGE =>
             /\ DescriptorSize(m[j]) = m[j].pages * EFI_PAGE
             /\ m[j].pages * EFI_PAGE \in Nat
    <2> TAKE j \in DOMAIN m
    <2> HAVE m[j].pages <= MaxU64 \div EFI_PAGE
    <2> DEFINE size == m[j].pages * EFI_PAGE
    <2>1. size \in Nat /\ size <= MaxU64
      BY <1>2, PagesFit
    <2>2. DescriptorSize(m[j]) = Wrap(size)
      BY DEF DescriptorSize
    <2> HIDE DEF size
    <2>3. Wrap(size) = size
      BY <2>1, WrapIsWord, Sizes DEF Word
    <2> QED
      BY <2>1, <2>2, <2>3 DEF size
  <1>4. i \in found
    BY <1>2 DEF DescriptorsForRange
  <1>5. ASSUME NEW j \in found PROVE j = i
    <2>1. j \in DOMAIN m /\ m[j].pages <= MaxU64 \div EFI_PAGE /\ Covers(m[j], a, n)
      BY DEF DescriptorsForRange
    <2> DEFINE ei == m[i].pages * EFI_PAGE
               ej == m[j].pages * EFI_PAGE
    <2>2. /\ ei \in Nat /\ ej \in Nat /\ m[i].start \in Nat /\ m[j].start \in Nat
          /\ m[i].start <= a /\ a + n <= m[i].start + ei
          /\ m[j].start <= a /\ a + n <= m[j].start + ej
      BY <1>2, <1>3, <2>1 DEF Covers, DescriptorEnd
    <2>3. i # j => \/ m[i].start + ei <= m[j].start
                   \/ m[j].start + ej <= m[i].start
      BY <2>1 DEF Disjoint
    <2> HIDE DEF ei, ej
    <2> QED
      BY <2>2, <2>3
  <1>6. found = {i} /\ i \in Nat
    BY <1>1, <1>4, <1>5
  <1> HIDE DEF found
  <1>7. Min(found) \in found
    BY <1>6, LeastElement
  <1> QED
    BY <1>6, <1>7 DEF found

\* The title's query for a view page and the list's query for the region of
\* the page have the same answer.
LEMMA LineMatchesTitle ==
    ASSUME SessionTypeOK, Disjoint(memMap), NEW i \in DOMAIN memMap,
           ListLine(i).access.AccessKnown,
           NEW p \in ViewPages, Covers(memMap[i], p, PAGE_SIZE)
    PROVE  QueryMemoryAccess(memMap, firmware, p, PAGE_SIZE) = ListLine(i).access
  <1> DEFINE d == memMap[i]
             s == d.start
             z == DescriptorSize(d)
             whole == GetMemoryAttributes(firmware, s, z)
             part  == GetMemoryAttributes(firmware, p, PAGE_SIZE)
  <1>1. memMap \in MemoryMaps \cup {<<>>}
    BY DEF SessionTypeOK, TypeOK
  <1>2. d.pages \in Nat \ {0} /\ s \in Nat /\ s \in Word
    BY <1>1, MapIsSequence, Sizes DEF Conforming, Word
  <1>3. d.pages <= MaxU64 \div EFI_PAGE /\ ListLine(i).access = QueryMemoryAccess(memMap, firmware, s, z)
    BY DEF ListLine, AccessUnknown
  <1>4. z \in Nat \ {0} /\ s + z <= MaxU64
    <2>1. d.pages * EFI_PAGE \in Nat /\ d.pages * EFI_PAGE <= MaxU64
      BY <1>2, <1>3, PagesFit
    <2>2. d.pages * EFI_PAGE # 0
      BY <1>2, Sizes
    <2>3. z = Wrap(d.pages * EFI_PAGE)
      BY DEF DescriptorSize
    <2>4. z = d.pages * EFI_PAGE
      BY <2>1, <2>3, WrapIsWord, Sizes DEF Word
    <2>5. s <= MaxU64 - z
      BY DEF Covers, EndsInWord
    <2> HIDE DEF z
    <2> QED
      BY <1>2, <2>1, <2>2, <2>4, <2>5, Sizes
  <1>5. /\ p \in Nat /\ p \in Word /\ PAGE_SIZE \in Nat \ {0} /\ MaxU64 \in Nat
        /\ s <= p /\ p + PAGE_SIZE <= s + z
    BY ViewPageFits, Sizes DEF Covers, DescriptorEnd
  <1>6. Covers(d, s, z)
    BY <1>2, <1>4 DEF Covers, DescriptorEnd
  <1>7. /\ DescriptorsForRange(memMap, s, z) = {i}
        /\ Min(DescriptorsForRange(memMap, s, z)) = i
        /\ DescriptorsForRange(memMap, p, PAGE_SIZE) = {i}
        /\ Min(DescriptorsForRange(memMap, p, PAGE_SIZE)) = i
    <2> HIDE DEF z, s
    <2> QED
      BY <1>1, <1>2, <1>3, <1>4, <1>5, <1>6, OnlyRegion
  <1>8. firmware.present /\ whole # NoAnswer
    BY <1>3 DEF QueryMemoryAccess, AccessUnknown
  <1>9. part = whole
    <2> HIDE DEF s, z
    <2> QED
      BY <1>2, <1>4, <1>5, <1>8, AnswerOfPart
  <1>10. /\ ~ (s > MaxU64 - z) /\ z # 0
         /\ ~ (p > MaxU64 - PAGE_SIZE) /\ PAGE_SIZE # 0
    <2> HIDE DEF s, z
    <2> QED
      BY <1>2, <1>4, <1>5
  <1> HIDE DEF s, z, whole, part
  <1>11. QueryMemoryAccess(memMap, firmware, s, z) =
           [AccessKnown    |-> TRUE,
            ReadAllowed    |-> d.type \in ReadableTypes /\ "RP" \notin whole,
            WriteAllowed   |-> d.type \in WritableTypes /\ "RO" \notin whole,
            ExecuteAllowed |-> "XP" \notin whole]
    BY <1>7, <1>8, <1>10 DEF QueryMemoryAccess, IsToolRangeReadable, IsToolRangeWritable, whole
  <1>12. QueryMemoryAccess(memMap, firmware, p, PAGE_SIZE) =
           [AccessKnown    |-> TRUE,
            ReadAllowed    |-> d.type \in ReadableTypes /\ "RP" \notin part,
            WriteAllowed   |-> d.type \in WritableTypes /\ "RO" \notin part,
            ExecuteAllowed |-> "XP" \notin part]
    BY <1>7, <1>8, <1>9, <1>10 DEF QueryMemoryAccess, IsToolRangeReadable, IsToolRangeWritable, part
  <1> QED
    BY <1>3, <1>9, <1>11, <1>12

\* Why the lines agree: a line is what a query of the moment would print, as
\* long as no attribute has changed since the screen was cleared.
ListCurrent ==
    list.phase # "none" =>
        /\ list.since <= attributeChanges
        /\ \A k \in DOMAIN list.lines : list.lines[k].region \in DOMAIN memMap
        /\ list.since = attributeChanges =>
              \A k \in DOMAIN list.lines : list.lines[k] = ListLine(list.lines[k].region)

\* A line depends on the map and the attributes alone.
LEMMA ListLineKept ==
    ASSUME UNCHANGED <<memMap, firmware>>, NEW i
    PROVE  ListLine(i)' = ListLine(i)
  BY DEF ListLine, QueryMemoryAccess, IsToolRangeReadable, IsToolRangeWritable,
     DescriptorsForRange, GetMemoryAttributes

\* Every step keeps it.
LEMMA StepListCurrent ==
    SessionTypeOK /\ ListCurrent /\ [SessionNext]_sessionVars => ListCurrent'
  <1> SUFFICES ASSUME SessionTypeOK, ListCurrent, [SessionNext]_sessionVars
               PROVE  ListCurrent'
    OBVIOUS
  <1>1. list \in Lists /\ attributeChanges \in Nat
    BY PageMemAssumption DEF SessionTypeOK, TypeOK
  <1>2. CASE UNCHANGED sessionVars
    BY <1>2, ListLineKept DEF sessionVars, vars, maps, ListCurrent
  <1>3. CASE ListStart
    <2>1. list' = [NoList EXCEPT !.phase = "loop", !.since = attributeChanges]
      BY <1>3 DEF ListStart
    <2>2. list'.lines = <<>> /\ list'.since = attributeChanges
      BY <2>1 DEF NoList
    <2>3. attributeChanges' = attributeChanges
      BY <1>3 DEF ListStart, RangesKey, budget
    <2>4. DOMAIN list'.lines = {}
      BY <2>2
    <2> QED
      BY <1>1, <2>2, <2>3, <2>4 DEF ListCurrent
  <1>4. CASE ListRegion
    <2> DEFINE line  == ListLine(list.index)
               lines == Append(list.lines, line)
    <2>1. /\ list.phase = "loop" /\ list.index <= Len(memMap)
          /\ UNCHANGED <<memMap, firmware, attributeChanges>>
      BY <1>4 DEF ListRegion, vars, maps
    <2>2. line \in LineType /\ line.region = list.index /\ list.index \in DOMAIN memMap
      BY <2>1, OpenList, ListLineIsTyped DEF LineType, ListLine
    <2>3. /\ Len(list.lines) \in Nat
          /\ DOMAIN list.lines = 1 .. Len(list.lines)
          /\ DOMAIN lines = 1 .. (Len(list.lines) + 1)
          /\ \A k \in 1 .. Len(list.lines) : lines[k] = list.lines[k]
          /\ lines[Len(list.lines) + 1] = line
      <3> HIDE DEF line
      <3> QED
        BY <2>1, <2>2, OpenList, AppendFacts
    <2>4. list'.since = list.since /\ list'.lines \in {list.lines, lines}
      BY <1>1, <1>4 DEF ListRegion, Lists
    <2>5. CASE list'.lines = list.lines
      BY <2>1, <2>4, <2>5, ListLineKept DEF ListCurrent
    <2>6. CASE list'.lines = lines
      <3>1. line = ListLine(line.region)
        BY <2>2
      <3> HIDE DEF line, lines
      <3>2. \A k \in DOMAIN lines : k \in DOMAIN list.lines \/ k = Len(list.lines) + 1
        BY <2>3
      <3>3. \A k \in DOMAIN lines : lines[k].region \in DOMAIN memMap
        BY <2>1, <2>2, <2>3, <3>2 DEF ListCurrent
      <3>4. list.since = attributeChanges =>
              \A k \in DOMAIN lines : lines[k] = ListLine(lines[k].region)
        BY <2>1, <2>3, <3>1, <3>2 DEF ListCurrent
      <3> QED
        BY <2>1, <2>4, <2>6, <3>3, <3>4, ListLineKept DEF ListCurrent
    <2> QED
      BY <2>4, <2>5, <2>6
  <1>5. CASE ListEnds
    <2>1. list' = [list EXCEPT !.phase = "end", !.seen = list.seen \cup OnConsole(list.lines)]
      BY <1>5 DEF ListEnds
    <2>2. list'.lines = list.lines /\ list'.since = list.since
      BY <1>1, <2>1 DEF Lists
    <2>3. list.phase = "loop" /\ UNCHANGED <<memMap, firmware, attributeChanges>>
      BY <1>5 DEF ListEnds, vars, maps
    <2> QED
      BY <2>2, <2>3, ListLineKept DEF ListCurrent
  <1>6. CASE ListContinue
    <2>1. list' = [list EXCEPT !.phase = "loop", !.lines = <<>>, !.since = attributeChanges]
      BY <1>6 DEF ListContinue
    <2>2. list'.lines = <<>> /\ list'.since = attributeChanges
      BY <1>1, <2>1 DEF Lists
    <2>3. attributeChanges' = attributeChanges
      BY <1>6 DEF ListContinue, vars
    <2>4. DOMAIN list'.lines = {}
      BY <2>2
    <2> QED
      BY <1>1, <2>2, <2>3, <2>4 DEF ListCurrent
  <1>7. CASE ListReturn
    <2>1. list'.phase = "none"
      BY <1>7 DEF ListReturn, NoList
    <2> QED
      BY <2>1 DEF ListCurrent
  <1>8. CASE list' = list /\ list.phase = "none"
    BY <1>8 DEF ListCurrent
  <1>9. CASE list' = list /\ FirmwareEvent
    <2>1. memMap' = memMap /\ attributeChanges' = attributeChanges + 1
      BY <1>9 DEF FirmwareEvent, FirmwareSetsAttributes, maps
    <2>2. list.phase # "none" => list.since \in Nat
      BY OpenList
    <2> QED
      BY <1>1, <1>9, <2>1, <2>2 DEF ListCurrent
  <1> QED
    BY <1>2, <1>3, <1>4, <1>5, <1>6, <1>7, <1>8, <1>9, ListStep

\* For every map of disjoint regions and all attributes, the range list and
\* the title row show the same access.
THEOREM ListMatchesTitle == SessionSpec => []ListAgreesWithTitle
  <1>1. SessionInit => ListCurrent
    BY DEF SessionInit, NoList, ListCurrent
  <1>2. SessionTypeOK /\ ListCurrent => ListAgreesWithTitle
    BY LineMatchesTitle DEF ListCurrent, ListAgreesWithTitle
  <1> QED
    BY <1>1, <1>2, StepListCurrent, SessionTypeCorrect, PTL DEF SessionSpec
-----------------------------------------------------------------------------
(* The way out. *)

\* While the list runs, what is left of it counts.
LEMMA StepsInList ==
    ASSUME SessionTypeOK, list.phase = "loop"
    PROVE  /\ StepsToExit = 6 + Len(memMap) - list.index
           /\ list.index \in Nat /\ Len(memMap) \in Nat
           /\ list.index <= Len(memMap) + 1
  <1>1. pc = "ranges"
    BY DEF SessionTypeOK
  <1> QED
    BY <1>1, OpenList DEF StepsToExit

\* Each ESC brings the end nearer.
LEMMA EscStepComesNearer ==
    ASSUME SessionTypeOK, SessionTypeOK', EscStep
    PROVE  StepsToExit' \in 0 .. (StepsToExit - 1)
  <1>1. app = "page" <=> pc # "menu"
    BY DEF SessionTypeOK
  <1>2. CASE PageCancel
    <2>1. pc \in {"editHex", "gotoHex"} /\ pc' = "loop" /\ UNCHANGED <<app, list>>
      BY <1>2 DEF PageCancel, EditCancel, EditEnds, GotoCancel, GotoEnds
    <2>2. app = "page" /\ list.phase = "none"
      BY <1>1, <2>1 DEF SessionTypeOK
    <2>3. StepsToExit = 4 /\ StepsToExit' = 3
      BY <2>1, <2>2 DEF StepsToExit
    <2> QED
      BY <2>3
  <1>3. CASE PageEsc
    <2>1. StepsToExit = 2 /\ StepsToExit' = 1
      BY <1>1, <1>3 DEF PageEsc, EscKey, ReturnToMenu, StepsToExit
    <2> QED
      BY <2>1
  <1>4. CASE ListReturn
    <2>1. StepsToExit = 4 /\ StepsToExit' = 3
      BY <1>1, <1>4 DEF ListReturn, RangesReturn, StepsToExit
    <2> QED
      BY <2>1
  <1>5. CASE MenuEsc
    <2>1. app = "menu" /\ pc = "menu" /\ app' = "exited" /\ pc' = "menu"
      BY <1>1, <1>5 DEF MenuEsc, AppDeinit, vars
    <2>2. StepsToExit = 1 /\ StepsToExit' = 0
      BY <2>1 DEF StepsToExit
    <2> QED
      BY <2>2
  <1> QED
    BY <1>2, <1>3, <1>4, <1>5 DEF EscStep

\* So does each step that the program takes on its own.
LEMMA ProgramStepComesNearer ==
    ASSUME SessionTypeOK, SessionTypeOK', ProgramStep
    PROVE  StepsToExit' \in 0 .. (StepsToExit - 1)
  <1>1. app = "page" <=> pc # "menu"
    BY DEF SessionTypeOK
  <1>2. CASE PageDraws
    <2>1. StepsToExit = 3 /\ StepsToExit' = 2
      BY <1>1, <1>2 DEF PageDraws, DrawAndWait, StepsToExit
    <2> QED
      BY <2>1
  <1>3. ASSUME list.phase = "loop", UNCHANGED vars,
               \/ list'.phase = "loop" /\ list'.index = list.index + 1
               \/ list'.phase \in {"pause", "end"}
        PROVE  StepsToExit' \in 0 .. (StepsToExit - 1)
    <2>1. /\ StepsToExit = 6 + Len(memMap) - list.index
          /\ list.index \in Nat /\ Len(memMap) \in Nat
          /\ list.index <= Len(memMap) + 1
      BY <1>3, StepsInList
    <2>2. memMap' = memMap /\ pc = "ranges" /\ pc' = "ranges"
      BY <1>3 DEF SessionTypeOK, vars, maps
    <2>3. app' = "page"
      BY <2>2 DEF SessionTypeOK
    <2>4. CASE list'.phase = "loop" /\ list'.index = list.index + 1
      <3>1. list'.index <= Len(memMap) + 1
        BY <2>2, <2>4 DEF SessionTypeOK
      <3>2. StepsToExit' = 6 + Len(memMap) - (list.index + 1)
        BY <2>2, <2>3, <2>4 DEF StepsToExit
      <3> QED
        BY <2>1, <2>4, <3>1, <3>2
    <2>5. CASE list'.phase \in {"pause", "end"}
      <3>1. StepsToExit' = 4
        BY <2>2, <2>3, <2>5 DEF StepsToExit
      <3> QED
        BY <2>1, <3>1
    <2> QED
      BY <1>3, <2>4, <2>5
  <1>4. CASE ListRegion
    <2>1. list \in Lists /\ list.phase = "loop" /\ UNCHANGED vars
      BY <1>4 DEF ListRegion, SessionTypeOK
    <2>2. \/ list'.phase = "loop" /\ list'.index = list.index + 1
          \/ list'.phase \in {"pause", "end"}
      BY <1>4, <2>1 DEF ListRegion, Lists
    <2> QED
      BY <1>3, <2>1, <2>2
  <1>5. CASE ListEnds
    <2>1. list \in Lists /\ list.phase = "loop" /\ UNCHANGED vars
      BY <1>5 DEF ListEnds, SessionTypeOK
    <2>2. list'.phase = "end"
      BY <1>5, <2>1 DEF ListEnds, Lists
    <2> QED
      BY <1>3, <2>1, <2>2
  <1> QED
    BY <1>2, <1>4, <1>5 DEF ProgramStep

\* The firmware does not put the end off.
LEMMA FirmwareKeepsDistance == FirmwareEvent => StepsToExit' = StepsToExit
  <1> SUFFICES ASSUME FirmwareEvent PROVE StepsToExit' = StepsToExit
    OBVIOUS
  <1>1. UNCHANGED <<app, pc, list, memMap>>
    BY DEF FirmwareEvent, FirmwareSetsAttributes, maps
  <1> QED
    BY <1>1 DEF StepsToExit

\* For every map, every registry and every size of the screen, a user who
\* presses ESC at each wait is led out in a number of steps that the state
\* gives.
THEOREM EscAlwaysComesNearer == SessionSpec => EscComesNearer
  <1>1. SessionTypeOK /\ SessionTypeOK' /\ [SessionNext]_sessionVars =>
            [/\ EscStep \/ ProgramStep => StepsToExit' \in 0 .. (StepsToExit - 1)
             /\ FirmwareEvent => StepsToExit' = StepsToExit]_sessionVars
    BY EscStepComesNearer, ProgramStepComesNearer, FirmwareKeepsDistance
  <1> QED
    BY <1>1, SessionTypeCorrect, PTL DEF SessionSpec, EscComesNearer
=============================================================================
