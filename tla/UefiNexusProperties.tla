------------------------- MODULE UefiNexusProperties ------------------------
(***************************************************************************)
(* What the application as a whole must satisfy.                           *)
(***************************************************************************)
EXTENDS UefiNexus, PageMemProperties

Consoles == [CursorVisible : BOOLEAN, Attribute : Attributes \cup {NORMAL},
             background : Attributes \cup {NORMAL}]

Lists == [phase   : {"none", "loop", "pause", "end"},
          index   : Nat \ {0},
          printed : Nat,
          lines   : Seq([region : Nat, access : AccessInfo]),
          since   : 0 .. MaxAttributeChanges,
          seen    : SUBSET Nat]

\* Type correctness, and where the shell and the page must agree: the page is
\* open exactly while the shell is in it, the list exactly while the page is
\* in its list, and neither the selection of the menu nor the index of the
\* list leaves its array.
SessionTypeOK ==
    /\ TypeOK
    /\ app \in {"firmware", "menu", "page", "exited"}
    /\ app = "page" <=> pc # "menu"
    /\ selected \in DOMAIN EntryPoints
    /\ {console, saved, original} \subseteq Consoles
    /\ list \in Lists
    /\ list.phase = "none" <=> pc # "ranges"
    /\ IF list.phase = "none" THEN list = NoList ELSE list.index <= Len(memMap) + 1

\* When the application has ended the console is as it found it: cursor and
\* attribute are those from before the start and the screen is cleared in that
\* attribute, however the pages in between used the console, in whichever
\* order, and whether or not a page could be opened.
ConsoleRestored ==
    app = "exited" => /\ console.CursorVisible = original.CursorVisible
                      /\ console.Attribute = original.Attribute
                      /\ console.background = original.Attribute

\* Whenever the range list waits for a key, every region up to there has been
\* on the console at some wait, none was scrolled away between two prompts,
\* and at the last prompt there is none left.  A number of regions that is a
\* multiple of LINES gives one more screen without any.
ListsEveryRegion ==
    list.phase \in {"pause", "end"} =>
        /\ list.seen = {i \in DOMAIN memMap : i < list.index /\ memMap[i].pages # 0}
        /\ list.phase = "end" => list.seen = {i \in DOMAIN memMap : memMap[i].pages # 0}

\* The range list and the title row agree: a known access that the list shows
\* for a region is the one that the title gets when any view page of the
\* region is entered, as long as the firmware has changed no attribute since
\* the line was printed.  Each is a query of its own, over ranges of different
\* lengths; where the attributes differ inside a region the list says that
\* its access is unknown, and the property says nothing.
Disjoint(map) ==
    \A i, j \in DOMAIN map :
        i # j => \/ map[i].start + map[i].pages * EFI_PAGE <= map[j].start
                 \/ map[j].start + map[j].pages * EFI_PAGE <= map[i].start

ListAgreesWithTitle ==
    (/\ Disjoint(memMap)
     /\ list.phase \in {"pause", "end"}
     /\ list.since = attributeChanges) =>
        \A k \in DOMAIN list.lines :
            list.lines[k].access.AccessKnown =>
                \A p \in ViewPages :
                    Covers(memMap[list.lines[k].region], p, PAGE_SIZE) =>
                        QueryMemoryAccess(memMap, firmware, p, PAGE_SIZE) = list.lines[k].access

\* The steps that the program is from its end: one ESC at each wait, a redraw,
\* and what is left of the list's loop.
StepsToExit ==
    CASE pc = "menu"   -> IF app = "exited" THEN 0 ELSE 1
      [] pc = "key"    -> 2
      [] pc = "loop"   -> 3
      [] pc = "ranges" -> IF list.phase = "loop" THEN 6 + Len(memMap) - list.index ELSE 4
      [] OTHER         -> 4

\* Why ESC leads out: no ESC is lost.  Wherever it is pressed, and with every
\* step that the program then takes on its own, the end comes nearer, and the
\* firmware never puts it off.  A page that redraws itself into another wait,
\* or a list that takes ESC for one more screen, would break this.
EscComesNearer ==
    [][/\ EscStep \/ ProgramStep => StepsToExit' \in 0 .. (StepsToExit - 1)
       /\ FirmwareEvent => StepsToExit' = StepsToExit]_sessionVars

\* ESC is the way out from everywhere.  A user who at some point begins to
\* answer every wait with ESC ends the application, from any prompt, from any
\* screen of the list, and whatever the firmware does meanwhile.
OnlyEsc ==
    /\ <>[][EscStep \/ ProgramStep \/ FirmwareEvent]_sessionVars
    /\ WF_sessionVars(EscStep)

EscLeadsOut == OnlyEsc => (app # "firmware" ~> app = "exited")
=============================================================================
