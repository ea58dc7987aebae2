----------------------------- MODULE PageBrowser ----------------------------
(***************************************************************************)
(* What the memory viewer promises about the page it shows, with nothing   *)
(* of how it keeps it: the user opens the viewer, turns to the nearest     *)
(* valid page above or below, is asked for an address and goes to any      *)
(* page, and closes the viewer.  No other step changes the page.           *)
(***************************************************************************)
EXTENDS Integers, FiniteSetsExt

CONSTANT Pages  \* the base addresses of the view pages

VARIABLES
    state,  \* "closed", "viewing" or "asking"
    valid,  \* the pages that may be turned to
    page    \* the page shown

browser == <<state, valid, page>>

Init == /\ state = "closed"
        /\ valid = {}
        /\ page = 0

\* The first page need not be a valid one: the viewer opens at the first
\* region that may be browsed, which need not end inside the address space.
Open == /\ state = "closed"
        /\ state' = "viewing"
        /\ valid' \in SUBSET Pages
        /\ page' \in Pages

Above == {p \in valid : p > page}
Below == {p \in valid : p < page}

TurnForward ==
    /\ state = "viewing"
    /\ Above # {}
    /\ page' = Min(Above)
    /\ UNCHANGED <<state, valid>>

TurnBack ==
    /\ state = "viewing"
    /\ Below # {}
    /\ page' = Max(Below)
    /\ UNCHANGED <<state, valid>>

Ask == /\ state = "viewing"
       /\ state' = "asking"
       /\ UNCHANGED <<valid, page>>

Answer == /\ state = "asking"
          /\ state' = "viewing"
          /\ page' \in Pages
          /\ UNCHANGED valid

Close == /\ state = "viewing"
         /\ state' = "closed"
         /\ valid' = {}
         /\ page' = 0

Next == Open \/ TurnForward \/ TurnBack \/ Ask \/ Answer \/ Close

Spec == Init /\ [][Next]_browser
=============================================================================
