----------------------------- MODULE LineEditor -----------------------------
(***************************************************************************)
(* What a prompt for a number promises: the user types symbols onto a line *)
(* with room for some, takes the last one back, and then either submits    *)
(* the line, whose value is the answer, or gives up.                       *)
(***************************************************************************)
EXTENDS Naturals, Sequences

CONSTANTS
    Symbols,  \* what may be typed
    Rooms,    \* how much room a line may have
    Value(_), \* the value of a line
    NoAnswer  \* the answer when the user gave up

VARIABLES
    editing,  \* a line is being edited
    line,     \* the symbols on it
    room,     \* how many it holds
    answer    \* the answer of the last prompt

editor == <<editing, line, room, answer>>

Init == /\ editing = FALSE
        /\ line = <<>>
        /\ room = 0
        /\ answer = NoAnswer

Start == /\ ~editing
         /\ editing' = TRUE
         /\ line' = <<>>
         /\ room' \in Rooms
         /\ answer' = NoAnswer

Type == /\ editing
        /\ Len(line) < room
        /\ \E d \in Symbols : line' = Append(line, d)
        /\ UNCHANGED <<editing, room, answer>>

TakeBack == /\ editing
            /\ line # <<>>
            /\ line' = SubSeq(line, 1, Len(line) - 1)
            /\ UNCHANGED <<editing, room, answer>>

Submit == /\ editing
          /\ editing' = FALSE
          /\ answer' = Value(line)
          /\ UNCHANGED <<line, room>>

GiveUp == /\ editing
          /\ editing' = FALSE
          /\ UNCHANGED <<line, room, answer>>

Next == Start \/ Type \/ TakeBack \/ Submit \/ GiveUp

Spec == Init /\ [][Next]_editor
=============================================================================
