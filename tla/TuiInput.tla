------------------------------ MODULE TuiInput ------------------------------
(***************************************************************************)
(* TuiReadHex: the number typed at the prompts of Edit and Goto.  Digits   *)
(* are stored in an array on the stack, whose contents are arbitrary at    *)
(* first and which keeps digits that were taken back; the value is parsed  *)
(* from the array up to the terminator that ENTER stores.  What the user   *)
(* sees is what was echoed.                                                *)
(***************************************************************************)
EXTENDS Integers, Sequences, FiniteSetsExt

CONSTANTS
    BufferSize,  \* entries of Buffer, 32 in the code
    Base,        \* 16
    Digits,      \* the digit keys the user presses
    Requests,    \* the MaxDigits of the calls: twice the width, or 16
    MaxU64

ASSUME TuiInputAssumption ==
    /\ BufferSize \in Nat \ {0}
    /\ Base \in Nat \ {0, 1}
    /\ Digits \subseteq 0 .. (Base - 1)
    /\ Requests \subseteq Nat
    /\ MaxU64 \in Nat

VARIABLES
    pc,         \* "returned", or "reading" a key
    maxDigits,  \* MaxDigits after it was limited to the array
    buffer,     \* Buffer
    index,      \* Index
    echo,       \* the digits on the screen, from the prompt on
    result      \* the value delivered, or NoValue

vars == <<pc, maxDigits, buffer, index, echo, result>>

Nul     == -1
NoValue == -1
Cells   == 0 .. (BufferSize - 1)
Buffers == [Cells -> Digits \cup {Nul}]

\* The characters of an array up to its first terminator.
Text(b) ==
    LET nuls == {i \in Cells : b[i] = Nul}
        size == IF nuls = {} THEN BufferSize ELSE Min(nuls)
    IN [k \in 1 .. size |-> b[k - 1]]

\* StrHexToUint64: one more digit, which stops at the largest value, for each
\* digit of the text.
AddDigit(v, d) == IF v > (MaxU64 - d) \div Base THEN MaxU64 ELSE v * Base + d

StrHexToUint64(s) ==
    LET value[n \in 0 .. Len(s)] ==
            IF n = 0 THEN 0 ELSE AddDigit(value[n - 1], s[n])
    IN value[Len(s)]

Init ==
    /\ pc = "returned"
    /\ maxDigits = 0
    /\ buffer \in Buffers
    /\ index = 0
    /\ echo = <<>>
    /\ result = NoValue

\* Mutant: leaves no room for the terminator.
LimitToArray(requested) ==
    IF requested > BufferSize THEN BufferSize ELSE requested

Limit(requested) ==
    IF requested >= BufferSize THEN BufferSize - 1 ELSE requested

\* A call.  The array is new, and nothing is written to it.
ReadHex(requested) ==
    /\ pc = "returned"
    /\ pc' = "reading"
    /\ maxDigits' = Limit(requested)
    /\ buffer' \in Buffers
    /\ index' = 0
    /\ echo' = <<>>
    /\ result' = NoValue

\* Mutant: one digit too many.
DigitKeyInclusive(d) ==
    /\ pc = "reading"
    /\ index <= maxDigits
    /\ buffer' = [buffer EXCEPT ![index] = d]
    /\ index' = index + 1
    /\ echo' = Append(echo, d)
    /\ UNCHANGED <<pc, maxDigits, result>>

\* Beyond the limit a digit, like any other key, changes nothing.
DigitKey(d) ==
    /\ pc = "reading"
    /\ index < maxDigits
    /\ buffer' = [buffer EXCEPT ![index] = d]
    /\ index' = index + 1
    /\ echo' = Append(echo, d)
    /\ UNCHANGED <<pc, maxDigits, result>>

\* Mutant: takes the digit back without erasing it.
BackspaceKeySilent ==
    /\ pc = "reading"
    /\ index > 0
    /\ index' = index - 1
    /\ UNCHANGED <<pc, maxDigits, buffer, echo, result>>

BackspaceKey ==
    /\ pc = "reading"
    /\ index > 0
    /\ index' = index - 1
    /\ echo' = SubSeq(echo, 1, Len(echo) - 1)
    /\ UNCHANGED <<pc, maxDigits, buffer, result>>

\* Mutant: parses the array without storing the terminator.
EnterKeyUnterminated ==
    /\ pc = "reading"
    /\ result' = StrHexToUint64(Text(buffer))
    /\ pc' = "returned"
    /\ UNCHANGED <<maxDigits, buffer, index, echo>>

EnterKey ==
    /\ pc = "reading"
    /\ buffer' = [buffer EXCEPT ![index] = Nul]
    /\ result' = StrHexToUint64(Text(buffer'))
    /\ pc' = "returned"
    /\ UNCHANGED <<maxDigits, index, echo>>

EscKey ==
    /\ pc = "reading"
    /\ pc' = "returned"
    /\ UNCHANGED <<maxDigits, buffer, index, echo, result>>

Next ==
    \/ \E requested \in Requests : ReadHex(requested)
    \/ \E d \in Digits : DigitKey(d)
    \/ BackspaceKey
    \/ EnterKey
    \/ EscKey

Spec == Init /\ [][Next]_vars

-----------------------------------------------------------------------------
(* Properties. *)

\* Type correctness.  The index conjuncts are the promise that neither a
\* digit nor the terminator is ever stored outside the array.
TypeOK ==
    /\ pc \in {"returned", "reading"}
    /\ maxDigits \in 0 .. (BufferSize - 1)
    /\ buffer \in Buffers
    /\ index \in 0 .. maxDigits
    /\ echo \in Seq(Digits)
    /\ pc = "reading" => result = NoValue

\* The value delivered is that of the digits the user saw on pressing ENTER,
\* whatever was typed and taken back before and whatever the array held.
ShownIsDelivered ==
    (pc = "returned" /\ result # NoValue) => result = StrHexToUint64(echo)

\* How many numbers n digits can write: Base to the power of n.
NumbersOf[n \in 0 .. BufferSize] == IF n = 0 THEN 1 ELSE Base * NumbersOf[n - 1]

\* With two digits for each byte of the width, the value fits the width: the
\* check that PageMemActionEditValue makes afterwards cannot fail.
ValueFitsRequest ==
    [][EnterKey => result' < NumbersOf[maxDigits]]_vars

\* TuiReadHex implements a line editor.
Editor == INSTANCE LineEditor WITH
    Symbols  <- Digits,
    Rooms    <- 0 .. (BufferSize - 1),
    Value    <- StrHexToUint64,
    NoAnswer <- NoValue,
    editing  <- (pc = "reading"),
    line     <- SubSeq(Text([buffer EXCEPT ![index] = Nul]), 1, index),
    room     <- maxDigits,
    answer   <- result

ImplementsLineEditor == Editor!Spec
=============================================================================
