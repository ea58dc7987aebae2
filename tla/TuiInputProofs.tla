--------------------------- MODULE TuiInputProofs ---------------------------
(***************************************************************************)
(* TuiReadHex never leaves its array and delivers what was shown, for      *)
(* every size of the array, base and limit.                                *)
(***************************************************************************)
EXTENDS TuiInput, FiniteSetTheorems, TLAPS

\* The array agrees with the screen below the index, also after the call.
EchoInv == /\ Len(echo) = index
           /\ \A k \in 1 .. index : buffer[k - 1] = echo[k]

InputInv == TypeOK /\ EchoInv /\ ShownIsDelivered

\* Limiting a request leaves room for the terminator.
LEMMA LimitIsInArray ==
    ASSUME NEW n \in Requests
    PROVE  Limit(n) \in 0 .. (BufferSize - 1)
  BY TuiInputAssumption DEF Limit

\* A terminator behind digits ends the text there.
LEMMA TextOfDigits ==
    ASSUME NEW b \in Buffers, NEW n \in Cells, b[n] = Nul,
           NEW s \in Seq(Digits), Len(s) = n,
           \A k \in 1 .. n : b[k - 1] = s[k]
    PROVE  Text(b) = s
  <1> DEFINE nuls == {i \in Cells : b[i] = Nul}
  <1>1. n \in nuls /\ n \in Nat
    BY TuiInputAssumption DEF Cells
  <1>2. ASSUME NEW i \in nuls PROVE n <= i
    <2>1. i \in Nat /\ b[i] = Nul
      BY TuiInputAssumption DEF Cells
    <2>2. SUFFICES ASSUME i < n PROVE FALSE
      BY <1>1, <2>1
    <2>3. i + 1 \in 1 .. n /\ (i + 1) - 1 = i
      BY <1>1, <2>1, <2>2
    <2>4. b[i] = s[i + 1]
      BY <2>3
    <2>5. s[i + 1] \in Digits
      BY <2>3
    <2> QED
      BY <2>1, <2>4, <2>5, TuiInputAssumption DEF Nul
  <1>3. Min(nuls) = n
    <2>1. \A i \in nuls : i \in Int
      BY TuiInputAssumption DEF Cells
    <2> HIDE DEF nuls
    <2> QED
      BY <1>1, <1>2, <2>1 DEF Min
  <1>4. Text(b) = [k \in 1 .. n |-> b[k - 1]]
    BY <1>1, <1>3 DEF Text
  <1>5. [k \in 1 .. n |-> b[k - 1]] = [k \in 1 .. n |-> s[k]]
    OBVIOUS
  <1>6. s = [k \in 1 .. n |-> s[k]]
    OBVIOUS
  <1> QED
    BY <1>4, <1>5, <1>6

\* A digit is stored where the next character of the screen goes.
LEMMA DigitKeyInv ==
    ASSUME InputInv, NEW d \in Digits, DigitKey(d)
    PROVE  InputInv'
  <1>1. /\ pc = "reading" /\ pc' = "reading"
        /\ index \in Nat /\ index < maxDigits
        /\ maxDigits \in Nat /\ maxDigits <= BufferSize - 1
        /\ echo \in Seq(Digits) /\ Len(echo) = index
    BY TuiInputAssumption DEF InputInv, TypeOK, EchoInv, DigitKey
  <1>2. index \in Cells
    BY <1>1, TuiInputAssumption DEF Cells
  <1>3. buffer' \in Buffers /\ buffer' = [buffer EXCEPT ![index] = d]
    BY <1>2 DEF InputInv, TypeOK, DigitKey, Buffers
  <1>4. echo' = Append(echo, d) /\ echo' \in Seq(Digits) /\ index' = index + 1
    BY <1>1 DEF DigitKey
  <1>5. TypeOK'
    BY <1>1, <1>3, <1>4, TuiInputAssumption DEF InputInv, TypeOK, DigitKey
  <1>6. Len(echo') = index'
    BY <1>1, <1>4
  <1>7. ASSUME NEW k \in 1 .. index' PROVE buffer'[k - 1] = echo'[k]
    <2>1. CASE k = index + 1
      <3>1. buffer'[index] = d
        BY <1>2, <1>3 DEF InputInv, TypeOK, Buffers
      <3>2. echo'[index + 1] = d
        BY <1>1, <1>4
      <3>3. k - 1 = index
        BY <2>1, <1>1
      <3> QED
        BY <2>1, <3>1, <3>2, <3>3
    <2>2. CASE k # index + 1
      <3>1. k \in 1 .. index /\ k - 1 # index /\ k - 1 \in Cells
        BY <2>2, <1>1, <1>4, TuiInputAssumption DEF Cells
      <3>2. buffer'[k - 1] = buffer[k - 1]
        BY <3>1, <1>3 DEF InputInv, TypeOK, Buffers
      <3>3. echo'[k] = echo[k]
        BY <3>1, <1>1, <1>4
      <3>4. buffer[k - 1] = echo[k]
        BY <3>1, <1>1 DEF InputInv, EchoInv
      <3> QED
        BY <3>2, <3>3, <3>4
    <2> QED
      BY <2>1, <2>2
  <1> QED
    BY <1>1, <1>5, <1>6, <1>7 DEF InputInv, EchoInv, ShownIsDelivered

\* A backspace shortens the line on the screen and the one in the array.
LEMMA BackspaceKeyInv ==
    ASSUME InputInv, BackspaceKey
    PROVE  InputInv'
  <1>1. /\ pc = "reading" /\ pc' = "reading"
        /\ index \in Nat /\ index > 0 /\ index <= maxDigits /\ maxDigits \in Nat
        /\ echo \in Seq(Digits) /\ Len(echo) = index
    BY TuiInputAssumption DEF InputInv, TypeOK, EchoInv, BackspaceKey
  <1>2. index' = index - 1 /\ echo' = SubSeq(echo, 1, index - 1)
    BY <1>1 DEF BackspaceKey
  <1>3. echo' \in Seq(Digits) /\ Len(echo') = index - 1
    BY <1>1, <1>2
  <1>4. \A k \in 1 .. (index - 1) : echo'[k] = echo[k]
    BY <1>1, <1>2
  <1>5. TypeOK'
    BY <1>1, <1>2, <1>3 DEF InputInv, TypeOK, BackspaceKey
  <1>6. \A k \in 1 .. index' : buffer'[k - 1] = echo'[k]
    BY <1>1, <1>2, <1>4 DEF InputInv, EchoInv, BackspaceKey
  <1> QED
    BY <1>1, <1>2, <1>3, <1>5, <1>6 DEF InputInv, EchoInv, ShownIsDelivered

\* ENTER parses exactly the digits on the screen.
LEMMA EnterKeyEcho ==
    ASSUME InputInv, EnterKey
    PROVE  /\ result' = StrHexToUint64(echo)
           /\ buffer' \in Buffers
           /\ \A k \in 1 .. index : buffer'[k - 1] = echo[k]
  <1>1. /\ index \in Cells
        /\ echo \in Seq(Digits) /\ Len(echo) = index
        /\ \A k \in 1 .. index : buffer[k - 1] = echo[k]
    BY TuiInputAssumption DEF InputInv, TypeOK, EchoInv, EnterKey, Cells
  <1>2. /\ buffer' \in Buffers
        /\ buffer'[index] = Nul
        /\ \A i \in Cells : i # index => buffer'[i] = buffer[i]
    BY <1>1 DEF InputInv, TypeOK, EnterKey, Buffers
  <1>3. ASSUME NEW k \in 1 .. index PROVE buffer'[k - 1] = echo[k]
    <2>1. k - 1 \in Cells /\ k - 1 # index
      BY <1>1, TuiInputAssumption DEF Cells
    <2> QED
      BY <1>1, <1>2, <2>1
  <1>4. Text(buffer') = echo
    BY <1>1, <1>2, <1>3, TextOfDigits
  <1> QED
    BY <1>2, <1>3, <1>4 DEF EnterKey

\* ENTER keeps the line and delivers its value.
LEMMA EnterKeyInv ==
    ASSUME InputInv, EnterKey
    PROVE  InputInv'
  <1>1. TypeOK'
    BY EnterKeyEcho DEF InputInv, TypeOK, EnterKey
  <1>2. EchoInv'
    BY EnterKeyEcho DEF InputInv, EchoInv, EnterKey
  <1>3. ShownIsDelivered'
    BY EnterKeyEcho DEF EnterKey, ShownIsDelivered
  <1> QED
    BY <1>1, <1>2, <1>3 DEF InputInv

\* The input starts right and every key keeps it right.
LEMMA InputInvariant == Spec => []InputInv
  <1>1. Init => InputInv
    BY TuiInputAssumption DEF Init, InputInv, TypeOK, EchoInv, ShownIsDelivered
  <1>2. InputInv /\ [Next]_vars => InputInv'
    <2> SUFFICES ASSUME InputInv, [Next]_vars PROVE InputInv'
      OBVIOUS
    <2>1. ASSUME NEW n \in Requests, ReadHex(n) PROVE InputInv'
      <3>1. maxDigits' \in 0 .. (BufferSize - 1)
        BY <2>1, LimitIsInArray DEF ReadHex
      <3> QED
        BY <2>1, <3>1, TuiInputAssumption
           DEF ReadHex, InputInv, TypeOK, EchoInv, ShownIsDelivered
    <2>2. ASSUME NEW d \in Digits, DigitKey(d) PROVE InputInv'
      BY <2>2, DigitKeyInv
    <2>3. CASE BackspaceKey
      BY <2>3, BackspaceKeyInv
    <2>4. CASE EnterKey
      BY <2>4, EnterKeyInv
    <2>5. CASE EscKey
      BY <2>5 DEF EscKey, InputInv, TypeOK, EchoInv, ShownIsDelivered
    <2>6. CASE UNCHANGED vars
      BY <2>6 DEF vars, InputInv, TypeOK, EchoInv, ShownIsDelivered
    <2> QED
      BY <2>1, <2>2, <2>3, <2>4, <2>5, <2>6 DEF Next
  <1> QED
    BY <1>1, <1>2, PTL DEF Spec

\* No digit and no terminator is stored outside the array.
THEOREM InputStaysInArray == Spec => []TypeOK
  <1>1. InputInv => TypeOK
    BY DEF InputInv
  <1> QED
    BY <1>1, InputInvariant, PTL

\* The value delivered on ENTER is the value of the digits on the screen, also
\* after backspaces that leave old digits behind in the array.
THEOREM DeliveredAsShown == Spec => []ShownIsDelivered
  <1>1. InputInv => ShownIsDelivered
    BY DEF InputInv
  <1> QED
    BY <1>1, InputInvariant, PTL

-----------------------------------------------------------------------------
(* TuiReadHex implements LineEditor.                                       *)

\* The line of the editor: the digits of the array below the index.
Line == SubSeq(Text([buffer EXCEPT ![index] = Nul]), 1, index)

\* The line is what the screen shows.
LEMMA LineIsEcho == InputInv => Line = echo
  <1> SUFFICES ASSUME InputInv PROVE Line = echo
    OBVIOUS
  <1> DEFINE b == [buffer EXCEPT ![index] = Nul]
  <1>1. /\ index \in Cells
        /\ echo \in Seq(Digits) /\ Len(echo) = index
        /\ \A k \in 1 .. index : buffer[k - 1] = echo[k]
    BY TuiInputAssumption DEF InputInv, TypeOK, EchoInv, Cells
  <1>2. /\ b \in Buffers
        /\ b[index] = Nul
        /\ \A i \in Cells : i # index => b[i] = buffer[i]
    BY <1>1 DEF InputInv, TypeOK, Buffers
  <1> HIDE DEF b
  <1>3. ASSUME NEW k \in 1 .. index PROVE b[k - 1] = echo[k]
    <2>1. k - 1 \in Cells /\ k - 1 # index
      BY <1>1, TuiInputAssumption DEF Cells
    <2> QED
      BY <1>1, <1>2, <2>1
  <1>4. Text(b) = echo
    BY <1>1, <1>2, <1>3, TextOfDigits
  <1>5. SubSeq(echo, 1, index) = echo
    BY <1>1
  <1> QED
    BY <1>4, <1>5 DEF Line, b

\* Every key is a step of the line editor.
LEMMA StepEditor ==
    InputInv /\ InputInv' /\ [Next]_vars => [Editor!Next]_Editor!editor
  <1> SUFFICES ASSUME InputInv, InputInv', [Next]_vars
               PROVE  [Editor!Next]_Editor!editor
    OBVIOUS
  <1>a. Line = echo /\ Line' = echo'
    <2>1. InputInv' => (Line = echo)'
      BY LineIsEcho, PTL
    <2> QED
      BY <2>1, LineIsEcho
  <1>b. /\ echo \in Seq(Digits) /\ Len(echo) = index
        /\ index \in Nat /\ maxDigits \in Nat
    BY TuiInputAssumption DEF InputInv, TypeOK, EchoInv
  <1>1. CASE \E n \in Requests : ReadHex(n)
    <2>1. maxDigits' \in 0 .. (BufferSize - 1)
      BY DEF InputInv, TypeOK
    <2>2. pc = "returned" /\ pc' = "reading" /\ echo' = <<>> /\ result' = NoValue
      BY <1>1 DEF ReadHex
    <2>3. Editor!Start
      BY <1>a, <2>1, <2>2 DEF Editor!Start, Line
    <2> QED
      BY <2>3 DEF Editor!Next
  <1>2. CASE \E d \in Digits : DigitKey(d)
    <2>1. PICK d \in Digits : DigitKey(d)
      BY <1>2
    <2>2. /\ pc = "reading" /\ pc' = "reading" /\ index < maxDigits
          /\ echo' = Append(echo, d)
          /\ maxDigits' = maxDigits /\ result' = result
      BY <2>1 DEF DigitKey
    <2>3. Editor!Type
      BY <1>a, <1>b, <2>2 DEF Editor!Type, Line
    <2> QED
      BY <2>3 DEF Editor!Next
  <1>3. CASE BackspaceKey
    <2>1. /\ pc = "reading" /\ pc' = "reading" /\ index > 0
          /\ echo' = SubSeq(echo, 1, Len(echo) - 1)
          /\ maxDigits' = maxDigits /\ result' = result
      BY <1>3 DEF BackspaceKey
    <2>2. echo # <<>>
      BY <1>b, <2>1
    <2>3. Editor!TakeBack
      BY <1>a, <2>1, <2>2 DEF Editor!TakeBack, Line
    <2> QED
      BY <2>3 DEF Editor!Next
  <1>4. CASE EnterKey
    <2>1. /\ pc = "reading" /\ pc' = "returned" /\ echo' = echo
          /\ maxDigits' = maxDigits /\ result' = StrHexToUint64(Text(buffer'))
          /\ buffer' = [buffer EXCEPT ![index] = Nul] /\ index' = index
      BY <1>4, <1>b, EnterKeyEcho DEF EnterKey
    <2>2. result' = StrHexToUint64(echo)
      BY <1>4, EnterKeyEcho
    <2>3. Editor!Submit
      BY <1>a, <2>1, <2>2 DEF Editor!Submit, Line
    <2> QED
      BY <2>3 DEF Editor!Next
  <1>5. CASE EscKey
    <2>1. /\ pc = "reading" /\ pc' = "returned" /\ echo' = echo
          /\ maxDigits' = maxDigits /\ result' = result
      BY <1>5 DEF EscKey
    <2>2. Editor!GiveUp
      BY <1>a, <2>1 DEF Editor!GiveUp, Line
    <2> QED
      BY <2>2 DEF Editor!Next
  <1>6. CASE UNCHANGED vars
    BY <1>6, <1>a DEF vars, Editor!editor, Line
  <1> QED
    BY <1>1, <1>2, <1>3, <1>4, <1>5, <1>6 DEF Next

\* TuiReadHex is a line editor for every size of the array, every limit and
\* every content: the array, its terminator and the digits taken back do not
\* show.
THEOREM InputIsLineEditor == Spec => ImplementsLineEditor
  <1>1. Init => Editor!Init
    <2> SUFFICES ASSUME Init PROVE Editor!Init
      OBVIOUS
    <2>1. InputInv
      BY TuiInputAssumption DEF Init, InputInv, TypeOK, EchoInv, ShownIsDelivered
    <2>2. Line = <<>>
      BY <2>1, LineIsEcho DEF Init
    <2> QED
      BY <2>2 DEF Init, Editor!Init, Line
  <1> QED
    BY <1>1, StepEditor, InputInvariant, PTL DEF Spec, ImplementsLineEditor, Editor!Spec

-----------------------------------------------------------------------------
(* The value of a line.  A fact about every prefix of it needs induction,  *)
(* here in the form of a set that holds 0 and with n also n + 1.           *)

\* Such a set holds every natural number: of those it lacked there would be a
\* least one, since the intervals 0 .. n are well ordered by inclusion.
LEMMA Induction ==
    ASSUME NEW S, 0 \in S, \A n \in Nat : n \in S => n + 1 \in S
    PROVE  Nat \subseteq S
  <1> SUFFICES ASSUME Nat \ S # {} PROVE FALSE
    OBVIOUS
  <1> DEFINE T == {0 .. x : x \in Nat \ S}
             R == StrictSubsetOrdering(Nat)
  <1>1. T # {} /\ T \subseteq FiniteSubsetsOf(Nat)
    <2>1. ASSUME NEW x \in Nat PROVE 0 .. x \in FiniteSubsetsOf(Nat)
      <3>1. IsFiniteSet(0 .. x)
        BY FS_Interval
      <3> QED
        BY <3>1 DEF FiniteSubsetsOf
    <2> QED
      BY <2>1
  <1>2. PICK I \in T : \A J \in T : ~ (<<J, I>> \in R)
    <2>1. IsWellFoundedOn(R, FiniteSubsetsOf(Nat))
      BY FS_StrictSubsetOrderingWellFounded
    <2> HIDE DEF T, R
    <2> QED
      BY <1>1, <2>1, WFMin
  <1>3. PICK x \in Nat \ S : I = 0 .. x
    BY <1>2
  <1>4. x # 0 /\ x - 1 \in Nat /\ x - 1 \notin S
    <2>1. x # 0
      OBVIOUS
    <2>2. x - 1 \in Nat /\ (x - 1) + 1 = x
      BY <2>1
    <2> QED
      BY <2>1, <2>2
  <1>5. <<0 .. (x - 1), 0 .. x>> \in R
    <2>1. 0 .. (x - 1) \subseteq 0 .. x /\ 0 .. (x - 1) # 0 .. x
      BY <1>4
    <2>2. 0 .. (x - 1) \subseteq Nat /\ 0 .. x \subseteq Nat
      BY <1>4
    <2> QED
      BY <2>1, <2>2 DEF StrictSubsetOrdering
  <1> QED
    BY <1>2, <1>3, <1>4, <1>5

\* The functions on 0 .. m with a given first value and given steps.
Recursions(m, V, base, step) ==
    {f \in [0 .. m -> V] : f[0] = base /\ \A n \in 1 .. m : f[n] = step[n][f[n - 1]]}

\* There is one.
LEMMA RecursionExists ==
    ASSUME NEW m \in Nat, NEW V, NEW base \in V, NEW step \in [1 .. m -> [V -> V]]
    PROVE  \E f : f \in Recursions(m, V, base, step)
  <1> DEFINE Good(k) == \E f \in [0 .. k -> V] :
                          f[0] = base /\ \A n \in 1 .. k : f[n] = step[n][f[n - 1]]
             S == {k \in Nat : k <= m => Good(k)}
  <1>1. 0 \in S
    <2>1. [n \in 0 .. 0 |-> base] \in [0 .. 0 -> V] /\ [n \in 0 .. 0 |-> base][0] = base
      OBVIOUS
    <2>2. 1 .. 0 = {}
      OBVIOUS
    <2> QED
      BY <2>1, <2>2
  <1>2. ASSUME NEW k \in Nat, k \in S PROVE k + 1 \in S
    <2> SUFFICES ASSUME k + 1 <= m PROVE Good(k + 1)
      OBVIOUS
    <2>1. PICK f \in [0 .. k -> V] : f[0] = base /\ \A n \in 1 .. k : f[n] = step[n][f[n - 1]]
      BY <1>2
    <2> DEFINE g == [n \in 0 .. (k + 1) |-> IF n = k + 1 THEN step[k + 1][f[k]] ELSE f[n]]
    <2>2. k + 1 \in 1 .. m /\ f[k] \in V
      OBVIOUS
    <2>3. step[k + 1][f[k]] \in V
      BY <2>2
    <2>4. g \in [0 .. (k + 1) -> V]
      BY <2>3
    <2>5. g[0] = base
      BY <2>1
    <2>6. ASSUME NEW n \in 1 .. (k + 1) PROVE g[n] = step[n][g[n - 1]]
      <3>1. n - 1 \in 0 .. k /\ n - 1 # k + 1 /\ g[n - 1] = f[n - 1]
        OBVIOUS
      <3>2. CASE n = k + 1
        BY <3>1, <3>2
      <3>3. CASE n # k + 1
        <4>1. n \in 1 .. k /\ g[n] = f[n]
          BY <3>3
        <4> QED
          BY <2>1, <3>1, <4>1
      <3> QED
        BY <3>2, <3>3
    <2> HIDE DEF g
    <2> QED
      BY <2>4, <2>5, <2>6
  <1> HIDE DEF S
  <1>3. m \in S
    BY <1>1, <1>2, Induction
  <1>4. Good(m)
    BY <1>3 DEF S
  <1> QED
    BY <1>4 DEF Recursions

\* NumbersOf is the function its equation describes: powers of the base.
LEMMA NumbersOfPowers ==
    /\ NumbersOf \in [0 .. BufferSize -> Nat]
    /\ NumbersOf[0] = 1
    /\ \A n \in 1 .. BufferSize : NumbersOf[n] = Base * NumbersOf[n - 1]
  <1> DEFINE m == BufferSize
             Next1(f) == [n \in 0 .. m |-> IF n = 0 THEN 1 ELSE Base * f[n - 1]]
             step == [n \in 1 .. m |-> [v \in Nat |-> Base * v]]
  <1>1. m \in Nat /\ Base \in Nat /\ \A v \in Nat : Base * v \in Nat
    <2>1. m \in Nat /\ Base \in Nat
      BY TuiInputAssumption
    <2> QED
      BY <2>1, SMTT(20)
  <1>2. step \in [1 .. m -> [Nat -> Nat]] /\ 1 \in Nat
    BY <1>1
  <1>3. PICK f \in [0 .. m -> Nat] :
              f[0] = 1 /\ \A n \in 1 .. m : f[n] = step[n][f[n - 1]]
    <2> HIDE DEF step, m
    <2>1. PICK f : f \in Recursions(m, Nat, 1, step)
      BY <1>1, <1>2, RecursionExists
    <2> QED
      BY <2>1 DEF Recursions
  <1>4. ASSUME NEW n \in 1 .. m PROVE n - 1 \in 0 .. m /\ f[n] = Base * f[n - 1]
    <2>1. n - 1 \in 0 .. m /\ f[n - 1] \in Nat
      BY <1>1
    <2> QED
      BY <1>3, <2>1
  <1>5. f = Next1(f)
    <2>1. DOMAIN Next1(f) = 0 .. m /\ DOMAIN f = 0 .. m
      OBVIOUS
    <2>2. ASSUME NEW n \in 0 .. m PROVE f[n] = Next1(f)[n]
      <3>1. CASE n = 0
        BY <1>3, <3>1
      <3>2. CASE n # 0
        <4>1. n \in 1 .. m
          BY <1>1, <3>2
        <4> QED
          BY <1>4, <3>2, <4>1
      <3> QED
        BY <3>1, <3>2
    <2>3. Next1(f) = [n \in 0 .. m |-> Next1(f)[n]] /\ f = [n \in 0 .. m |-> f[n]]
      OBVIOUS
    <2> HIDE DEF Next1
    <2> QED
      BY <2>2, <2>3
  <1>6. NumbersOf = Next1(NumbersOf)
    <2>1. NumbersOf = CHOOSE g : g = Next1(g)
      BY DEF NumbersOf
    <2> HIDE DEF Next1
    <2> QED
      BY <1>5, <2>1
  <1>7. /\ NumbersOf[0] = 1
        /\ \A n \in 1 .. m : NumbersOf[n] = Base * NumbersOf[n - 1]
        /\ NumbersOf = [n \in 0 .. m |-> NumbersOf[n]]
    <2>1. 0 \in 0 .. m /\ \A n \in 1 .. m : n \in 0 .. m /\ n # 0
      BY <1>1
    <2> DEFINE N == NumbersOf
    <2>2. N = [n \in 0 .. m |-> IF n = 0 THEN 1 ELSE Base * N[n - 1]]
      BY <1>6
    <2> HIDE DEF N
    <2>3. /\ N[0] = 1
          /\ \A n \in 1 .. m : N[n] = Base * N[n - 1]
          /\ N = [n \in 0 .. m |-> N[n]]
      BY <2>1, <2>2
    <2> QED
      BY <2>3 DEF N
  <1> DEFINE S == {n \in Nat : n <= m => NumbersOf[n] \in Nat}
  <1>8. 0 \in S
    BY <1>7
  <1>9. ASSUME NEW n \in Nat, n \in S PROVE n + 1 \in S
    <2> SUFFICES ASSUME n + 1 <= m PROVE NumbersOf[n + 1] \in Nat
      OBVIOUS
    <2>1. n + 1 \in 1 .. m /\ (n + 1) - 1 = n /\ NumbersOf[n] \in Nat
      BY <1>1, <1>9
    <2>2. NumbersOf[n + 1] = Base * NumbersOf[n]
      BY <1>7, <2>1
    <2> QED
      BY <1>1, <2>1, <2>2
  <1>10. \A n \in 0 .. m : NumbersOf[n] \in Nat
    <2> HIDE DEF S
    <2>1. Nat \subseteq S
      BY <1>8, <1>9, Induction
    <2> QED
      BY <1>1, <2>1 DEF S
  <1> QED
    BY <1>7, <1>10

\* More digits write no fewer numbers.
LEMMA NumbersOfGrows ==
    ASSUME NEW n \in 0 .. BufferSize, NEW m \in 0 .. BufferSize, n <= m
    PROVE  NumbersOf[n] <= NumbersOf[m]
  <1> DEFINE S == {k \in Nat : n + k <= BufferSize => NumbersOf[n] <= NumbersOf[n + k]}
  <1>1. n \in Nat /\ m \in Nat /\ BufferSize \in Nat /\ Base \in Nat \ {0}
    BY TuiInputAssumption
  <1>2. 0 \in S
    BY <1>1, NumbersOfPowers
  <1>3. ASSUME NEW k \in Nat, k \in S PROVE k + 1 \in S
    <2> SUFFICES ASSUME n + (k + 1) <= BufferSize
                 PROVE  NumbersOf[n] <= NumbersOf[n + (k + 1)]
      OBVIOUS
    <2> DEFINE j == n + (k + 1)
    <2>1. j \in 1 .. BufferSize /\ j - 1 = n + k /\ n + k \in 0 .. BufferSize
      BY <1>1
    <2>2. NumbersOf[j] = Base * NumbersOf[n + k]
      <3> HIDE DEF j
      <3> QED
        BY <2>1, NumbersOfPowers
    <2>3. NumbersOf[n + k] \in Nat /\ NumbersOf[n] \in Nat
      BY <1>1, <2>1, NumbersOfPowers
    <2>4. NumbersOf[n] <= NumbersOf[n + k]
      BY <1>3, <2>1
    <2> DEFINE x == NumbersOf[n + k]
    <2>5. x \in Nat
      BY <2>3
    <2> HIDE DEF x
    <2>6. x <= Base * x
      BY <1>1, <2>5, SMTT(20)
    <2>7. Base * x \in Nat
      BY <1>1, <2>5, SMTT(20)
    <2>8. NumbersOf[n] <= Base * x
      BY <2>3, <2>4, <2>5, <2>6, <2>7 DEF x
    <2> QED
      BY <2>2, <2>8 DEF x
  <1> HIDE DEF S
  <1>4. m - n \in S
    BY <1>1, <1>2, <1>3, Induction
  <1>5. n + (m - n) = m
    BY <1>1
  <1> QED
    BY <1>1, <1>4, <1>5 DEF S

\* One more digit keeps a bound, times the base, also where it stops at the
\* largest value.
LEMMA AddDigitBounds ==
    ASSUME NEW v \in Nat, NEW d \in 0 .. (Base - 1), NEW b \in Nat, v < b
    PROVE  AddDigit(v, d) \in Nat /\ AddDigit(v, d) < Base * b
  <1>1. Base \in Nat \ {0} /\ MaxU64 \in Nat /\ d \in Nat /\ d < Base
    BY TuiInputAssumption
  <1>2. v * Base \in Nat /\ Base * b \in Nat
    BY <1>1, SMTT(20)
  <1>3. (v * Base) + Base <= Base * b
    <2>1. (v + 1) * Base <= b * Base
      BY <1>1, SMTT(20)
    <2> QED
      BY <1>1, <2>1, SMTT(20)
  <1>4. (v * Base) + d < Base * b
    BY <1>1, <1>2, <1>3
  <1>5. CASE v > (MaxU64 - d) \div Base
    <2> DEFINE a == MaxU64 - d
               q == a \div Base
    <2>1. a \in Int
      BY <1>1
    <2> HIDE DEF a
    <2>2. q \in Int /\ a < (Base * q) + Base
      BY <1>1, <2>1, SMTT(20)
    <2>3. v > q
      BY <1>5 DEF a
    <2> HIDE DEF q
    <2>4. (Base * q) + Base <= v * Base
      <3>1. q + 1 <= v
        BY <2>2, <2>3
      <3>2. (q + 1) * Base <= v * Base
        BY <1>1, <2>2, <3>1, SMTT(20)
      <3> QED
        BY <1>1, <2>2, <3>2, SMTT(20)
    <2> DEFINE p == Base * q
               r == v * Base
    <2>5. a < r
      <3>1. p \in Int /\ r \in Int
        BY <1>1, <2>2, SMTT(20)
      <3>2. a < p + Base /\ p + Base <= r
        BY <2>2, <2>4
      <3> HIDE DEF p, r
      <3> QED
        BY <1>1, <2>1, <3>1, <3>2
    <2>6. MaxU64 < Base * b
      BY <1>1, <1>2, <1>4, <2>5 DEF a
    <2> QED
      BY <1>1, <1>5, <2>6 DEF AddDigit
  <1>6. CASE ~ (v > (MaxU64 - d) \div Base)
    BY <1>1, <1>2, <1>4, <1>6 DEF AddDigit
  <1> QED
    BY <1>5, <1>6

\* The value of a line is one of the numbers its digits can write.
LEMMA ValueFits ==
    ASSUME NEW s \in Seq(Digits), Len(s) <= BufferSize
    PROVE  StrHexToUint64(s) \in Nat /\ StrHexToUint64(s) < NumbersOf[Len(s)]
  <1> DEFINE m == Len(s)
             Next1(f) == [n \in 0 .. m |-> IF n = 0 THEN 0 ELSE AddDigit(f[n - 1], s[n])]
             step == [n \in 1 .. m |-> [v \in Nat |-> AddDigit(v, s[n])]]
             value == CHOOSE f : f = Next1(f)
  <1>1. /\ m \in Nat /\ m <= BufferSize /\ BufferSize \in Nat
        /\ \A n \in 1 .. m : s[n] \in 0 .. (Base - 1)
    <2>1. \A n \in 1 .. m : s[n] \in Digits
      OBVIOUS
    <2>2. Digits \subseteq 0 .. (Base - 1) /\ BufferSize \in Nat
      BY TuiInputAssumption
    <2>3. m \in Nat /\ m <= BufferSize
      OBVIOUS
    <2> HIDE DEF m
    <2> QED
      BY <2>1, <2>2, <2>3
  <1>2. \A v \in Nat, n \in 1 .. m : AddDigit(v, s[n]) \in Nat
    <2> SUFFICES ASSUME NEW v \in Nat, NEW n \in 1 .. m PROVE AddDigit(v, s[n]) \in Nat
      OBVIOUS
    <2>1. v + 1 \in Nat /\ v < v + 1
      OBVIOUS
    <2> QED
      BY <1>1, <2>1, AddDigitBounds
  <1>3. PICK f \in [0 .. m -> Nat] :
              f[0] = 0 /\ \A n \in 1 .. m : f[n] = step[n][f[n - 1]]
    <2>1. step \in [1 .. m -> [Nat -> Nat]]
      BY <1>2
    <2> HIDE DEF step, m
    <2>2. PICK f : f \in Recursions(m, Nat, 0, step)
      BY <1>1, <2>1, RecursionExists
    <2> QED
      BY <2>2 DEF Recursions
  <1>4. f = Next1(f)
    <2>1. ASSUME NEW n \in 0 .. m PROVE f[n] = Next1(f)[n]
      <3>1. CASE n = 0
        BY <1>3, <3>1
      <3>2. CASE n # 0
        <4>1. n \in 1 .. m /\ n - 1 \in 0 .. m
          BY <1>1, <3>2
        <4>2. f[n - 1] \in Nat
          BY <4>1
        <4>3. f[n] = AddDigit(f[n - 1], s[n])
          BY <1>3, <4>1, <4>2
        <4> QED
          BY <3>2, <4>3
      <3> QED
        BY <3>1, <3>2
    <2>2. Next1(f) = [n \in 0 .. m |-> Next1(f)[n]] /\ f = [n \in 0 .. m |-> f[n]]
      OBVIOUS
    <2> HIDE DEF Next1
    <2> QED
      BY <2>1, <2>2
  <1>5. value = Next1(value)
    <2> HIDE DEF Next1
    <2> QED
      BY <1>4
  <1>6. value[0] = 0 /\ \A n \in 1 .. m : value[n] = AddDigit(value[n - 1], s[n])
    <2>1. 0 \in 0 .. m /\ \A n \in 1 .. m : n \in 0 .. m /\ n # 0
      BY <1>1
    <2>2. value = [n \in 0 .. m |-> IF n = 0 THEN 0 ELSE AddDigit(value[n - 1], s[n])]
      BY <1>5
    <2> HIDE DEF value
    <2> QED
      BY <2>1, <2>2
  <1> HIDE DEF value
  <1> DEFINE S == {n \in Nat : n <= m => value[n] \in Nat /\ value[n] < NumbersOf[n]}
  <1>7. 0 \in S
    BY <1>6, NumbersOfPowers
  <1>8. ASSUME NEW n \in Nat, n \in S PROVE n + 1 \in S
    <2> SUFFICES ASSUME n + 1 <= m
                 PROVE  value[n + 1] \in Nat /\ value[n + 1] < NumbersOf[n + 1]
      OBVIOUS
    <2>1. /\ n + 1 \in 1 .. m /\ n + 1 \in 1 .. BufferSize /\ (n + 1) - 1 = n
          /\ n \in 0 .. BufferSize
      BY <1>1
    <2>2. value[n] \in Nat /\ value[n] < NumbersOf[n]
      BY <1>1, <1>8
    <2>3. value[n + 1] = AddDigit(value[n], s[n + 1])
      BY <1>6, <2>1
    <2>4. NumbersOf[n + 1] = Base * NumbersOf[n] /\ NumbersOf[n] \in Nat
      BY <2>1, NumbersOfPowers
    <2> QED
      BY <1>1, <2>1, <2>2, <2>3, <2>4, AddDigitBounds
  <1>9. m \in S
    <2> HIDE DEF S
    <2> QED
      BY <1>1, <1>7, <1>8, Induction
  <1>10. StrHexToUint64(s) = value[m]
    BY DEF StrHexToUint64, value
  <1> QED
    BY <1>1, <1>9, <1>10

\* The value delivered fits the number of digits that were asked for, so the
\* check after the prompt of Edit cannot refuse it.
THEOREM DeliveredFitsRequest == Spec => ValueFitsRequest
  <1>1. InputInv /\ [Next]_vars => [EnterKey => result' < NumbersOf[maxDigits]]_vars
    <2> SUFFICES ASSUME InputInv, EnterKey PROVE result' < NumbersOf[maxDigits]
      OBVIOUS
    <2>1. /\ echo \in Seq(Digits) /\ Len(echo) = index
          /\ index \in 0 .. BufferSize /\ maxDigits \in 0 .. BufferSize /\ index <= maxDigits
      BY TuiInputAssumption DEF InputInv, TypeOK, EchoInv
    <2>2. result' = StrHexToUint64(echo)
      BY EnterKeyEcho
    <2>3. StrHexToUint64(echo) \in Nat /\ StrHexToUint64(echo) < NumbersOf[index]
      BY <2>1, ValueFits
    <2>4. /\ NumbersOf[index] <= NumbersOf[maxDigits]
          /\ NumbersOf[index] \in Nat /\ NumbersOf[maxDigits] \in Nat
      BY <2>1, NumbersOfGrows, NumbersOfPowers
    <2> QED
      BY <2>2, <2>3, <2>4
  <1> QED
    BY <1>1, InputInvariant, PTL DEF Spec, ValueFitsRequest
=============================================================================
