----------------------------- MODULE NexusMemLib ----------------------------
(***************************************************************************)
(* Library/NexusMemLib: the access policy (QueryMemoryAccess and what is   *)
(* built on it) and the library's own page navigation, over the cached     *)
(* firmware map and the firmware's live memory attributes.                 *)
(*                                                                         *)
(* The firmware's EFI_MEMORY_ATTRIBUTE_PROTOCOL is external.  It is a      *)
(* record [present |-> , attrs |-> ]: whether LocateProtocol found it, and *)
(* for each EFI page base the attributes it holds, or NoAnswer where       *)
(* GetMemoryAttributes returns an error.                                   *)
(***************************************************************************)
EXTENDS UefiMemory

CONSTANT Widths  \* the access widths IsSupportedWidth accepts: 1, 2, 4, 8

ASSUME WidthsAssumption ==
    /\ 1 \in Widths
    /\ \A w \in Widths : /\ w \in Nat \ {0}
                         /\ w <= PAGE_SIZE
                         /\ PAGE_SIZE % w = 0

NoAnswer      == {"NoAnswer"}
AttributeSets == (SUBSET {"RP", "RO", "XP"}) \cup {NoAnswer}
EfiPages      == {p \in Word : p % EFI_PAGE = 0}
Protocol      == [present : BOOLEAN, attrs : [EfiPages -> AttributeSets]]

\* GetMemoryAttributes: one answer for the range, or an error where the
\* EFI pages it spans differ.
GetMemoryAttributes(fw, a, n) ==
    LET answers == {fw.attrs[p] : p \in
                      {q \in EfiPages : q < a + n /\ a < q + EFI_PAGE}}
    IN IF \E x \in answers : answers = {x}
       THEN CHOOSE x \in answers : TRUE
       ELSE NoAnswer

-----------------------------------------------------------------------------
\* FindDescriptorForRange: the indices of the descriptors containing the
\* whole range; the code returns the first.
DescriptorsForRange(map, a, n) ==
    {i \in DOMAIN map : /\ map[i].pages # 0
                        /\ map[i].pages <= MaxU64 \div EFI_PAGE
                        /\ Covers(map[i], a, n)}

IsToolRangeReadable(map, a, n) ==
    LET found == DescriptorsForRange(map, a, n)
    IN found # {} /\ map[Min(found)].type \in ReadableTypes

IsToolRangeWritable(map, a, n) ==
    LET found == DescriptorsForRange(map, a, n)
    IN found # {} /\ map[Min(found)].type \in WritableTypes

AccessInfo == [AccessKnown : BOOLEAN, ReadAllowed : BOOLEAN,
               WriteAllowed : BOOLEAN, ExecuteAllowed : BOOLEAN]

AccessUnknown == [AccessKnown |-> FALSE, ReadAllowed |-> FALSE,
                  WriteAllowed |-> FALSE, ExecuteAllowed |-> FALSE]

QueryMemoryAccess(map, fw, a, n) ==
    LET answer == GetMemoryAttributes(fw, a, n)
    IN IF \/ n = 0
          \/ a > MaxU64 - n
          \/ DescriptorsForRange(map, a, n) = {}
          \/ ~fw.present
          \/ answer = NoAnswer
       THEN AccessUnknown
       ELSE [AccessKnown    |-> TRUE,
             ReadAllowed    |-> IsToolRangeReadable(map, a, n) /\ "RP" \notin answer,
             WriteAllowed   |-> IsToolRangeWritable(map, a, n) /\ "RO" \notin answer,
             ExecuteAllowed |-> "XP" \notin answer]

IsRangeValid(map, fw, a, n) ==
    LET access == QueryMemoryAccess(map, fw, a, n)
    IN access.AccessKnown /\ access.ReadAllowed

IsRangeWritable(map, fw, a, n) ==
    LET access == QueryMemoryAccess(map, fw, a, n)
    IN access.AccessKnown /\ access.WriteAllowed

\* Mutant: MemWrite asks for the type of the memory only.
MemWriteSucceedsByType(map, fw, a, w) ==
    w \in Widths /\ IsToolRangeWritable(map, a, w) /\ a % w = 0

\* MemRead and MemWrite return EFI_SUCCESS and touch the memory.
MemReadSucceeds(map, fw, a, w) ==
    w \in Widths /\ IsRangeValid(map, fw, a, w) /\ a % w = 0

MemWriteSucceeds(map, fw, a, w) ==
    w \in Widths /\ IsRangeWritable(map, fw, a, w) /\ a % w = 0

-----------------------------------------------------------------------------
(* The library's page navigation.  PageMem does not call it: Core has a    *)
(* second implementation of the same promise.                              *)

\* Mutant: forgets to filter by type.
LibDescriptorsOfAnyType(map) ==
    {i \in DOMAIN map : map[i].pages # 0 /\ EndsInWord(map[i])}

\* The descriptors the scans consider: browsable, not empty, no overflow.
LibDescriptors(map) ==
    {i \in DOMAIN map : /\ map[i].type \in BrowsableTypes
                        /\ map[i].pages # 0
                        /\ map[i].pages <= MaxU64 \div EFI_PAGE
                        /\ EndsInWord(map[i])}

IsPageValid(map, a) ==
    LET base == AlignDown(a, PAGE_SIZE)
    IN /\ base <= MaxU64 - PAGE_SIZE
       /\ \E i \in LibDescriptors(map) : Covers(map[i], base, PAGE_SIZE)

GetFirstValidAddress(map) ==
    IF LibDescriptors(map) = {} THEN 0
    ELSE Min({map[i].start : i \in LibDescriptors(map)})

\* The first view page at or above the start of d (no descriptor whose start
\* rounds up past the address space gets this far).
RoundedStart(d) == LET down == AlignDown(d.start, PAGE_SIZE)
                   IN IF down < d.start THEN down + PAGE_SIZE ELSE down

GetNextValidPageAddress(map, a) ==
    LET cur  == AlignDown(a, PAGE_SIZE)
        next == cur + PAGE_SIZE
        candidates ==
          {c \in {RoundedStart(map[i]) : i \in
                    {j \in LibDescriptors(map) :
                        RoundedStart(map[j]) + PAGE_SIZE <= DescriptorEnd(map[j])}} :
              c >= next}
    IN IF map = <<>> THEN a
       ELSE IF cur > MaxU64 - PAGE_SIZE THEN cur
       ELSE IF IsPageValid(map, next) THEN next
       ELSE IF candidates = {} THEN cur ELSE Min(candidates)

GetPreviousValidPageAddress(map, a) ==
    LET cur  == AlignDown(a, PAGE_SIZE)
        prev == cur - PAGE_SIZE
        last(d) == AlignDown(DescriptorEnd(d) - PAGE_SIZE, PAGE_SIZE)
        candidates ==
          {IF prev < last(map[i]) THEN prev ELSE last(map[i]) : i \in
             {j \in LibDescriptors(map) :
                 /\ DescriptorSize(map[j]) >= PAGE_SIZE
                 /\ RoundedStart(map[j]) <= last(map[j])
                 /\ RoundedStart(map[j]) <= prev}}
    IN IF map = <<>> THEN a
       ELSE IF cur < PAGE_SIZE THEN cur
       ELSE IF IsPageValid(map, prev) THEN prev
       ELSE IF candidates = {} THEN cur ELSE Max(candidates)
=============================================================================
