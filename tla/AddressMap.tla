----------------------------- MODULE AddressMap -----------------------------
(***************************************************************************)
(* Core/AddressMap.c: the pure helpers by which PageMem decides that a     *)
(* range may be shown and which view page comes after or before another.   *)
(* The scans of the descriptor array keep the best candidate seen so far;  *)
(* here that is the least or the greatest element of the candidate set.    *)
(***************************************************************************)
EXTENDS UefiMemory

\* IsDescriptorValid, on the Core type the adapter stored.
IsDescriptorValid(d) == d.type \in CoreTypes \ {"Other"}

ValidDescriptors(map) == {i \in DOMAIN map : IsDescriptorValid(map[i])}

PageCoreIsRangeValid(map, a, n) ==
    /\ n # 0
    /\ a <= MaxU64 - n
    /\ \E i \in ValidDescriptors(map) : Covers(map[i], a, n)

\* The static IsPageValid.  The end of the page is computed without an
\* overflow check: it is 0 for the last view page of the address space.
PageCoreIsPageValid(map, a) ==
    LET base == AlignDown(a, PAGE_SIZE)
        end  == Wrap(base + PAGE_SIZE)
    IN \E i \in ValidDescriptors(map) :
          /\ map[i].pages # 0
          /\ EndsInWord(map[i])
          /\ map[i].start <= base
          /\ end <= DescriptorEnd(map[i])

\* The first browsable descriptor in array order, whatever its size.
PageCoreGetFirstValidAddress(map) ==
    IF ValidDescriptors(map) = {} THEN 0
    ELSE map[Min(ValidDescriptors(map))].start

-----------------------------------------------------------------------------
(* Page navigation.  The two scans compute a descriptor's end with neither *)
(* of the overflow checks above.                                           *)

AlignUp(a) == AlignDown(Wrap(a + (PAGE_SIZE - 1)), PAGE_SIZE)

ScanEnd(d)   == Wrap(d.start + DescriptorSize(d))
FirstPage(d) == AlignUp(d.start)
LastPage(d)  == AlignDown(ScanEnd(d) - PAGE_SIZE, PAGE_SIZE)

\* The descriptors a scan does not skip at once: room for one view page.
HoldsPage(d) ==
    /\ d.pages # 0
    /\ ScanEnd(d) >= PAGE_SIZE
    /\ Wrap(FirstPage(d) + PAGE_SIZE) <= ScanEnd(d)

ScannedDescriptors(map) == {i \in ValidDescriptors(map) : HoldsPage(map[i])}

\* next lies inside d with room for a page from there on.
FitsInside(d, next) == /\ next < ScanEnd(d)
                       /\ Wrap(AlignUp(next) + PAGE_SIZE) <= ScanEnd(d)

NextCandidates(map, cur) ==
    LET next == cur + PAGE_SIZE
        ahead  == {FirstPage(map[i]) : i \in
                     {j \in ScannedDescriptors(map) :
                         next <= FirstPage(map[j])}}
        inside == {AlignUp(next) : i \in
                     {j \in ScannedDescriptors(map) :
                         /\ next > FirstPage(map[j])
                         /\ FitsInside(map[j], next)}}
    IN {c \in ahead \cup inside : c > cur}

\* Mutant: keeps the last candidate seen instead of the nearest.
PageCoreGetNextValidPageAddressFarthest(map, a) ==
    LET cur == AlignDown(a, PAGE_SIZE)
        candidates == NextCandidates(map, cur)
    IN IF cur > MaxU64 - PAGE_SIZE THEN cur
       ELSE IF PageCoreIsPageValid(map, cur + PAGE_SIZE) THEN cur + PAGE_SIZE
       ELSE IF candidates = {} THEN cur ELSE Max(candidates)

PageCoreGetNextValidPageAddress(map, a) ==
    LET cur == AlignDown(a, PAGE_SIZE)
        candidates == NextCandidates(map, cur)
    IN IF cur > MaxU64 - PAGE_SIZE THEN cur
       ELSE IF PageCoreIsPageValid(map, cur + PAGE_SIZE) THEN cur + PAGE_SIZE
       ELSE IF candidates = {} THEN cur ELSE Min(candidates)

\* Mutant: a descriptor passed on the way down offers its first page.
PreviousCandidatesFromBelow(map, cur) ==
    {c \in {FirstPage(map[i]) : i \in
              {j \in ScannedDescriptors(map) : LastPage(map[j]) < cur}} : c > 0}

PreviousCandidates(map, cur) ==
    LET passed == {LastPage(map[i]) : i \in
                     {j \in ScannedDescriptors(map) :
                         /\ FirstPage(map[j]) <= LastPage(map[j])
                         /\ FirstPage(map[j]) < cur
                         /\ LastPage(map[j]) < cur}}
        inside == {cur - PAGE_SIZE : i \in
                     {j \in ScannedDescriptors(map) :
                         /\ FirstPage(map[j]) < cur
                         /\ cur <= LastPage(map[j])
                         /\ FirstPage(map[j]) <= cur - PAGE_SIZE}}
    IN {c \in passed \cup inside : c > 0}

\* 0 stands for "no candidate" in the code (BestPage).
PageCoreGetPreviousValidPageAddress(map, a) ==
    LET cur == AlignDown(a, PAGE_SIZE)
        candidates == PreviousCandidates(map, cur)
    IN IF cur < PAGE_SIZE THEN cur
       ELSE IF PageCoreIsPageValid(map, cur - PAGE_SIZE) THEN cur - PAGE_SIZE
       ELSE IF candidates = {} THEN cur ELSE Max(candidates)

-----------------------------------------------------------------------------
(* The reference the navigation is measured against: the view pages that   *)
(* lie inside one browsable descriptor, and the nearest of them.           *)

ValidPages(map) == {p \in ViewPages : PageCoreIsRangeValid(map, p, PAGE_SIZE)}

NearestAbove(pages, p) ==
    LET above == {q \in pages : q > p}
    IN IF above = {} THEN p ELSE Min(above)

NearestBelow(pages, p) ==
    LET below == {q \in pages : q < p}
    IN IF below = {} THEN p ELSE Max(below)
=============================================================================
