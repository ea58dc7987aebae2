--------------------------- MODULE AddressMapProofs --------------------------
(***************************************************************************)
(* Facts about the arithmetic of view pages and about the navigation of    *)
(* AddressMap, for every size of the address space and of the pages.       *)
(***************************************************************************)
EXTENDS AddressMap, FiniteSetTheorems, TLAPS

-----------------------------------------------------------------------------
(* Remainders and AlignDown. *)

\* A product is a multiple of its first factor.
LEMMA ProductIsMultiple ==
    ASSUME NEW n \in Nat \ {0}, NEW k \in Nat
    PROVE  (n * k) % n = 0
  BY SMTT(20)

\* Division with remainder.
LEMMA DivisionIdentity ==
    ASSUME NEW n \in Nat \ {0}, NEW a \in Nat
    PROVE  /\ a \div n \in Nat
           /\ a = (n * (a \div n)) + (a % n)
  BY SMTT(20)

\* Two multiples that differ are at least n apart.
LEMMA ProductsApart ==
    ASSUME NEW n \in Nat \ {0}, NEW k \in Nat, NEW l \in Nat, n * k < n * l
    PROVE  (n * k) + n <= n * l
  BY SMTT(20)

\* What x & ~(n - 1) returns in the C code: the last multiple of n not above a.
LEMMA AlignDownBounds ==
    ASSUME NEW n \in Nat \ {0}, NEW a \in Nat
    PROVE  /\ AlignDown(a, n) \in Nat
           /\ AlignDown(a, n) <= a
           /\ a < AlignDown(a, n) + n
           /\ a - AlignDown(a, n) = a % n
  BY DEF AlignDown

\* Rounding down gives a multiple.
LEMMA AlignDownIsMultiple ==
    ASSUME NEW n \in Nat \ {0}, NEW a \in Nat
    PROVE  AlignDown(a, n) % n = 0
  <1>1. AlignDown(a, n) = n * (a \div n)
    BY DivisionIdentity DEF AlignDown
  <1> QED
    BY <1>1, DivisionIdentity, ProductIsMultiple

\* Two different multiples of n are at least n apart.
LEMMA MultiplesApart ==
    ASSUME NEW n \in Nat \ {0}, NEW a \in Nat, NEW b \in Nat,
           a % n = 0, b % n = 0, a < b
    PROVE  a + n <= b
  <1> DEFINE k == a \div n
             l == b \div n
  <1>1. k \in Nat /\ l \in Nat
    BY DivisionIdentity
  <1>2. a = n * k /\ b = n * l
    BY DivisionIdentity
  <1> HIDE DEF k, l
  <1>3. n * k < n * l
    BY <1>2
  <1>4. (n * k) + n <= n * l
    BY <1>1, <1>3, ProductsApart
  <1> QED
    BY <1>2, <1>4

\* The sum of two multiples is a multiple.
LEMMA SumOfMultiples ==
    ASSUME NEW n \in Nat \ {0}, NEW a \in Nat, NEW b \in Nat,
           a % n = 0, b % n = 0
    PROVE  (a + b) % n = 0
  <1> DEFINE k == a \div n
             l == b \div n
  <1>1. k \in Nat /\ l \in Nat /\ k + l \in Nat
    BY DivisionIdentity
  <1>2. a = n * k /\ b = n * l
    BY DivisionIdentity
  <1> HIDE DEF k, l
  <1>3. a + b = n * (k + l)
    BY <1>1, <1>2, SMTT(20)
  <1> QED
    BY <1>1, <1>3, ProductIsMultiple

\* The difference of two multiples is a multiple.
LEMMA DifferenceOfMultiples ==
    ASSUME NEW n \in Nat \ {0}, NEW a \in Nat, NEW b \in Nat,
           a % n = 0, b % n = 0, b <= a
    PROVE  (a - b) % n = 0
  <1> DEFINE k == a \div n
             l == b \div n
  <1>1. k \in Nat /\ l \in Nat
    BY DivisionIdentity
  <1>2. a = n * k /\ b = n * l
    BY DivisionIdentity
  <1> HIDE DEF k, l
  <1>3. k - l \in Nat /\ a - b = n * (k - l)
    BY <1>1, <1>2, SMTT(20)
  <1> QED
    BY <1>1, <1>3, ProductIsMultiple

\* A multiple of an EFI page is a multiple of a view page.
LEMMA MultipleOfMultiple ==
    ASSUME NEW n \in Nat \ {0}, NEW m \in Nat \ {0}, NEW a \in Nat,
           m % n = 0, a % m = 0
    PROVE  a % n = 0
  <1> DEFINE k == a \div m
             l == m \div n
  <1>1. k \in Nat /\ l \in Nat /\ l * k \in Nat
    <2>1. k \in Nat /\ l \in Nat
      BY DivisionIdentity
    <2> HIDE DEF k, l
    <2> QED BY <2>1, SMTT(20)
  <1>2. a = m * k /\ m = n * l
    BY DivisionIdentity
  <1> HIDE DEF k, l
  <1>3. a = n * (l * k)
    BY <1>1, <1>2, SMTT(20)
  <1> QED
    BY <1>1, <1>3, ProductIsMultiple

-----------------------------------------------------------------------------
(* View pages. *)

\* What the assumption on the sizes says of them, each fact on its own.
LEMMA Sizes ==
    /\ MaxU64 \in Nat
    /\ PAGE_SIZE \in Nat \ {0}
    /\ EFI_PAGE \in Nat \ {0}
    /\ (MaxU64 + 1) % EFI_PAGE = 0
    /\ (MaxU64 + 1) % PAGE_SIZE = 0
    /\ PAGE_SIZE <= MaxU64
  <1>1. /\ MaxU64 + 1 \in Nat
        /\ PAGE_SIZE \in Nat \ {0}
        /\ EFI_PAGE \in Nat \ {0}
        /\ EFI_PAGE % PAGE_SIZE = 0
        /\ (MaxU64 + 1) % EFI_PAGE = 0
    BY SizesAssumption
  <1>2. (MaxU64 + 1) % PAGE_SIZE = 0
    BY <1>1, MultipleOfMultiple
  <1> QED
    BY <1>2, SizesAssumption

\* A 64-bit result is a 64-bit value.
LEMMA WrapIsWord ==
    ASSUME NEW x \in Int
    PROVE  /\ Wrap(x) \in Word
           /\ x \in Word => Wrap(x) = x
  BY Sizes DEF Wrap, Word

\* A view page lies inside the address space, up to its last byte.
LEMMA ViewPageFits ==
    ASSUME NEW p \in ViewPages
    PROVE  /\ p \in Nat
           /\ p \in Word
           /\ p % PAGE_SIZE = 0
           /\ p + PAGE_SIZE <= MaxU64 + 1
  <1>1. p \in Nat /\ p \in Word /\ p % PAGE_SIZE = 0 /\ p < MaxU64 + 1
    BY Sizes DEF ViewPages, Word
  <1>2. MaxU64 + 1 \in Nat /\ (MaxU64 + 1) % PAGE_SIZE = 0 /\ PAGE_SIZE \in Nat \ {0}
    BY Sizes
  <1>3. p + PAGE_SIZE <= MaxU64 + 1
    BY <1>1, <1>2, MultiplesApart
  <1> QED
    BY <1>1, <1>3

\* PageCoreAlignToPage gives the base of a view page.
LEMMA AlignDownIsViewPage ==
    ASSUME NEW a \in Word
    PROVE  AlignDown(a, PAGE_SIZE) \in ViewPages
  <1>1. a \in Nat /\ a <= MaxU64 /\ PAGE_SIZE \in Nat \ {0} /\ MaxU64 \in Nat
    BY Sizes DEF Word
  <1>2. AlignDown(a, PAGE_SIZE) \in Nat /\ AlignDown(a, PAGE_SIZE) <= a
    BY <1>1, AlignDownBounds
  <1>3. AlignDown(a, PAGE_SIZE) % PAGE_SIZE = 0
    BY <1>1, AlignDownIsMultiple
  <1> QED
    BY <1>1, <1>2, <1>3 DEF ViewPages, Word

\* Rounding up gives the base of a view page, even where it wraps.
LEMMA AlignUpIsViewPage ==
    ASSUME NEW a \in Nat
    PROVE  AlignUp(a) \in ViewPages
  BY Sizes, WrapIsWord, AlignDownIsViewPage DEF AlignUp

\* The page base of a page base is itself.
LEMMA AlignDownOfViewPage ==
    ASSUME NEW p \in ViewPages
    PROVE  AlignDown(p, PAGE_SIZE) = p
  BY Sizes, ViewPageFits DEF AlignDown

-----------------------------------------------------------------------------
(* Least and greatest elements.  The finite sets 0 .. x are well ordered   *)
(* by strict inclusion, which gives a least element without induction.     *)

\* A nonempty set of naturals has its least element as Min.
LEMMA LeastElement ==
    ASSUME NEW S \in SUBSET Nat, S # {}
    PROVE  /\ Min(S) \in S
           /\ \A y \in S : Min(S) <= y
  <1> DEFINE T == {0 .. x : x \in S}
             R == StrictSubsetOrdering(Nat)
  <1>1. T \subseteq FiniteSubsetsOf(Nat)
    <2>1. ASSUME NEW x \in S PROVE 0 .. x \in FiniteSubsetsOf(Nat)
      <3>1. IsFiniteSet(0 .. x)
        BY FS_Interval
      <3> QED
        BY <3>1 DEF FiniteSubsetsOf
    <2> QED
      BY <2>1
  <1>2. T # {}
    OBVIOUS
  <1>3. IsWellFoundedOn(R, FiniteSubsetsOf(Nat))
    BY FS_StrictSubsetOrderingWellFounded
  <1>4. PICK I \in T : \A J \in T : ~ (<<J, I>> \in R)
    <2> HIDE DEF T, R
    <2> QED
      BY <1>1, <1>2, <1>3, WFMin
  <1>5. PICK x \in S : I = 0 .. x
    BY <1>4
  <1>6. ASSUME NEW y \in S PROVE x <= y
    <2>1. SUFFICES ASSUME y < x PROVE FALSE
      OBVIOUS
    <2>2. 0 .. y \subseteq 0 .. x /\ 0 .. y # 0 .. x
      BY <2>1
    <2>3. <<0 .. y, 0 .. x>> \in R
      BY <2>2 DEF StrictSubsetOrdering
    <2> QED
      BY <1>4, <1>5, <2>3
  <1> QED
    BY <1>6 DEF Min

\* A nonempty finite set of naturals has its greatest element as Max.
LEMMA GreatestElement ==
    ASSUME NEW n \in Nat, NEW S \in SUBSET (0 .. n), S # {}
    PROVE  /\ Max(S) \in S
           /\ \A y \in S : y <= Max(S)
  <1> DEFINE T == {n - x : x \in S}
  <1>1. T \in SUBSET Nat /\ T # {}
    <2>1. \A x \in S : n - x \in Nat
      OBVIOUS
    <2> QED
      BY <2>1
  <1>2. Min(T) \in T /\ \A t \in T : Min(T) <= t
    BY <1>1, LeastElement
  <1>3. PICK x \in S : Min(T) = n - x
    BY <1>2
  <1>4. ASSUME NEW y \in S PROVE y <= x
    <2>1. n - y \in T
      OBVIOUS
    <2>2. n - x <= n - y
      BY <1>2, <1>3, <2>1
    <2>3. x \in Int /\ y \in Int
      OBVIOUS
    <2> HIDE DEF T
    <2> QED
      BY <2>2, <2>3
  <1> QED
    BY <1>4 DEF Max

-----------------------------------------------------------------------------
(* Navigation stays on view pages. *)

\* What the adapter's copy of any firmware map satisfies.
TypedMap(map) ==
    /\ DOMAIN map \subseteq Nat
    /\ \A i \in DOMAIN map : map[i].start \in Word /\ map[i].pages \in Nat

\* The bounds a scan computes for a descriptor are addresses.
LEMMA ScanIsTyped ==
    ASSUME NEW map, TypedMap(map), NEW i \in ScannedDescriptors(map)
    PROVE  /\ FirstPage(map[i]) \in ViewPages
           /\ LastPage(map[i]) \in ViewPages
  <1>1. i \in DOMAIN map /\ HoldsPage(map[i])
    BY DEF ScannedDescriptors, ValidDescriptors
  <1>2. map[i].start \in Nat /\ map[i].start \in Word /\ map[i].pages \in Nat
    BY <1>1 DEF TypedMap, Word
  <1>3. FirstPage(map[i]) \in ViewPages
    BY <1>2, AlignUpIsViewPage DEF FirstPage
  <1>4. DescriptorSize(map[i]) \in Int
    <2>1. map[i].pages * EFI_PAGE \in Int
      BY <1>2, Sizes
    <2> QED
      BY <2>1, WrapIsWord DEF DescriptorSize, Word
  <1>5. ScanEnd(map[i]) \in Word
    BY <1>2, <1>4, WrapIsWord DEF ScanEnd
  <1>6. ScanEnd(map[i]) - PAGE_SIZE \in Word
    BY <1>1, <1>5, Sizes DEF HoldsPage, Word
  <1>7. LastPage(map[i]) \in ViewPages
    BY <1>6, AlignDownIsViewPage DEF LastPage
  <1> QED
    BY <1>3, <1>7

\* The page above (below) a view page that is not the last (first) one.
LEMMA NeighbourPages ==
    ASSUME NEW p \in ViewPages
    PROVE  /\ p <= MaxU64 - PAGE_SIZE => p + PAGE_SIZE \in ViewPages
           /\ p >= PAGE_SIZE => p - PAGE_SIZE \in ViewPages
  <1>1. p \in Nat /\ p % PAGE_SIZE = 0 /\ p <= MaxU64
    BY ViewPageFits DEF Word
  <1>2. PAGE_SIZE \in Nat \ {0} /\ PAGE_SIZE % PAGE_SIZE = 0 /\ MaxU64 \in Nat
    BY Sizes
  <1>3. (p + PAGE_SIZE) % PAGE_SIZE = 0
    BY <1>1, <1>2, SumOfMultiples
  <1>4. p >= PAGE_SIZE => (p - PAGE_SIZE) % PAGE_SIZE = 0
    BY <1>1, <1>2, DifferenceOfMultiples
  <1> QED
    BY <1>1, <1>2, <1>3, <1>4 DEF ViewPages, Word

\* The page after a view page, by any path of the search, is a view page.
LEMMA NextPageIsViewPage ==
    ASSUME NEW map, TypedMap(map), NEW p \in ViewPages
    PROVE  PageCoreGetNextValidPageAddress(map, p) \in ViewPages
  <1> DEFINE C == NextCandidates(map, p)
  <1>1. AlignDown(p, PAGE_SIZE) = p
    BY AlignDownOfViewPage
  <1>2. C \subseteq ViewPages
    <2>1. AlignUp(p + PAGE_SIZE) \in ViewPages
      BY ViewPageFits, Sizes, AlignUpIsViewPage
    <2> QED
      BY <2>1, ScanIsTyped DEF NextCandidates
  <1>3. C # {} => Min(C) \in ViewPages
    BY <1>2, LeastElement DEF ViewPages, Word
  <1>4. p <= MaxU64 - PAGE_SIZE => p + PAGE_SIZE \in ViewPages
    BY NeighbourPages
  <1>5. ~ (p > MaxU64 - PAGE_SIZE) => p <= MaxU64 - PAGE_SIZE
    BY ViewPageFits, Sizes
  <1> HIDE DEF C
  <1> QED
    BY <1>1, <1>3, <1>4, <1>5 DEF PageCoreGetNextValidPageAddress, C

\* The page before a view page, by any path of the search, is a view page.
LEMMA PreviousPageIsViewPage ==
    ASSUME NEW map, TypedMap(map), NEW p \in ViewPages
    PROVE  PageCoreGetPreviousValidPageAddress(map, p) \in ViewPages
  <1> DEFINE C == PreviousCandidates(map, p)
  <1>1. AlignDown(p, PAGE_SIZE) = p
    BY AlignDownOfViewPage
  <1>2. p >= PAGE_SIZE => p - PAGE_SIZE \in ViewPages
    BY NeighbourPages
  <1>3. ASSUME p >= PAGE_SIZE PROVE C \subseteq ViewPages
    BY <1>2, <1>3, ScanIsTyped DEF PreviousCandidates
  <1>4. ASSUME p >= PAGE_SIZE, C # {} PROVE Max(C) \in ViewPages
    <2>1. C \in SUBSET (0 .. MaxU64)
      BY <1>3, <1>4 DEF ViewPages, Word
    <2>2. Max(C) \in C
      <3> HIDE DEF C
      <3> QED
        BY <1>4, <2>1, Sizes, GreatestElement
    <2> QED
      BY <1>3, <1>4, <2>2
  <1>5. ~ (p < PAGE_SIZE) => p >= PAGE_SIZE
    BY ViewPageFits, Sizes
  <1> HIDE DEF C
  <1> QED
    BY <1>1, <1>2, <1>4, <1>5 DEF PageCoreGetPreviousValidPageAddress, C

\* The viewer opens on a view page.
LEMMA FirstPageIsViewPage ==
    ASSUME NEW map, TypedMap(map)
    PROVE  AlignDown(PageCoreGetFirstValidAddress(map), PAGE_SIZE) \in ViewPages
  <1> DEFINE V == ValidDescriptors(map)
  <1>1. V \subseteq DOMAIN map /\ V \in SUBSET Nat
    BY DEF ValidDescriptors, TypedMap
  <1>2. V # {} => map[Min(V)].start \in Word
    <2>1. V # {} => Min(V) \in V
      <3> HIDE DEF V
      <3> QED
        BY <1>1, LeastElement
    <2> QED
      BY <1>1, <2>1 DEF TypedMap
  <1>3. 0 \in Word
    BY Sizes DEF Word
  <1>4. PageCoreGetFirstValidAddress(map) \in Word
    <2> HIDE DEF V
    <2> QED
      BY <1>2, <1>3 DEF PageCoreGetFirstValidAddress, V
  <1> QED
    BY <1>4, AlignDownIsViewPage
=============================================================================
