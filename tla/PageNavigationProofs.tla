------------------------ MODULE PageNavigationProofs ------------------------
(***************************************************************************)
(* Page navigation: for every conforming map, N and P go to the nearest    *)
(* valid page, the library's own navigation goes to the same one, and      *)
(* PageMem implements PageBrowser.                                         *)
(***************************************************************************)
EXTENDS PageMemAccessProofs

-----------------------------------------------------------------------------
(* Nearest pages, for any family of ranges of whole view pages.            *)

\* The view pages inside one of the ranges from s[i] up to e[i].
PagesInside(D, s, e) ==
    {q \in ViewPages : \E i \in D : s[i] <= q /\ q + PAGE_SIZE <= e[i]}

\* Ranges of view pages, none ending beyond the last address.
PageRanges(D, s, e) ==
    \A i \in D : /\ s[i] \in ViewPages
                 /\ e[i] \in ViewPages
                 /\ s[i] + 2 * PAGE_SIZE <= e[i]

\* A view page is a number.
LEMMA ViewPagesAreNat == ViewPages \subseteq Nat
  BY Sizes DEF ViewPages, Word

\* View pages that differ are a page apart.
LEMMA PagesApart ==
    ASSUME NEW p \in ViewPages, NEW q \in ViewPages, p < q
    PROVE  p + PAGE_SIZE <= q
  BY Sizes, ViewPageFits, MultiplesApart

\* The next page, when it is valid, is the nearest one above.
LEMMA NearestAboveIsNext ==
    ASSUME NEW V \in SUBSET ViewPages, NEW p \in ViewPages, p + PAGE_SIZE \in V
    PROVE  NearestAbove(V, p) = p + PAGE_SIZE
  <1> DEFINE above == {q \in V : q > p}
  <1>1. p \in Nat /\ PAGE_SIZE \in Nat \ {0} /\ V \subseteq Nat
    BY ViewPageFits, Sizes
  <1>2. p + PAGE_SIZE \in above /\ above \subseteq Nat
    <2>1. p + PAGE_SIZE > p
      BY <1>1
    <2> QED
      BY <1>1, <2>1
  <1>3. \A q \in above : p + PAGE_SIZE <= q
    BY PagesApart
  <1>4. Min(above) \in above /\ \A q \in above : Min(above) <= q
    <2> HIDE DEF above
    <2> QED
      BY <1>2, LeastElement
  <1>5. Min(above) = p + PAGE_SIZE
    <2> HIDE DEF above
    <2>1. /\ Min(above) <= p + PAGE_SIZE /\ p + PAGE_SIZE <= Min(above)
          /\ Min(above) \in Nat
      BY <1>2, <1>3, <1>4
    <2> QED
      BY <1>1, <2>1
  <1> QED
    BY <1>2, <1>5 DEF NearestAbove

\* When it is not, the nearest one above is the first page of a range.
LEMMA NearestAboveIsStart ==
    ASSUME NEW D, NEW s, NEW e, PageRanges(D, s, e),
           NEW p \in ViewPages, p + PAGE_SIZE \notin PagesInside(D, s, e),
           p + PAGE_SIZE \in ViewPages
    PROVE  LET C == {s[i] : i \in {j \in D : p + PAGE_SIZE <= s[j]}}
           IN /\ NearestAbove(PagesInside(D, s, e), p) = IF C = {} THEN p ELSE Min(C)
              /\ C \subseteq PagesInside(D, s, e)
              /\ C # {} => Min(C) \in C
  <1> DEFINE n == p + PAGE_SIZE
             V == PagesInside(D, s, e)
             C == {s[i] : i \in {j \in D : n <= s[j]}}
             above == {q \in V : q > p}
  <1>1. p \in Nat /\ PAGE_SIZE \in Nat \ {0} /\ n \in Nat
    BY ViewPageFits, Sizes
  <1>2. \A i \in D : /\ s[i] \in ViewPages /\ s[i] \in Nat /\ e[i] \in Nat
                     /\ s[i] + PAGE_SIZE <= e[i]
    <2> TAKE i \in D
    <2>1. s[i] \in ViewPages /\ e[i] \in ViewPages /\ s[i] + 2 * PAGE_SIZE <= e[i]
      BY DEF PageRanges
    <2>2. s[i] \in Nat /\ e[i] \in Nat
      BY <2>1, ViewPagesAreNat
    <2> QED
      BY <1>1, <2>1, <2>2
  <1>3. V \subseteq ViewPages /\ V \subseteq Nat
    BY ViewPagesAreNat DEF PagesInside
  <1>4. C \subseteq V
    BY <1>2 DEF PagesInside
  <1>5. ASSUME NEW q \in above PROVE \E c \in C : c <= q
    <2>1. q \in Nat /\ q \in ViewPages /\ n <= q
      BY <1>3, PagesApart
    <2>2. PICK i \in D : s[i] <= q /\ q + PAGE_SIZE <= e[i]
      BY DEF PagesInside
    <2>3. ~ (s[i] < n)
      <3>1. SUFFICES ASSUME s[i] < n PROVE FALSE
        OBVIOUS
      <3>2. s[i] <= n /\ n + PAGE_SIZE <= e[i]
        BY <1>1, <1>2, <2>1, <2>2, <3>1
      <3> QED
        BY <3>2 DEF PagesInside
    <2>4. n <= s[i]
      BY <1>1, <1>2, <2>3
    <2> QED
      BY <2>2, <2>4
  <1>6. \A c \in C : c \in above
    <2>1. \A c \in C : c > p
      BY <1>1, <1>2
    <2> QED
      BY <1>4, <2>1
  <1>7. above \in SUBSET Nat /\ C \in SUBSET Nat
    BY <1>3, <1>4
  <1> HIDE DEF C, above, V
  <1>8. above = {} <=> C = {}
    BY <1>5, <1>6
  <1>9. C # {} => Min(C) \in C /\ (\A c \in C : Min(C) <= c)
    BY <1>7, LeastElement
  <1>10. above # {} => Min(above) \in above /\ (\A q \in above : Min(above) <= q)
    BY <1>7, LeastElement
  <1>11. C # {} => Min(above) = Min(C)
    <2> SUFFICES ASSUME C # {} PROVE Min(above) = Min(C)
      OBVIOUS
    <2>1. PICK c \in C : c <= Min(above)
      BY <1>5, <1>8, <1>10
    <2>2. Min(C) <= c /\ Min(above) <= Min(C)
      BY <1>6, <1>8, <1>9, <1>10
    <2>3. Min(C) \in Nat /\ Min(above) \in Nat /\ c \in Nat
      BY <1>7, <1>8, <1>9, <1>10
    <2> QED
      BY <2>1, <2>2, <2>3
  <1>12. NearestAbove(V, p) = IF C = {} THEN p ELSE Min(C)
    BY <1>8, <1>11 DEF NearestAbove, above
  <1> QED
    BY <1>4, <1>9, <1>12 DEF C, V

\* The page before, when it is valid, is the nearest one below.
LEMMA NearestBelowIsPrevious ==
    ASSUME NEW V \in SUBSET ViewPages, NEW p \in ViewPages, p - PAGE_SIZE \in V
    PROVE  NearestBelow(V, p) = p - PAGE_SIZE
  <1> DEFINE below == {q \in V : q < p}
  <1>1. p \in Nat /\ PAGE_SIZE \in Nat \ {0} /\ V \subseteq Nat
    BY ViewPageFits, Sizes
  <1>2. p - PAGE_SIZE \in below /\ below \subseteq 0 .. p
    <2>1. p - PAGE_SIZE < p
      BY <1>1
    <2>2. p - PAGE_SIZE \in below
      BY <2>1
    <2>3. \A q \in below : q \in 0 .. p
      BY <1>1
    <2> HIDE DEF below
    <2> QED
      BY <2>2, <2>3
  <1>3. \A q \in below : q <= p - PAGE_SIZE
    <2>1. \A q \in below : q + PAGE_SIZE <= p /\ q \in Nat
      BY <1>1, PagesApart
    <2> HIDE DEF below
    <2> QED
      BY <1>1, <2>1
  <1>4. Max(below) \in below /\ \A q \in below : q <= Max(below)
    <2> HIDE DEF below
    <2> QED
      BY <1>1, <1>2, GreatestElement
  <1>5. Max(below) = p - PAGE_SIZE
    <2> HIDE DEF below
    <2>1. /\ Max(below) <= p - PAGE_SIZE /\ p - PAGE_SIZE <= Max(below)
          /\ Max(below) \in 0 .. p
      BY <1>2, <1>3, <1>4
    <2> QED
      BY <1>1, <2>1
  <1> QED
    BY <1>2, <1>5 DEF NearestBelow

\* When it is not, the nearest one below is the last page of a range.
LEMMA NearestBelowIsEnd ==
    ASSUME NEW D, NEW s, NEW e, PageRanges(D, s, e),
           NEW p \in ViewPages, p - PAGE_SIZE \notin PagesInside(D, s, e),
           p - PAGE_SIZE \in ViewPages
    PROVE  LET C == {e[i] - PAGE_SIZE : i \in {j \in D : e[j] <= p}}
           IN /\ NearestBelow(PagesInside(D, s, e), p) = IF C = {} THEN p ELSE Max(C)
              /\ C \subseteq PagesInside(D, s, e)
              /\ C # {} => Max(C) \in C
  <1> DEFINE b == p - PAGE_SIZE
             V == PagesInside(D, s, e)
             C == {e[i] - PAGE_SIZE : i \in {j \in D : e[j] <= p}}
             below == {q \in V : q < p}
  <1>1. p \in Nat /\ PAGE_SIZE \in Nat \ {0} /\ b \in Nat
    BY ViewPageFits, Sizes
  <1>2. \A i \in D : /\ s[i] \in Nat /\ e[i] \in Nat /\ e[i] \in ViewPages
                     /\ s[i] + PAGE_SIZE <= e[i] - PAGE_SIZE
                     /\ e[i] - PAGE_SIZE \in ViewPages
    <2> TAKE i \in D
    <2>1. s[i] \in ViewPages /\ e[i] \in ViewPages /\ s[i] + 2 * PAGE_SIZE <= e[i]
      BY DEF PageRanges
    <2>2. s[i] \in Nat /\ e[i] \in Nat
      BY <2>1, ViewPagesAreNat
    <2>3. s[i] + PAGE_SIZE <= e[i] - PAGE_SIZE /\ e[i] >= PAGE_SIZE
      BY <1>1, <2>1, <2>2
    <2> QED
      BY <2>1, <2>2, <2>3, NeighbourPages
  <1>3. V \subseteq ViewPages /\ V \subseteq Nat
    BY ViewPagesAreNat DEF PagesInside
  <1>4. C \subseteq V
    <2>1. \A i \in D : s[i] <= e[i] - PAGE_SIZE /\ (e[i] - PAGE_SIZE) + PAGE_SIZE <= e[i]
      BY <1>1, <1>2
    <2> QED
      BY <1>2, <2>1 DEF PagesInside
  <1>5. ASSUME NEW q \in below PROVE \E c \in C : q <= c
    <2>1. q \in Nat /\ q \in ViewPages /\ q + PAGE_SIZE <= p
      BY <1>3, PagesApart
    <2>2. PICK i \in D : s[i] <= q /\ q + PAGE_SIZE <= e[i]
      BY DEF PagesInside
    <2>3. ~ (p < e[i])
      <3>1. SUFFICES ASSUME p < e[i] PROVE FALSE
        OBVIOUS
      <3>2. s[i] <= b /\ b + PAGE_SIZE <= e[i]
        BY <1>1, <1>2, <2>1, <2>2, <3>1
      <3> QED
        BY <3>2 DEF PagesInside
    <2>4. e[i] <= p /\ q <= e[i] - PAGE_SIZE
      BY <1>1, <1>2, <2>1, <2>2, <2>3
    <2> QED
      BY <2>4
  <1>6. \A c \in C : c \in below
    <2>1. \A c \in C : c < p
      BY <1>1, <1>2
    <2> QED
      BY <1>4, <2>1
  <1>7. below \in SUBSET (0 .. p) /\ C \in SUBSET (0 .. p)
    <2>1. below \in SUBSET (0 .. p)
      BY <1>1, <1>3
    <2> QED
      BY <1>6, <2>1
  <1> HIDE DEF C, below, V
  <1>8. below = {} <=> C = {}
    BY <1>5, <1>6
  <1>9. C # {} => Max(C) \in C /\ (\A c \in C : c <= Max(C))
    BY <1>1, <1>7, GreatestElement
  <1>10. below # {} => Max(below) \in below /\ (\A q \in below : q <= Max(below))
    BY <1>1, <1>7, GreatestElement
  <1>11. C # {} => Max(below) = Max(C)
    <2> SUFFICES ASSUME C # {} PROVE Max(below) = Max(C)
      OBVIOUS
    <2>1. PICK c \in C : Max(below) <= c
      BY <1>5, <1>8, <1>10
    <2>2. c <= Max(C) /\ Max(C) <= Max(below)
      BY <1>6, <1>8, <1>9, <1>10
    <2>3. Max(C) \in 0 .. p /\ Max(below) \in 0 .. p /\ c \in 0 .. p
      BY <1>7, <1>8, <1>9, <1>10
    <2> QED
      BY <1>1, <2>1, <2>2, <2>3
  <1>12. NearestBelow(V, p) = IF C = {} THEN p ELSE Max(C)
    BY <1>8, <1>11 DEF NearestBelow, below
  <1> QED
    BY <1>4, <1>9, <1>12 DEF C, V

-----------------------------------------------------------------------------
(* The ranges of a conforming map.                                         *)

\* Where a region ends, without the wrap.
End(d) == d.start + d.pages * EFI_PAGE

\* A conforming region has whole view pages, at least two of them.
LEMMA ConformingRange ==
    ASSUME NEW d, Conforming(d)
    PROVE  /\ d.start \in ViewPages
           /\ d.pages * EFI_PAGE \in Nat
           /\ End(d) \in Nat /\ End(d) <= MaxU64 + 1
           /\ d.start + 2 * PAGE_SIZE <= End(d)
           /\ End(d) <= MaxU64 => End(d) \in ViewPages
  <1> DEFINE size == d.pages * EFI_PAGE
  <1>1. /\ d.start \in Nat /\ d.start \in Word /\ d.start % EFI_PAGE = 0
        /\ d.pages \in Nat \ {0} /\ d.start + size <= MaxU64 + 1
    BY Sizes DEF Conforming, Word
  <1>2. /\ EFI_PAGE \in Nat \ {0} /\ PAGE_SIZE \in Nat \ {0} /\ MaxU64 \in Nat
        /\ EFI_PAGE % PAGE_SIZE = 0 /\ EFI_PAGE >= 2 * PAGE_SIZE
    BY SizesAssumption
  <1>3. size \in Nat /\ size % EFI_PAGE = 0
    <2>1. d.pages * EFI_PAGE = EFI_PAGE * d.pages /\ EFI_PAGE * d.pages \in Nat
      BY <1>1, <1>2
    <2>2. (EFI_PAGE * d.pages) % EFI_PAGE = 0
      BY <1>1, <1>2, ProductIsMultiple
    <2> QED
      BY <2>1, <2>2
  <1>4. size >= EFI_PAGE
    <2>1. ASSUME NEW k \in Nat \ {0}, NEW n \in Nat PROVE k * n >= n
      BY SMTT(20)
    <2> QED
      BY <1>1, <1>2, <2>1
  <1>5. size % PAGE_SIZE = 0 /\ d.start % PAGE_SIZE = 0
    <2> HIDE DEF size
    <2> QED
      BY <1>1, <1>2, <1>3, MultipleOfMultiple
  <1>6. End(d) = d.start + size
    BY DEF End
  <1> HIDE DEF size
  <1>7. (d.start + size) % PAGE_SIZE = 0
    BY <1>1, <1>2, <1>3, <1>5, SumOfMultiples
  <1>8. d.start \in ViewPages
    BY <1>1, <1>5 DEF ViewPages
  <1>9. End(d) <= MaxU64 => End(d) \in ViewPages
    BY <1>1, <1>2, <1>3, <1>6, <1>7 DEF ViewPages, Word
  <1>10. d.start + 2 * PAGE_SIZE <= End(d)
    <2> DEFINE two == 2 * PAGE_SIZE
    <2>1. two \in Nat /\ two <= EFI_PAGE
      BY <1>2
    <2> HIDE DEF two
    <2>2. d.start + two <= End(d)
      BY <1>1, <1>2, <1>3, <1>4, <1>6, <2>1
    <2> QED
      BY <2>2 DEF two
  <1> QED
    BY <1>1, <1>3, <1>6, <1>8, <1>9, <1>10 DEF size

\* Rounding up changes no view page.
LEMMA AlignUpOfViewPage ==
    ASSUME NEW p \in ViewPages
    PROVE  AlignUp(p) = p
  <1> DEFINE x == p + (PAGE_SIZE - 1)
             d == AlignDown(x, PAGE_SIZE)
  <1>1. p \in Nat /\ p % PAGE_SIZE = 0 /\ p + PAGE_SIZE <= MaxU64 + 1
    BY ViewPageFits
  <1>2. PAGE_SIZE \in Nat \ {0} /\ MaxU64 \in Nat
    BY Sizes
  <1>3. x \in Nat /\ x \in Word
    BY <1>1, <1>2 DEF Word
  <1>4. AlignUp(p) = d
    BY <1>3, WrapIsWord DEF AlignUp
  <1>5. d \in Nat /\ d <= x /\ x < d + PAGE_SIZE /\ d % PAGE_SIZE = 0
    <2> HIDE DEF x
    <2> QED
      BY <1>2, <1>3, AlignDownBounds, AlignDownIsMultiple
  <1> HIDE DEF d
  <1>6. ~ (p < d)
    <2>1. p < d => p + PAGE_SIZE <= d
      BY <1>1, <1>2, <1>5, MultiplesApart
    <2> QED
      BY <1>1, <1>2, <1>5, <2>1
  <1>7. ~ (d < p)
    <2>1. d < p => d + PAGE_SIZE <= p
      BY <1>1, <1>2, <1>5, MultiplesApart
    <2> QED
      BY <1>1, <1>2, <1>5, <2>1
  <1> QED
    BY <1>1, <1>4, <1>5, <1>6, <1>7

\* What the code computes for a region that ends inside the address space.
LEMMA InsideRegion ==
    ASSUME NEW d, Conforming(d), End(d) <= MaxU64
    PROVE  /\ d.pages <= MaxU64 \div EFI_PAGE
           /\ DescriptorSize(d) = d.pages * EFI_PAGE
           /\ EndsInWord(d) /\ DescriptorEnd(d) = End(d)
           /\ ScanEnd(d) = End(d)
           /\ FirstPage(d) = d.start /\ LastPage(d) = End(d) - PAGE_SIZE
           /\ HoldsPage(d)
  <1> DEFINE size == d.pages * EFI_PAGE
  <1>1. /\ d.start \in ViewPages /\ d.start \in Nat /\ size \in Nat
        /\ End(d) = d.start + size /\ d.pages \in Nat \ {0}
        /\ d.start + 2 * PAGE_SIZE <= End(d) /\ End(d) \in ViewPages
    BY ConformingRange, ViewPagesAreNat DEF End, Conforming
  <1>2. PAGE_SIZE \in Nat \ {0} /\ MaxU64 \in Nat /\ EFI_PAGE \in Nat \ {0}
    BY Sizes
  <1>3. size \in Word
    BY <1>1, <1>2 DEF Word
  <1>4. DescriptorSize(d) = size
    BY <1>1, <1>3, WrapIsWord DEF DescriptorSize
  <1>5. d.pages <= MaxU64 \div EFI_PAGE
    <2> DEFINE q == MaxU64 \div EFI_PAGE
    <2>1. q \in Nat /\ MaxU64 = (EFI_PAGE * q) + (MaxU64 % EFI_PAGE)
      BY <1>2, DivisionIdentity
    <2>2. MaxU64 % EFI_PAGE < EFI_PAGE /\ MaxU64 % EFI_PAGE \in Nat
      BY <1>2
    <2> HIDE DEF q
    <2>3. ~ (q < d.pages)
      <3>1. SUFFICES ASSUME q < d.pages PROVE FALSE
        OBVIOUS
      <3>2. EFI_PAGE * q < EFI_PAGE * d.pages
        BY <1>1, <1>2, <2>1, <3>1, SMTT(20)
      <3>3. (EFI_PAGE * q) + EFI_PAGE <= EFI_PAGE * d.pages
        BY <1>1, <1>2, <2>1, <3>2, ProductsApart
      <3>4. EFI_PAGE * d.pages = size /\ EFI_PAGE * q \in Nat
        BY <1>1, <1>2, <2>1
      <3> HIDE DEF size
      <3> QED
        BY <1>1, <1>2, <2>1, <2>2, <3>3, <3>4
    <2>4. d.pages <= q
      BY <1>1, <2>1, <2>3
    <2> QED
      BY <2>4 DEF q
  <1> HIDE DEF size
  <1>6. EndsInWord(d) /\ DescriptorEnd(d) = End(d)
    BY <1>1, <1>2, <1>4 DEF EndsInWord, DescriptorEnd
  <1>7. ScanEnd(d) = End(d)
    <2>1. d.start + DescriptorSize(d) = End(d) /\ End(d) \in Word
      BY <1>1, <1>2, <1>4 DEF Word
    <2> QED
      BY <2>1, <1>1, WrapIsWord, ViewPagesAreNat DEF ScanEnd
  <1>8. FirstPage(d) = d.start
    BY <1>1, AlignUpOfViewPage DEF FirstPage
  <1>9. LastPage(d) = End(d) - PAGE_SIZE
    <2>1. End(d) \in Nat /\ End(d) >= PAGE_SIZE
      BY <1>1, <1>2
    <2>2. End(d) - PAGE_SIZE \in ViewPages
      BY <1>1, <2>1, NeighbourPages
    <2> QED
      BY <1>7, <2>2, AlignDownOfViewPage DEF LastPage
  <1>10. HoldsPage(d)
    <2>1. d.start + PAGE_SIZE \in Word /\ d.start + PAGE_SIZE \in Int
      BY <1>1, <1>2 DEF Word
    <2>2. Wrap(d.start + PAGE_SIZE) = d.start + PAGE_SIZE
      BY <2>1, WrapIsWord
    <2> QED
      BY <1>1, <1>2, <1>7, <1>8, <2>2 DEF HoldsPage
  <1> QED
    BY <1>4, <1>5, <1>6, <1>7, <1>8, <1>9, <1>10 DEF size

\* What it computes for a region up to the last address: neither the scans
\* nor the range checks accept it.
LEMMA LastRegion ==
    ASSUME NEW d, Conforming(d), ~ (End(d) <= MaxU64)
    PROVE  /\ ~ HoldsPage(d)
           /\ EndsInWord(d) => d.start = 0 /\ DescriptorSize(d) = 0 /\ DescriptorEnd(d) = 0
           /\ ~ (d.pages <= MaxU64 \div EFI_PAGE /\ EndsInWord(d))
           /\ \A p \in Nat : ~ Covers(d, p, PAGE_SIZE)
  <1> DEFINE size == d.pages * EFI_PAGE
  <1>1. /\ d.start \in Nat /\ size \in Nat /\ d.pages \in Nat \ {0}
        /\ d.start + size = MaxU64 + 1 /\ End(d) = MaxU64 + 1
        /\ d.start <= MaxU64
    <2>1. /\ d.start \in ViewPages /\ size \in Nat /\ d.start + size <= MaxU64 + 1
          /\ End(d) = d.start + size /\ d.pages \in Nat \ {0} /\ d.start \in Word
      BY ConformingRange DEF End, Conforming
    <2>2. d.start \in Nat /\ d.start <= MaxU64 /\ MaxU64 \in Nat
      BY <2>1, Sizes DEF Word
    <2> HIDE DEF size
    <2> QED
      BY <2>1, <2>2
  <1>2. PAGE_SIZE \in Nat \ {0} /\ MaxU64 \in Nat /\ EFI_PAGE \in Nat \ {0}
    BY Sizes
  <1>3. DescriptorSize(d) = Wrap(size)
    BY DEF DescriptorSize
  <1>4. d.pages <= MaxU64 \div EFI_PAGE => size <= MaxU64
    BY <1>1, PagesFit
  <1> HIDE DEF size
  <1>5. CASE d.start = 0
    <2>1. size = MaxU64 + 1 /\ Wrap(size) = 0
      <3>1. size = MaxU64 + 1
        BY <1>1, <1>2, <1>5
      <3>2. (MaxU64 + 1) % (MaxU64 + 1) = 0
        BY <1>2
      <3> QED
        BY <3>1, <3>2 DEF Wrap
    <2>2. DescriptorSize(d) = 0 /\ DescriptorEnd(d) = 0
      BY <1>3, <1>5, <2>1 DEF DescriptorEnd
    <2>3. ScanEnd(d) = 0
      BY <1>2, <1>5, <2>2 DEF ScanEnd, Wrap
    <2>4. ~ HoldsPage(d)
      BY <1>2, <2>3 DEF HoldsPage
    <2>5. \A p \in Nat : ~ Covers(d, p, PAGE_SIZE)
      BY <1>2, <2>2 DEF Covers
    <2>6. ~ (d.pages <= MaxU64 \div EFI_PAGE)
      BY <1>2, <1>4, <2>1
    <2> QED
      BY <1>5, <2>2, <2>4, <2>5, <2>6
  <1>6. CASE d.start # 0
    <2>1. size \in Word
      BY <1>1, <1>2, <1>6 DEF Word
    <2>2. DescriptorSize(d) = size
      BY <1>1, <1>3, <2>1, WrapIsWord
    <2>3. ~ EndsInWord(d)
      BY <1>1, <1>2, <2>2 DEF EndsInWord
    <2>4. ScanEnd(d) = 0
      <3>1. ScanEnd(d) = Wrap(MaxU64 + 1)
        BY <1>1, <2>2 DEF ScanEnd
      <3> QED
        BY <1>2, <3>1 DEF Wrap
    <2>5. ~ HoldsPage(d)
      BY <1>2, <2>4 DEF HoldsPage
    <2> QED
      BY <2>3, <2>5 DEF Covers
  <1> QED
    BY <1>5, <1>6

-----------------------------------------------------------------------------
(* The two maps as families of ranges.                                     *)

ConformingMap(map) == DOMAIN map \subseteq Nat /\ \A i \in DOMAIN map : Conforming(map[i])

Starts(map) == [i \in DOMAIN map |-> map[i].start]
Ends(map)   == [i \in DOMAIN map |-> End(map[i])]

CoreRanges(map) == {i \in ValidDescriptors(map) : End(map[i]) <= MaxU64}
LibRanges(map)  == {i \in DOMAIN map : map[i].type \in BrowsableTypes /\ End(map[i]) <= MaxU64}

CorePages(map) == PagesInside(CoreRanges(map), Starts(map), Ends(map))
LibPages(map)  == PagesInside(LibRanges(map), Starts(map), Ends(map))

\* Both families are ranges of view pages.
LEMMA RegionsAreRanges ==
    ASSUME NEW map, ConformingMap(map)
    PROVE  /\ PageRanges(CoreRanges(map), Starts(map), Ends(map))
           /\ PageRanges(LibRanges(map), Starts(map), Ends(map))
           /\ CoreRanges(map) \subseteq DOMAIN map /\ LibRanges(map) \subseteq DOMAIN map
  <1>1. ASSUME NEW i \in DOMAIN map, End(map[i]) <= MaxU64
        PROVE  /\ Starts(map)[i] \in ViewPages /\ Ends(map)[i] \in ViewPages
               /\ Starts(map)[i] + 2 * PAGE_SIZE <= Ends(map)[i]
    BY <1>1, ConformingRange DEF ConformingMap, Starts, Ends
  <1>2. CoreRanges(map) \subseteq DOMAIN map /\ LibRanges(map) \subseteq DOMAIN map
    BY DEF CoreRanges, LibRanges, ValidDescriptors
  <1> QED
    BY <1>1, <1>2 DEF PageRanges, CoreRanges, LibRanges

\* A view page inside a region, as both range checks decide it.
LEMMA CoversPage ==
    ASSUME NEW d, Conforming(d), NEW p \in ViewPages
    PROVE  Covers(d, p, PAGE_SIZE) <=>
             End(d) <= MaxU64 /\ d.start <= p /\ p + PAGE_SIZE <= End(d)
  <1>1. p \in Nat
    BY ViewPagesAreNat
  <1>2. CASE End(d) <= MaxU64
    BY <1>2, InsideRegion DEF Covers
  <1>3. CASE ~ (End(d) <= MaxU64)
    BY <1>1, <1>3, LastRegion
  <1> QED
    BY <1>2, <1>3

\* A page inside a range ends before the last address.
LEMMA InsideFits ==
    ASSUME NEW map, ConformingMap(map), NEW p \in CorePages(map) \cup LibPages(map)
    PROVE  p \in ViewPages /\ p + PAGE_SIZE <= MaxU64 /\ p <= MaxU64 - PAGE_SIZE
  <1>1. PICK i \in DOMAIN map : p \in ViewPages /\ End(map[i]) <= MaxU64 /\ p + PAGE_SIZE <= End(map[i])
    BY RegionsAreRanges DEF CorePages, LibPages, PagesInside, CoreRanges, LibRanges, Ends
  <1>2. End(map[i]) \in Nat /\ p \in Nat /\ PAGE_SIZE \in Nat /\ MaxU64 \in Nat
    BY <1>1, ConformingRange, ViewPagesAreNat, Sizes DEF ConformingMap
  <1> QED
    BY <1>1, <1>2

\* The valid pages are those inside the ranges of the browsable regions.
LEMMA ValidPagesAreInside ==
    ASSUME NEW map, ConformingMap(map)
    PROVE  ValidPages(map) = CorePages(map)
  <1>1. ASSUME NEW p \in ViewPages
        PROVE  (\E i \in ValidDescriptors(map) : Covers(map[i], p, PAGE_SIZE)) <=> p \in CorePages(map)
    <2>1. \A i \in ValidDescriptors(map) :
            /\ i \in DOMAIN map
            /\ Covers(map[i], p, PAGE_SIZE) <=>
                 End(map[i]) <= MaxU64 /\ map[i].start <= p /\ p + PAGE_SIZE <= End(map[i])
      BY CoversPage DEF ConformingMap, ValidDescriptors
    <2> QED
      BY <2>1 DEF CorePages, PagesInside, CoreRanges, Starts, Ends
  <1>2. PAGE_SIZE # 0
    BY Sizes
  <1>3. \A p \in CorePages(map) : p \in ViewPages /\ p <= MaxU64 - PAGE_SIZE
    BY InsideFits
  <1> QED
    BY <1>1, <1>2, <1>3 DEF ValidPages, PageCoreIsRangeValid

\* What Core's scans look at.
LEMMA ScannedAreRanges ==
    ASSUME NEW map, ConformingMap(map)
    PROVE  ScannedDescriptors(map) = CoreRanges(map)
  <1>1. \A i \in ValidDescriptors(map) : HoldsPage(map[i]) <=> End(map[i]) <= MaxU64
    BY InsideRegion, LastRegion DEF ConformingMap, ValidDescriptors
  <1> QED
    BY <1>1 DEF ScannedDescriptors, CoreRanges

\* What the library's scans look at.
LEMMA LibDescriptorsAreRanges ==
    ASSUME NEW map, ConformingMap(map)
    PROVE  LibDescriptors(map) = LibRanges(map)
  <1>1. \A i \in DOMAIN map :
           (map[i].pages # 0 /\ map[i].pages <= MaxU64 \div EFI_PAGE /\ EndsInWord(map[i]))
             <=> End(map[i]) <= MaxU64
    <2> TAKE i \in DOMAIN map
    <2>1. Conforming(map[i]) /\ map[i].pages # 0
      BY DEF ConformingMap, Conforming
    <2> QED
      BY <2>1, InsideRegion, LastRegion
  <1> QED
    BY <1>1 DEF LibDescriptors, LibRanges

\* Core's check of a single page is right below the last page; there the end
\* of the page wraps.
LEMMA CorePageCheck ==
    ASSUME NEW map, ConformingMap(map), NEW b \in ViewPages, b + PAGE_SIZE <= MaxU64
    PROVE  PageCoreIsPageValid(map, b) <=> b \in CorePages(map)
  <1>1. b \in Nat /\ PAGE_SIZE \in Nat \ {0} /\ MaxU64 \in Nat
    BY ViewPagesAreNat, Sizes
  <1>2. AlignDown(b, PAGE_SIZE) = b /\ Wrap(b + PAGE_SIZE) = b + PAGE_SIZE
    BY <1>1, AlignDownOfViewPage, WrapIsWord DEF Word
  <1>3. ASSUME NEW i \in ValidDescriptors(map)
        PROVE  (/\ map[i].pages # 0 /\ EndsInWord(map[i])
                /\ map[i].start <= b /\ b + PAGE_SIZE <= DescriptorEnd(map[i]))
               <=> (End(map[i]) <= MaxU64 /\ Starts(map)[i] <= b /\ b + PAGE_SIZE <= Ends(map)[i])
    <2>1. i \in DOMAIN map /\ Conforming(map[i]) /\ map[i].pages # 0
      BY DEF ValidDescriptors, ConformingMap, Conforming
    <2>2. CASE End(map[i]) <= MaxU64
      BY <2>1, <2>2, InsideRegion DEF Starts, Ends
    <2>3. CASE ~ (End(map[i]) <= MaxU64)
      BY <1>1, <2>1, <2>3, LastRegion
    <2> QED
      BY <2>2, <2>3
  <1> QED
    BY <1>2, <1>3 DEF PageCoreIsPageValid, CorePages, PagesInside, CoreRanges

\* The library's check of a single page is right everywhere.
LEMMA LibPageCheck ==
    ASSUME NEW map, ConformingMap(map), NEW b \in ViewPages
    PROVE  IsPageValid(map, b) <=> b \in LibPages(map)
  <1>1. AlignDown(b, PAGE_SIZE) = b
    BY AlignDownOfViewPage
  <1>2. \A i \in DOMAIN map :
          Covers(map[i], b, PAGE_SIZE) <=>
             End(map[i]) <= MaxU64 /\ map[i].start <= b /\ b + PAGE_SIZE <= End(map[i])
    BY CoversPage DEF ConformingMap
  <1>3. (\E i \in LibRanges(map) : Covers(map[i], b, PAGE_SIZE)) <=> b \in LibPages(map)
    BY <1>2 DEF LibRanges, LibPages, PagesInside, Starts, Ends
  <1>4. b \in LibPages(map) => b <= MaxU64 - PAGE_SIZE
    BY InsideFits
  <1>5. IsPageValid(map, b) <=>
          b <= MaxU64 - PAGE_SIZE /\ \E i \in LibRanges(map) : Covers(map[i], b, PAGE_SIZE)
    BY <1>1, LibDescriptorsAreRanges DEF IsPageValid
  <1> QED
    BY <1>3, <1>4, <1>5

-----------------------------------------------------------------------------
(* The four searches.                                                      *)

\* Where no page can follow, there is no nearest page.
LEMMA NothingAbove ==
    ASSUME NEW map, ConformingMap(map), NEW p \in ViewPages,
           ~ (p + 2 * PAGE_SIZE <= MaxU64)
    PROVE  /\ NearestAbove(CorePages(map), p) = p
           /\ NearestAbove(LibPages(map), p) = p
  <1>1. ASSUME NEW q \in CorePages(map) \cup LibPages(map) PROVE ~ (q > p)
    <2>1. q \in ViewPages /\ q + PAGE_SIZE <= MaxU64
      BY InsideFits
    <2>2. q \in Nat /\ p \in Nat /\ PAGE_SIZE \in Nat /\ MaxU64 \in Nat
      BY <2>1, ViewPagesAreNat, Sizes
    <2>3. q > p => p + PAGE_SIZE <= q
      BY <2>1, PagesApart
    <2> QED
      BY <2>1, <2>2, <2>3
  <1> QED
    BY <1>1 DEF NearestAbove

\* Core's search upwards with the check of its caller.
LEMMA CoreFindsAbove ==
    ASSUME NEW map, ConformingMap(map), NEW p \in ViewPages
    PROVE  PageDownTarget(map, p) = NearestAbove(ValidPages(map), p)
  <1> DEFINE n == p + PAGE_SIZE
             V == CorePages(map)
             next == PageCoreGetNextValidPageAddress(map, p)
  <1>1. /\ p \in Nat /\ PAGE_SIZE \in Nat \ {0} /\ MaxU64 \in Nat
        /\ p + PAGE_SIZE <= MaxU64 + 1
    BY ViewPageFits, Sizes
  <1>2. ValidPages(map) = V /\ AlignDown(p, PAGE_SIZE) = p
    BY ValidPagesAreInside, AlignDownOfViewPage
  <1>3. \A q \in ViewPages : PageCoreIsRangeValid(map, q, PAGE_SIZE) <=> q \in V
    BY <1>2 DEF ValidPages
  <1>4. V \subseteq ViewPages
    BY DEF CorePages, PagesInside
  <1>5. CASE p > MaxU64 - PAGE_SIZE
    <2>1. next = p
      BY <1>2, <1>5 DEF PageCoreGetNextValidPageAddress
    <2>2. ~ (p + 2 * PAGE_SIZE <= MaxU64)
      BY <1>1, <1>5
    <2>3. NearestAbove(V, p) = p
      BY <2>2, NothingAbove
    <2> QED
      BY <1>2, <2>1, <2>3 DEF PageDownTarget
  <1>6. CASE ~ (p > MaxU64 - PAGE_SIZE) /\ PageCoreIsPageValid(map, n)
    <2>1. next = n /\ n \in ViewPages
      BY <1>1, <1>2, <1>6, NeighbourPages DEF PageCoreGetNextValidPageAddress
    <2>2. CASE n \in V
      BY <1>2, <1>3, <1>4, <2>1, <2>2, NearestAboveIsNext DEF PageDownTarget
    <2>3. CASE n \notin V
      <3>1. ~ (n + PAGE_SIZE <= MaxU64)
        BY <1>6, <2>1, <2>3, CorePageCheck
      <3>2. ~ (p + 2 * PAGE_SIZE <= MaxU64)
        BY <1>1, <3>1
      <3>3. NearestAbove(V, p) = p
        BY <3>2, NothingAbove
      <3> QED
        BY <1>2, <1>3, <2>1, <2>3, <3>3 DEF PageDownTarget
    <2> QED
      BY <2>2, <2>3
  <1>7. CASE ~ (p > MaxU64 - PAGE_SIZE) /\ ~ PageCoreIsPageValid(map, n)
    <2> DEFINE C == NextCandidates(map, p)
               D == CoreRanges(map)
               S == {Starts(map)[i] : i \in {j \in D : n <= Starts(map)[j]}}
    <2>1. n \in ViewPages /\ n \in Nat
      BY <1>1, <1>7, NeighbourPages
    <2>2. n \notin V
      <3>1. n \in V => n + PAGE_SIZE <= MaxU64
        BY InsideFits
      <3> QED
        BY <1>7, <2>1, <3>1, CorePageCheck
    <2>3. next = IF C = {} THEN p ELSE Min(C)
      BY <1>2, <1>7 DEF PageCoreGetNextValidPageAddress
    <2>4. \A i \in D : /\ i \in DOMAIN map
                       /\ FirstPage(map[i]) = Starts(map)[i] /\ ScanEnd(map[i]) = Ends(map)[i]
                       /\ Starts(map)[i] \in Nat /\ Ends(map)[i] \in Nat /\ Ends(map)[i] \in ViewPages
                       /\ Ends(map)[i] <= MaxU64
      <3> TAKE i \in D
      <3>1. i \in DOMAIN map /\ Conforming(map[i]) /\ End(map[i]) <= MaxU64
        BY DEF CoreRanges, ValidDescriptors, ConformingMap
      <3>2. map[i].start \in Nat /\ End(map[i]) \in Nat /\ End(map[i]) \in ViewPages
        BY <3>1, ConformingRange, ViewPagesAreNat
      <3> QED
        BY <3>1, <3>2, InsideRegion DEF Starts, Ends
    <2>5. AlignUp(n) = n
      BY <2>1, AlignUpOfViewPage
    <2>6. ASSUME NEW j \in D, n > Starts(map)[j], FitsInside(map[j], n)
          PROVE  FALSE
      <3>1. n < Ends(map)[j]
        BY <2>4, <2>6 DEF FitsInside
      <3>2. n + PAGE_SIZE <= Ends(map)[j]
        BY <2>1, <2>4, <3>1, PagesApart
      <3> QED
        BY <2>1, <2>2, <2>4, <2>6, <3>2 DEF CorePages, PagesInside
    <2>7. C = S
      <3>1. ScannedDescriptors(map) = D
        BY ScannedAreRanges
      <3>2. \A i \in D : n <= Starts(map)[i] => Starts(map)[i] > p
        BY <1>1, <2>4
      <3> HIDE DEF D
      <3> QED
        BY <2>4, <2>6, <3>1, <3>2 DEF NextCandidates
    <2>8. /\ NearestAbove(V, p) = IF S = {} THEN p ELSE Min(S)
          /\ S \subseteq V
          /\ S # {} => Min(S) \in S
      BY <2>1, <2>2, RegionsAreRanges, NearestAboveIsStart DEF CorePages
    <2> HIDE DEF C, S, D, V
    <2>9. C # {} => next \in V /\ next \in ViewPages
      BY <1>4, <2>3, <2>7, <2>8
    <2> QED
      BY <1>2, <1>3, <2>3, <2>7, <2>8, <2>9 DEF PageDownTarget
  <1> QED
    BY <1>5, <1>6, <1>7

\* Core's search downwards with the check of its caller.
LEMMA CoreFindsBelow ==
    ASSUME NEW map, ConformingMap(map), NEW p \in ViewPages
    PROVE  PageUpTarget(map, p) = NearestBelow(ValidPages(map), p)
  <1> DEFINE b == p - PAGE_SIZE
             V == CorePages(map)
             previous == PageCoreGetPreviousValidPageAddress(map, p)
  <1>1. /\ p \in Nat /\ PAGE_SIZE \in Nat \ {0} /\ MaxU64 \in Nat /\ p <= MaxU64
    BY ViewPageFits, Sizes DEF Word
  <1>2. ValidPages(map) = V /\ AlignDown(p, PAGE_SIZE) = p
    BY ValidPagesAreInside, AlignDownOfViewPage
  <1>3. \A q \in ViewPages : PageCoreIsRangeValid(map, q, PAGE_SIZE) <=> q \in V
    BY <1>2 DEF ValidPages
  <1>4. V \subseteq ViewPages
    BY DEF CorePages, PagesInside
  <1>5. CASE p < PAGE_SIZE
    <2>1. previous = p
      BY <1>2, <1>5 DEF PageCoreGetPreviousValidPageAddress
    <2>2. \A q \in V : ~ (q < p)
      <3> TAKE q \in V
      <3>1. q \in ViewPages /\ q \in Nat
        BY <1>4, ViewPagesAreNat
      <3>2. q < p => q + PAGE_SIZE <= p
        BY <3>1, PagesApart
      <3> QED
        BY <1>1, <1>5, <3>1, <3>2
    <2>3. NearestBelow(V, p) = p
      BY <2>2 DEF NearestBelow
    <2> QED
      BY <1>2, <2>1, <2>3 DEF PageUpTarget
  <1>6. CASE ~ (p < PAGE_SIZE)
    <2> DEFINE C == PreviousCandidates(map, p)
               D == CoreRanges(map)
               E == {Ends(map)[i] - PAGE_SIZE : i \in {j \in D : Ends(map)[j] <= p}}
    <2>1. b \in ViewPages /\ b \in Nat /\ b + PAGE_SIZE = p
      BY <1>1, <1>6, NeighbourPages
    <2>2. PageCoreIsPageValid(map, b) <=> b \in V
      BY <1>1, <2>1, CorePageCheck
    <2>3. CASE b \in V
      <3>1. previous = b
        BY <1>2, <1>6, <2>2, <2>3 DEF PageCoreGetPreviousValidPageAddress
      <3> QED
        BY <1>2, <1>3, <1>4, <2>1, <2>3, <3>1, NearestBelowIsPrevious DEF PageUpTarget
    <2>4. CASE b \notin V
      <3>1. previous = IF C = {} THEN p ELSE Max(C)
        BY <1>2, <1>6, <2>2, <2>4 DEF PageCoreGetPreviousValidPageAddress
      <3>2. \A i \in D : /\ i \in DOMAIN map
                         /\ FirstPage(map[i]) = Starts(map)[i]
                         /\ LastPage(map[i]) = Ends(map)[i] - PAGE_SIZE
                         /\ Starts(map)[i] \in Nat /\ Ends(map)[i] \in Nat
                         /\ Ends(map)[i] \in ViewPages
                         /\ Starts(map)[i] + PAGE_SIZE <= Ends(map)[i] - PAGE_SIZE
        <4> TAKE i \in D
        <4>1. i \in DOMAIN map /\ Conforming(map[i]) /\ End(map[i]) <= MaxU64
          BY DEF CoreRanges, ValidDescriptors, ConformingMap
        <4>2. /\ map[i].start \in Nat /\ End(map[i]) \in Nat /\ End(map[i]) \in ViewPages
              /\ map[i].start + 2 * PAGE_SIZE <= End(map[i])
          BY <4>1, ConformingRange, ViewPagesAreNat
        <4>3. map[i].start + PAGE_SIZE <= End(map[i]) - PAGE_SIZE
          BY <1>1, <4>2
        <4> QED
          BY <4>1, <4>2, <4>3, InsideRegion DEF Starts, Ends
      <3>3. ASSUME NEW j \in D, Starts(map)[j] <= b, p <= Ends(map)[j] - PAGE_SIZE
            PROVE  FALSE
        <4>1. b + PAGE_SIZE <= Ends(map)[j]
          BY <1>1, <2>1, <3>2, <3>3
        <4> QED
          BY <2>1, <2>4, <3>3, <4>1 DEF CorePages, PagesInside
      <3>4. ASSUME NEW j \in D
            PROVE  (/\ FirstPage(map[j]) <= LastPage(map[j])
                    /\ FirstPage(map[j]) < p
                    /\ LastPage(map[j]) < p) <=> Ends(map)[j] <= p
        <4>1. Ends(map)[j] \in Nat /\ Ends(map)[j] \in ViewPages
          BY <3>2
        <4>2. p < Ends(map)[j] => p + PAGE_SIZE <= Ends(map)[j]
          BY <4>1, PagesApart
        <4> QED
          BY <1>1, <3>2, <4>1, <4>2
      <3>5. C = E
        <4>1. ScannedDescriptors(map) = D
          BY ScannedAreRanges
        <4>2. \A i \in D : Ends(map)[i] - PAGE_SIZE > 0
          BY <1>1, <3>2
        <4> HIDE DEF D
        <4> QED
          BY <3>2, <3>3, <3>4, <4>1, <4>2 DEF PreviousCandidates
      <3>6. /\ NearestBelow(V, p) = IF E = {} THEN p ELSE Max(E)
            /\ E \subseteq V
            /\ E # {} => Max(E) \in E
        BY <2>1, <2>4, RegionsAreRanges, NearestBelowIsEnd DEF CorePages
      <3> HIDE DEF C, E, D, V
      <3>7. C # {} => previous \in V /\ previous \in ViewPages
        BY <1>4, <3>1, <3>5, <3>6
      <3> QED
        BY <1>2, <1>3, <3>1, <3>5, <3>6, <3>7 DEF PageUpTarget
    <2> QED
      BY <2>3, <2>4
  <1> QED
    BY <1>5, <1>6

\* What the library computes for a region that its scans consider.
LEMMA LibRegion ==
    ASSUME NEW map, ConformingMap(map), NEW i \in LibRanges(map)
    PROVE  /\ i \in DOMAIN map
           /\ RoundedStart(map[i]) = Starts(map)[i]
           /\ DescriptorEnd(map[i]) = Ends(map)[i]
           /\ AlignDown(DescriptorEnd(map[i]) - PAGE_SIZE, PAGE_SIZE) = Ends(map)[i] - PAGE_SIZE
           /\ DescriptorSize(map[i]) >= PAGE_SIZE
           /\ Starts(map)[i] \in Nat /\ Ends(map)[i] \in Nat
           /\ Ends(map)[i] \in ViewPages
           /\ Starts(map)[i] + PAGE_SIZE <= Ends(map)[i] - PAGE_SIZE
  <1> DEFINE d == map[i]
  <1>1. i \in DOMAIN map /\ Conforming(d) /\ End(d) <= MaxU64
    BY DEF LibRanges, ConformingMap
  <1>2. PAGE_SIZE \in Nat \ {0}
    BY Sizes
  <1>3. Starts(map)[i] = d.start /\ Ends(map)[i] = End(d)
    BY <1>1 DEF Starts, Ends
  <1> HIDE DEF d
  <1>4. /\ d.start \in Nat /\ d.start \in ViewPages /\ End(d) \in Nat /\ End(d) \in ViewPages
        /\ d.start + 2 * PAGE_SIZE <= End(d) /\ d.pages * EFI_PAGE \in Nat
    BY <1>1, ConformingRange, ViewPagesAreNat
  <1>5. d.start + PAGE_SIZE <= End(d) - PAGE_SIZE /\ End(d) >= PAGE_SIZE
    BY <1>2, <1>4
  <1>6. DescriptorSize(d) = d.pages * EFI_PAGE /\ DescriptorEnd(d) = End(d)
    BY <1>1, InsideRegion
  <1>7. DescriptorSize(d) >= PAGE_SIZE
    <2> DEFINE size == d.pages * EFI_PAGE
    <2>1. End(d) = d.start + size /\ size \in Nat
      BY <1>4 DEF End
    <2> HIDE DEF size
    <2>2. size >= PAGE_SIZE
      BY <1>2, <1>4, <1>5, <2>1
    <2> QED
      BY <1>6, <2>2 DEF size
  <1>8. RoundedStart(d) = d.start
    BY <1>4, AlignDownOfViewPage DEF RoundedStart
  <1>9. AlignDown(End(d) - PAGE_SIZE, PAGE_SIZE) = End(d) - PAGE_SIZE
    BY <1>4, <1>5, NeighbourPages, AlignDownOfViewPage
  <1> QED
    BY <1>1, <1>3, <1>4, <1>5, <1>6, <1>7, <1>8, <1>9 DEF d

\* The library's search upwards.
LEMMA LibFindsAbove ==
    ASSUME NEW map, ConformingMap(map), map # <<>>, NEW p \in ViewPages
    PROVE  GetNextValidPageAddress(map, p) = NearestAbove(LibPages(map), p)
  <1> DEFINE n == p + PAGE_SIZE
             L == LibPages(map)
             D == LibRanges(map)
             C == {c \in {RoundedStart(map[i]) : i \in
                     {j \in LibDescriptors(map) :
                        RoundedStart(map[j]) + PAGE_SIZE <= DescriptorEnd(map[j])}} :
                     c >= n}
             S == {Starts(map)[i] : i \in {j \in D : n <= Starts(map)[j]}}
             next == GetNextValidPageAddress(map, p)
  <1>1. /\ p \in Nat /\ PAGE_SIZE \in Nat \ {0} /\ MaxU64 \in Nat
        /\ p + PAGE_SIZE <= MaxU64 + 1 /\ AlignDown(p, PAGE_SIZE) = p
    BY ViewPageFits, Sizes, AlignDownOfViewPage
  <1>2. next = IF p > MaxU64 - PAGE_SIZE THEN p
               ELSE IF IsPageValid(map, n) THEN n
               ELSE IF C = {} THEN p ELSE Min(C)
    BY <1>1 DEF GetNextValidPageAddress
  <1>3. L \subseteq ViewPages
    BY DEF LibPages, PagesInside
  <1>4. CASE p > MaxU64 - PAGE_SIZE
    <2>1. ~ (p + 2 * PAGE_SIZE <= MaxU64)
      BY <1>1, <1>4
    <2> QED
      BY <1>2, <1>4, <2>1, NothingAbove
  <1>5. CASE ~ (p > MaxU64 - PAGE_SIZE)
    <2>1. n \in ViewPages /\ n \in Nat
      BY <1>1, <1>5, NeighbourPages
    <2>2. IsPageValid(map, n) <=> n \in L
      BY <2>1, LibPageCheck
    <2>3. CASE n \in L
      BY <1>2, <1>3, <1>5, <2>2, <2>3, NearestAboveIsNext
    <2>4. CASE n \notin L
      <3>1. \A i \in D : /\ RoundedStart(map[i]) = Starts(map)[i]
                         /\ Starts(map)[i] \in Nat
                         /\ Starts(map)[i] + PAGE_SIZE <= DescriptorEnd(map[i])
        <4> TAKE i \in D
        <4>1. /\ RoundedStart(map[i]) = Starts(map)[i] /\ DescriptorEnd(map[i]) = Ends(map)[i]
              /\ Starts(map)[i] \in Nat /\ Ends(map)[i] \in Nat
              /\ Starts(map)[i] + PAGE_SIZE <= Ends(map)[i] - PAGE_SIZE
          BY LibRegion
        <4> QED
          BY <1>1, <4>1
      <3>2. C = S
        <4>1. LibDescriptors(map) = D
          BY LibDescriptorsAreRanges
        <4> HIDE DEF D
        <4>2. \A i \in D : Starts(map)[i] >= n <=> n <= Starts(map)[i]
          BY <2>1, <3>1
        <4> QED
          BY <3>1, <4>1, <4>2
      <3>3. NearestAbove(L, p) = IF S = {} THEN p ELSE Min(S)
        BY <2>1, <2>4, RegionsAreRanges, NearestAboveIsStart DEF LibPages
      <3> QED
        BY <1>2, <1>5, <2>2, <2>4, <3>2, <3>3
    <2> QED
      BY <2>3, <2>4
  <1> QED
    BY <1>4, <1>5

\* The library's search downwards.
LEMMA LibFindsBelow ==
    ASSUME NEW map, ConformingMap(map), map # <<>>, NEW p \in ViewPages
    PROVE  GetPreviousValidPageAddress(map, p) = NearestBelow(LibPages(map), p)
  <1> DEFINE b == p - PAGE_SIZE
             L == LibPages(map)
             D == LibRanges(map)
             last(d) == AlignDown(DescriptorEnd(d) - PAGE_SIZE, PAGE_SIZE)
             C == {IF b < last(map[i]) THEN b ELSE last(map[i]) : i \in
                     {j \in LibDescriptors(map) :
                         /\ DescriptorSize(map[j]) >= PAGE_SIZE
                         /\ RoundedStart(map[j]) <= last(map[j])
                         /\ RoundedStart(map[j]) <= b}}
             E == {Ends(map)[i] - PAGE_SIZE : i \in {j \in D : Ends(map)[j] <= p}}
             previous == GetPreviousValidPageAddress(map, p)
  <1>1. /\ p \in Nat /\ PAGE_SIZE \in Nat \ {0} /\ AlignDown(p, PAGE_SIZE) = p
    BY ViewPageFits, Sizes, AlignDownOfViewPage
  <1>2. previous = IF p < PAGE_SIZE THEN p
                   ELSE IF IsPageValid(map, b) THEN b
                   ELSE IF C = {} THEN p ELSE Max(C)
    BY <1>1 DEF GetPreviousValidPageAddress
  <1>3. L \subseteq ViewPages
    BY DEF LibPages, PagesInside
  <1>4. CASE p < PAGE_SIZE
    <2>1. \A q \in L : ~ (q < p)
      <3> TAKE q \in L
      <3>1. q \in ViewPages /\ q \in Nat
        BY <1>3, ViewPagesAreNat
      <3>2. q < p => q + PAGE_SIZE <= p
        BY <3>1, PagesApart
      <3> QED
        BY <1>1, <1>4, <3>1, <3>2
    <2>2. NearestBelow(L, p) = p
      BY <2>1 DEF NearestBelow
    <2> QED
      BY <1>2, <1>4, <2>2
  <1>5. CASE ~ (p < PAGE_SIZE)
    <2>1. b \in ViewPages /\ b \in Nat /\ b + PAGE_SIZE = p
      BY <1>1, <1>5, NeighbourPages
    <2>2. IsPageValid(map, b) <=> b \in L
      BY <2>1, LibPageCheck
    <2>3. CASE b \in L
      BY <1>2, <1>3, <1>5, <2>2, <2>3, NearestBelowIsPrevious
    <2>4. CASE b \notin L
      <3>1. \A i \in D : /\ RoundedStart(map[i]) = Starts(map)[i]
                         /\ last(map[i]) = Ends(map)[i] - PAGE_SIZE
                         /\ DescriptorSize(map[i]) >= PAGE_SIZE
                         /\ Starts(map)[i] \in Nat /\ Ends(map)[i] \in Nat
                         /\ Ends(map)[i] \in ViewPages
                         /\ Starts(map)[i] + PAGE_SIZE <= Ends(map)[i] - PAGE_SIZE
        BY LibRegion
      <3> HIDE DEF last
      <3>2. ASSUME NEW i \in D, Starts(map)[i] <= b
            PROVE  Ends(map)[i] <= p /\ ~ (b < Ends(map)[i] - PAGE_SIZE)
        <4>1. ~ (b + PAGE_SIZE <= Ends(map)[i])
          BY <2>1, <2>4, <3>2 DEF LibPages, PagesInside
        <4>2. Ends(map)[i] \in Nat
          BY <3>1
        <4> QED
          BY <1>1, <2>1, <4>1, <4>2
      <3>3. \A i \in D : Starts(map)[i] <= b <=> Ends(map)[i] <= p
        <4> TAKE i \in D
        <4>1. Ends(map)[i] <= p => Starts(map)[i] <= b
          BY <1>1, <2>1, <3>1
        <4> QED
          BY <3>2, <4>1
      <3>4. C = E
        <4>1. LibDescriptors(map) = D
          BY LibDescriptorsAreRanges
        <4> HIDE DEF D
        <4>2. \A i \in D : Starts(map)[i] <= Ends(map)[i] - PAGE_SIZE
          BY <1>1, <3>1
        <4>3. {j \in LibDescriptors(map) :
                 /\ DescriptorSize(map[j]) >= PAGE_SIZE
                 /\ RoundedStart(map[j]) <= last(map[j])
                 /\ RoundedStart(map[j]) <= b} = {j \in D : Ends(map)[j] <= p}
          BY <3>1, <3>3, <4>1, <4>2
        <4>4. \A i \in {j \in D : Ends(map)[j] <= p} :
                 (IF b < last(map[i]) THEN b ELSE last(map[i])) = Ends(map)[i] - PAGE_SIZE
          BY <3>1, <3>2, <3>3
        <4> QED
          BY <4>3, <4>4
      <3>5. NearestBelow(L, p) = IF E = {} THEN p ELSE Max(E)
        BY <2>1, <2>4, RegionsAreRanges, NearestBelowIsEnd DEF LibPages
      <3> HIDE DEF C, E
      <3> QED
        BY <1>2, <1>5, <2>2, <2>4, <3>4, <3>5
    <2> QED
      BY <2>3, <2>4
  <1> QED
    BY <1>4, <1>5

-----------------------------------------------------------------------------
(* The theorems.                                                           *)

\* The maps of the page and of the library conform.
LEMMA MapsConform ==
    ASSUME NEW m \in Maps
    PROVE  /\ ConformingMap(m)
           /\ ConformingMap(AdapterMap(m))
  <1>1. CASE m = <<>>
    <2>1. DOMAIN m = {}
      BY <1>1
    <2>2. DOMAIN AdapterMap(m) = {}
      BY <2>1 DEF AdapterMap
    <2> QED
      BY <2>1, <2>2 DEF ConformingMap
  <1>2. CASE m \in MemoryMaps
    <2>1. m \in Seq(EfiDescriptor) /\ \A i \in DOMAIN m : Conforming(m[i])
      BY <1>2, PageMemAssumption
    <2>2. DOMAIN m \subseteq Nat
      BY <2>1
    <2>3. DOMAIN AdapterMap(m) \subseteq DOMAIN m
      BY DEF AdapterMap
    <2>4. \A i \in DOMAIN AdapterMap(m) : Conforming(AdapterMap(m)[i])
      BY <2>1, <2>3 DEF AdapterMap, Conforming
    <2> QED
      BY <2>1, <2>2, <2>3, <2>4 DEF ConformingMap
  <1> QED
    BY <1>1, <1>2 DEF Maps

\* With room for the whole map Core and the library know the same pages.
LEMMA SamePages ==
    ASSUME NEW m \in MemoryMaps, Len(m) <= MaxDescriptors
    PROVE  CorePages(AdapterMap(m)) = LibPages(m)
  <1> DEFINE a == AdapterMap(m)
  <1>1. m \in Seq(EfiDescriptor) /\ DOMAIN m = 1 .. Len(m) /\ Len(m) \in Nat
    BY PageMemAssumption
  <1>2. DOMAIN a = DOMAIN m
    BY <1>1, PageMemAssumption DEF AdapterMap
  <1>3. \A i \in DOMAIN m : /\ a[i].type = MapMemoryType(m[i].type)
                           /\ a[i].start = m[i].start /\ a[i].pages = m[i].pages
    BY <1>1, PageMemAssumption DEF AdapterMap
  <1> HIDE DEF a
  <1>4. \A i \in DOMAIN m : IsDescriptorValid(a[i]) <=> m[i].type \in BrowsableTypes
    <2>1. ASSUME NEW t \in EfiTypes
          PROVE  MapMemoryType(t) \in CoreTypes \ {"Other"} <=> t \in BrowsableTypes
      <3>1. CASE t \in IoTypes
        <4>1. t \notin RamTypes \cup AcpiTypes
          BY <3>1 DEF IoTypes, RamTypes, AcpiTypes
        <4>2. MapMemoryType(t) = "MMIO"
          BY <3>1, <4>1 DEF MapMemoryType
        <4> QED
          BY <3>1, <4>2 DEF CoreTypes, BrowsableTypes
      <3>2. CASE t \in RamTypes \cup AcpiTypes
        <4>1. t \notin IoTypes /\ t # "Other"
          BY <3>2 DEF IoTypes, RamTypes, AcpiTypes
        <4>2. MapMemoryType(t) = t
          BY <3>2, <4>1 DEF MapMemoryType
        <4> QED
          BY <3>2, <4>1, <4>2 DEF CoreTypes, BrowsableTypes
      <3>3. CASE t \notin IoTypes /\ t \notin RamTypes \cup AcpiTypes
        <4>1. MapMemoryType(t) = "Other"
          BY <3>3 DEF MapMemoryType
        <4> QED
          BY <3>3, <4>1 DEF BrowsableTypes
      <3> QED
        BY <3>1, <3>2, <3>3
    <2>2. \A i \in DOMAIN m : m[i] \in EfiDescriptor
      BY <1>1
    <2>3. \A d \in EfiDescriptor : d.type \in EfiTypes
      BY DEF EfiDescriptor
    <2> QED
      BY <1>3, <2>1, <2>2, <2>3 DEF IsDescriptorValid
  <1>5. Starts(a) = Starts(m) /\ Ends(a) = Ends(m)
    BY <1>2, <1>3 DEF Starts, Ends, End
  <1>6. CoreRanges(a) = LibRanges(m)
    BY <1>2, <1>3, <1>4 DEF CoreRanges, LibRanges, ValidDescriptors, End
  <1>7. CorePages(a) = LibPages(m)
    BY <1>5, <1>6 DEF CorePages, LibPages
  <1> QED
    BY <1>7 DEF a

\* The two implementations of the navigation, Core's over the adapter's map
\* and the library's over its own, agree for every conforming map that fits.
THEOREM NavigationsAlwaysAgree == Spec => []NavigationsAgree
  <1>1. TypeOK => NavigationsAgree
    <2> SUFFICES ASSUME TypeOK, pc # "menu", Len(memMap) <= MaxDescriptors
                 PROVE  /\ PageDownTarget(coreMap, cursor.Address)
                              = GetNextValidPageAddress(memMap, cursor.Address)
                        /\ PageUpTarget(coreMap, cursor.Address)
                              = GetPreviousValidPageAddress(memMap, cursor.Address)
      BY DEF NavigationsAgree
    <2>1. /\ memMap \in MemoryMaps /\ memMap # <<>> /\ memMap \in Maps
          /\ coreMap = AdapterMap(memMap) /\ cursor.Address \in ViewPages
      BY DEF TypeOK, Maps, Cursors
    <2>2. ConformingMap(memMap) /\ ConformingMap(coreMap)
      BY <2>1, MapsConform
    <2>3. ValidPages(coreMap) = LibPages(memMap)
      BY <2>1, <2>2, SamePages, ValidPagesAreInside
    <2> QED
      BY <2>1, <2>2, <2>3, CoreFindsAbove, CoreFindsBelow, LibFindsAbove, LibFindsBelow
  <1> QED
    BY <1>1, TypeCorrect, PTL

\* N and P move the cursor to the page that the caller's check lets through.
LEMMA PageKeyTargets ==
    ASSUME TypeOK
    PROVE  /\ PageDownKey => cursor'.Address = PageDownTarget(coreMap, cursor.Address)
           /\ PageUpKey   => cursor'.Address = PageUpTarget(coreMap, cursor.Address)
           /\ PageDownKey \/ PageUpKey =>
                pc = "key" /\ pc' = "loop" /\ coreMap' = coreMap
  <1>1. \A p : MoveToPage(p) => cursor'.Address = p /\ pc = "key" /\ pc' = "loop" /\ coreMap' = coreMap
    BY DEF MoveToPage, TypeOK, Cursors, maps
  <1> QED
    BY <1>1 DEF PageDownKey, PageUpKey

\* While a page is open the keys find the nearest pages.
LEMMA KeysFindNearest ==
    ASSUME TypeOK
    PROVE  /\ PageDownKey => cursor'.Address = NearestAbove(ValidPages(coreMap), cursor.Address)
           /\ PageUpKey   => cursor'.Address = NearestBelow(ValidPages(coreMap), cursor.Address)
  <1> SUFFICES ASSUME PageDownKey \/ PageUpKey
               PROVE  /\ PageDownTarget(coreMap, cursor.Address)
                            = NearestAbove(ValidPages(coreMap), cursor.Address)
                      /\ PageUpTarget(coreMap, cursor.Address)
                            = NearestBelow(ValidPages(coreMap), cursor.Address)
    BY PageKeyTargets
  <1>1. pc # "menu"
    BY PageKeyTargets
  <1>2. memMap \in Maps /\ coreMap = AdapterMap(memMap) /\ cursor.Address \in ViewPages
    BY <1>1 DEF TypeOK, Maps, Cursors
  <1> QED
    BY <1>2, MapsConform, CoreFindsAbove, CoreFindsBelow

\* For every conforming map, whatever its order and its overlaps, N and P go
\* to the nearest valid page and stay exactly where there is none, up to the
\* last pages of the address space, where Core's end of a page wraps.
THEOREM PageKeysGoToNearest == Spec => PageKeysFindNearest
  <1>1. TypeOK /\ [Next]_vars =>
          [/\ PageDownKey => cursor'.Address = NearestAbove(ValidPages(coreMap), cursor.Address)
           /\ PageUpKey   => cursor'.Address = NearestBelow(ValidPages(coreMap), cursor.Address)]_vars
    BY KeysFindNearest
  <1> QED
    BY <1>1, TypeCorrect, PTL DEF Spec, PageKeysFindNearest

-----------------------------------------------------------------------------
(* PageMem implements PageBrowser.                                         *)

\* The abstract variables of a state.
BrowserState == CASE pc = "menu" -> "closed"
                  [] pc = "gotoHex" -> "asking"
                  [] OTHER -> "viewing"
BrowserValid == IF pc = "menu" THEN {} ELSE ValidPages(coreMap)

\* The abstract state by the place where the program waits.
LEMMA BrowserStates ==
    /\ pc = "menu" => BrowserState = "closed" /\ BrowserValid = {}
    /\ pc = "gotoHex" => BrowserState = "asking" /\ BrowserValid = ValidPages(coreMap)
    /\ pc \in {"loop", "key", "editHex", "ranges"} =>
            BrowserState = "viewing" /\ BrowserValid = ValidPages(coreMap)
  BY DEF BrowserState, BrowserValid

\* The same of the next state.
LEMMA BrowserNextStates ==
    /\ pc' = "menu" => BrowserState' = "closed" /\ BrowserValid' = {}
    /\ pc' = "gotoHex" => BrowserState' = "asking" /\ BrowserValid' = ValidPages(coreMap')
    /\ pc' \in {"loop", "key", "editHex", "ranges"} =>
            BrowserState' = "viewing" /\ BrowserValid' = ValidPages(coreMap')
  BY DEF BrowserState, BrowserValid

\* The abstract actions, in the terms of the state.
LEMMA BrowserNext ==
    LET page == cursor.Address
        above == {q \in BrowserValid : q > page}
        below == {q \in BrowserValid : q < page}
    IN  Browser!Next <=>
        \/ /\ BrowserState = "closed" /\ BrowserState' = "viewing"
           /\ BrowserValid' \in SUBSET ViewPages /\ page' \in ViewPages
        \/ /\ BrowserState = "viewing" /\ above # {} /\ page' = Min(above)
           /\ UNCHANGED <<BrowserState, BrowserValid>>
        \/ /\ BrowserState = "viewing" /\ below # {} /\ page' = Max(below)
           /\ UNCHANGED <<BrowserState, BrowserValid>>
        \/ /\ BrowserState = "viewing" /\ BrowserState' = "asking"
           /\ UNCHANGED <<BrowserValid, page>>
        \/ /\ BrowserState = "asking" /\ BrowserState' = "viewing"
           /\ page' \in ViewPages /\ UNCHANGED BrowserValid
        \/ /\ BrowserState = "viewing" /\ BrowserState' = "closed"
           /\ BrowserValid' = {} /\ page' = 0
  BY DEF Browser!Next, Browser!Open, Browser!TurnForward, Browser!TurnBack, Browser!Ask,
         Browser!Answer, Browser!Close, Browser!Above, Browser!Below, Browser!Min,
         Browser!Max, Min, Max, BrowserState, BrowserValid

\* A step that changes neither the page nor its state is a stutter.
LEMMA BrowserStutters ==
    ASSUME cursor'.Address = cursor.Address, coreMap' = coreMap,
           \/ pc' = pc
           \/ {pc, pc'} \subseteq {"loop", "key", "editHex", "ranges"}
    PROVE  UNCHANGED <<BrowserState, BrowserValid, cursor.Address>>
  <1>1. CASE pc' = pc
    BY <1>1 DEF BrowserState, BrowserValid
  <1>2. CASE {pc, pc'} \subseteq {"loop", "key", "editHex", "ranges"}
    BY <1>2, BrowserStates, BrowserNextStates
  <1> QED
    BY <1>1, <1>2

\* Every step is one of the abstract viewer's, or one it does not see.
LEMMA StepBrowser ==
    TypeOK /\ TypeOK' /\ [Next]_vars =>
        Browser!Next \/ UNCHANGED <<BrowserState, BrowserValid, cursor.Address>>
  <1> SUFFICES ASSUME TypeOK, TypeOK', [Next]_vars
               PROVE  Browser!Next \/ UNCHANGED <<BrowserState, BrowserValid, cursor.Address>>
    OBVIOUS
  <1> DEFINE Stutters == UNCHANGED <<BrowserState, BrowserValid, cursor.Address>>
             Viewing  == {"loop", "key", "editHex", "ranges"}
  <1>a. /\ cursor.Address \in ViewPages /\ cursor'.Address \in ViewPages
        /\ ValidPages(coreMap) \subseteq ViewPages /\ ValidPages(coreMap') \subseteq ViewPages
    BY DEF TypeOK, Cursors, ValidPages
  <1>b. ASSUME cursor'.Address = cursor.Address, coreMap' = coreMap,
               pc' = pc \/ {pc, pc'} \subseteq Viewing
        PROVE  Stutters
    BY <1>b, BrowserStutters
  <1>c. cursor \in Cursors
    BY DEF TypeOK
  <1>1. CASE \E m \in MemoryMaps : EnterPage(m)
    <2>1. pc = "menu" /\ pc' = "loop"
      BY <1>1 DEF EnterPage
    <2>2. BrowserState = "closed" /\ BrowserState' = "viewing" /\ BrowserValid' = ValidPages(coreMap')
      BY <2>1, BrowserStates, BrowserNextStates
    <2> QED
      BY <2>2, <1>a, BrowserNext
  <1>2. CASE EnterFails
    BY <1>2, <1>b DEF EnterFails, maps
  <1>3. CASE DrawAndWait
    BY <1>3, <1>b DEF DrawAndWait, maps
  <1>4. CASE \E arrow \in {"up", "down", "left", "right"} : ArrowKey(arrow)
    <2>1. cursor'.Address = cursor.Address
      BY <1>4, <1>c DEF ArrowKey, PageCoreMoveCursor, Cursors
    <2> QED
      BY <1>4, <1>b, <2>1 DEF ArrowKey, maps
  <1>5. CASE \E w \in Widths : WidthKey(w)
    <2>1. cursor'.Address = cursor.Address
      BY <1>5, <1>c DEF WidthKey, PageCoreSetCursorWidth, Cursors
    <2> QED
      BY <1>5, <1>b, <2>1 DEF WidthKey, maps
  <1>6. CASE EditKey \/ EditRefused
    BY <1>6, <1>b DEF EditKey, EditRefused, maps
  <1>7. CASE (\E v \in Values(cursor) : EditSubmit(v)) \/ EditFails \/ EditCancel
    BY <1>7, <1>b DEF EditSubmit, EditFails, EditCancel, EditEnds, maps
  <1>8. CASE GotoKey
    <2>1. pc = "key" /\ pc' = "gotoHex" /\ coreMap' = coreMap /\ cursor' = cursor
      BY <1>8 DEF GotoKey, maps
    <2>2. BrowserState = "viewing" /\ BrowserState' = "asking" /\ BrowserValid' = BrowserValid
      BY <2>1, BrowserStates, BrowserNextStates
    <2> QED
      BY <2>1, <2>2, BrowserNext
  <1>9. CASE (\E a \in Word : GotoSubmit(a)) \/ GotoCancel
    <2>1. pc = "gotoHex" /\ pc' = "loop" /\ coreMap' = coreMap
      BY <1>9 DEF GotoSubmit, GotoCancel, GotoEnds, maps
    <2>2. BrowserState = "asking" /\ BrowserState' = "viewing" /\ BrowserValid' = BrowserValid
      BY <2>1, BrowserStates, BrowserNextStates
    <2> QED
      BY <1>a, <2>2, BrowserNext
  <1>10. CASE PageDownKey
    <2> DEFINE above == {q \in ValidPages(coreMap) : q > cursor.Address}
    <2>1. /\ cursor'.Address = NearestAbove(ValidPages(coreMap), cursor.Address)
          /\ pc = "key" /\ pc' = "loop" /\ coreMap' = coreMap
      BY <1>10, KeysFindNearest, PageKeyTargets
    <2>2. CASE above = {}
      <3>1. cursor'.Address = cursor.Address
        BY <2>1, <2>2 DEF NearestAbove
      <3> QED
        BY <3>1, <2>1, <1>b
    <2>3. CASE above # {}
      <3>1. cursor'.Address = Min(above)
        BY <2>1, <2>3 DEF NearestAbove
      <3>2. /\ BrowserState = "viewing" /\ BrowserState' = "viewing"
            /\ BrowserValid = ValidPages(coreMap) /\ BrowserValid' = BrowserValid
        BY <2>1, BrowserStates, BrowserNextStates
      <3> QED
        BY <2>3, <3>1, <3>2, BrowserNext
    <2> QED
      BY <2>2, <2>3
  <1>11. CASE PageUpKey
    <2> DEFINE below == {q \in ValidPages(coreMap) : q < cursor.Address}
    <2>1. /\ cursor'.Address = NearestBelow(ValidPages(coreMap), cursor.Address)
          /\ pc = "key" /\ pc' = "loop" /\ coreMap' = coreMap
      BY <1>11, KeysFindNearest, PageKeyTargets
    <2>2. CASE below = {}
      <3>1. cursor'.Address = cursor.Address
        BY <2>1, <2>2 DEF NearestBelow
      <3> QED
        BY <3>1, <2>1, <1>b
    <2>3. CASE below # {}
      <3>1. cursor'.Address = Max(below)
        BY <2>1, <2>3 DEF NearestBelow
      <3>2. /\ BrowserState = "viewing" /\ BrowserState' = "viewing"
            /\ BrowserValid = ValidPages(coreMap) /\ BrowserValid' = BrowserValid
        BY <2>1, BrowserStates, BrowserNextStates
      <3> QED
        BY <2>3, <3>1, <3>2, BrowserNext
    <2> QED
      BY <2>2, <2>3
  <1>12. CASE RangesKey \/ RangesReturn \/ OtherKey
    BY <1>12, <1>b DEF RangesKey, RangesReturn, OtherKey, maps
  <1>13. CASE EscKey
    <2>1. pc = "key" /\ pc' = "menu" /\ cursor'.Address = 0
      BY <1>13 DEF EscKey, NoCursor
    <2>2. BrowserState = "viewing" /\ BrowserState' = "closed" /\ BrowserValid' = {}
      BY <2>1, BrowserStates, BrowserNextStates
    <2> QED
      BY <2>1, <2>2, BrowserNext
  <1>14. CASE \E p \in EfiPages, A \in AttributeChoices : FirmwareSetsAttributes(p, A)
    BY <1>14, <1>b DEF FirmwareSetsAttributes, maps
  <1>15. CASE UNCHANGED vars
    BY <1>15, <1>b DEF vars, maps
  <1> QED
    BY <1>1, <1>2, <1>3, <1>4, <1>5, <1>6, <1>7, <1>8, <1>9, <1>10, <1>11, <1>12, <1>13,
       <1>14, <1>15 DEF Next

\* For every conforming map PageMem implements the abstract viewer: only N, P
\* and an answered Goto change the page, N and P to a neighbour.
THEOREM PageMemIsBrowser == Spec => ImplementsPageBrowser
  <1>1. Init => Browser!Init
    BY DEF Init, Browser!Init, NoCursor
  <1>2. TypeOK /\ TypeOK' /\ [Next]_vars => [Browser!Next]_Browser!browser
    BY StepBrowser DEF Browser!browser, BrowserState, BrowserValid
  <1> QED
    BY <1>1, <1>2, TypeCorrect, PTL DEF Spec, ImplementsPageBrowser, Browser!Spec
=============================================================================
