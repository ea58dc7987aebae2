--------------------------- MODULE MemInitProofs ----------------------------
(***************************************************************************)
(* Opening the page is re-entrant: for any maps the firmware may have, any *)
(* capacity and any number of openings, no buffer is lost, sizes and       *)
(* buffers agree, and the page works on a snapshot of the firmware's map.  *)
(***************************************************************************)
EXTENDS MemInit, TLAPS

\* The maps the bridge may hold.
Copies == {FirstDescriptors(m, Len(m)) : m \in FirmwareMaps \cup {<<>>}}

\* What the library's buffer is at each point of InitMemoryMap.
BufferInv ==
    /\ pc = "sized" => gMemMap = NoBuffer
    /\ pc = "allocated" => gMemMap = Garbage

\* What the page is about to work on, or does, and where it comes from: while
\* an opening is under way the firmware's map is one of this opening's.
OpeningInv ==
    /\ pc \in {"sized", "allocated"} => fwMap \in mapsSince
    /\ OpensOnMapOfThisOpening

InitInv == TypeOK /\ BufferInv /\ NoBufferIsLost /\ SizeFitsBuffer /\ OpeningInv

\* A map is a nonempty sequence and neither of the two marks.
LEMMA MapFacts ==
    ASSUME NEW m \in FirmwareMaps
    PROVE  /\ m \in Seq(Descriptors)
           /\ Len(m) \in Nat /\ m # <<>>
           /\ m # NoBuffer /\ m # Garbage
  BY MemInitAssumption

\* The two marks differ.
LEMMA MarksDiffer == NoBuffer # Garbage
  <1>1. NoBuffer[1] # Garbage[1]
    BY DEF NoBuffer, Garbage
  <1> QED
    BY <1>1

\* What is copied once is copied the second time as it is: the adapter has as
\* much room as the bridge.
LEMMA CopyOfCopy ==
    ASSUME NEW m \in Seq(Descriptors)
    PROVE  LET c == FirstDescriptors(m, Len(m)) IN
           /\ c \in Seq(Descriptors)
           /\ FirstDescriptors(c, Len(c)) = c
  <1> DEFINE c == FirstDescriptors(m, Len(m))
             n == IF Len(m) < MaxDescriptors THEN Len(m) ELSE MaxDescriptors
  <1>1. n \in Nat /\ n <= Len(m) /\ n <= MaxDescriptors /\ MaxDescriptors \in Nat
    BY MemInitAssumption
  <1>2. c = SubSeq(m, 1, n)
    BY DEF FirstDescriptors
  <1> HIDE DEF n, c
  <1>3. c \in Seq(Descriptors) /\ Len(c) = n
    BY <1>1, <1>2
  <1>4. FirstDescriptors(c, Len(c)) = SubSeq(c, 1, n)
    BY <1>1, <1>3 DEF FirstDescriptors
  <1>5. SubSeq(c, 1, n) = c
    BY <1>1, <1>3
  <1> QED
    BY <1>3, <1>4, <1>5 DEF c

\* The answers of the first call.
LEMMA AskForSizeInv ==
    ASSUME InitInv, NEW slack \in Slack, AskForSize(slack)
    PROVE  InitInv'
  <1> DEFINE answer == GetMemoryMap(gMemMapSize, NoBuffer, slack)
  <1>1. slack \in Nat /\ Len(fwMap) \in Nat
    BY MapFacts, MemInitAssumption DEF InitInv, TypeOK
  <1>2. /\ answer.size \in Nat
        /\ answer.status \in {"BUFFER_TOO_SMALL", "INVALID_PARAMETER"}
    BY <1>1 DEF GetMemoryMap
  <1>3. gMemMap' = NoBuffer /\ pools' = 0 /\ capacity' = 0
    BY DEF InitInv, NoBufferIsLost, AskForSize
  <1>4. /\ gMemMapSize' \in Nat
        /\ mapsSince' = {fwMap} /\ fwMap' = fwMap /\ fwMap \in FirmwareMaps
        /\ status' \in {"SUCCESS", "BUFFER_TOO_SMALL", "INVALID_PARAMETER", "OUT_OF_RESOURCES"}
        /\ pc' \in {"sized", "idle"}
    BY <1>2 DEF AskForSize, InitInv, TypeOK
  <1>5. openings' \in 0 .. MaxOpenings
    BY MemInitAssumption DEF InitInv, TypeOK, AskForSize
  <1> HIDE DEF answer
  <1>6. TypeOK'
    BY <1>3, <1>4, <1>5 DEF InitInv, TypeOK, AskForSize
  <1> QED
    BY <1>3, <1>4, <1>6
       DEF InitInv, BufferInv, NoBufferIsLost, SizeFitsBuffer, OpeningInv, OpensOnMapOfThisOpening

\* The buffer is as large as the size that is remembered.
LEMMA AllocateInv ==
    ASSUME InitInv, Allocate
    PROVE  InitInv'
  <1>1. /\ gMemMap = NoBuffer /\ pools = 0
        /\ gMemMapSize' \in Nat /\ capacity' = gMemMapSize'
    BY DEF InitInv, TypeOK, BufferInv, NoBufferIsLost, Allocate
  <1>2. TypeOK'
    BY <1>1 DEF InitInv, TypeOK, Allocate
  <1> QED
    BY <1>1, <1>2, MarksDiffer
       DEF Allocate, InitInv, BufferInv, NoBufferIsLost, SizeFitsBuffer, OpeningInv, OpensOnMapOfThisOpening

\* A map that is delivered fits the buffer, and its size is remembered.
LEMMA FetchMapInv ==
    ASSUME InitInv, NEW slack \in Slack, FetchMap(slack)
    PROVE  InitInv'
  <1> DEFINE answer == GetMemoryMap(gMemMapSize, gMemMap, slack)
  <1>1. /\ slack \in Nat /\ Len(fwMap) \in Nat /\ fwMap \in FirmwareMaps
        /\ gMemMapSize \in Nat /\ capacity \in Nat /\ gMemMapSize <= capacity
        /\ gMemMap = Garbage
    BY MapFacts, MemInitAssumption
       DEF InitInv, TypeOK, BufferInv, SizeFitsBuffer, FetchMap
  <1>2. CASE answer.status = "SUCCESS"
    <2>1. answer.size = Len(fwMap) /\ answer.buffer = fwMap /\ Len(fwMap) <= gMemMapSize
      BY <1>1, <1>2 DEF GetMemoryMap
    <2>2. /\ gMemMapSize' = Len(fwMap) /\ gMemMap' = fwMap /\ status' = "SUCCESS"
          /\ pc' = "fetched" /\ capacity' = capacity /\ pools' = pools
      BY <1>2, <2>1 DEF FetchMap
    <2>3. TypeOK'
      BY <1>1, <2>2 DEF InitInv, TypeOK, FetchMap
    <2>4. gMemMap' # NoBuffer /\ pools = 1
      BY <1>1, <2>2, MapFacts, MarksDiffer DEF InitInv, NoBufferIsLost
    <2>5. OpeningInv'
      <3>1. fwMap \in mapsSince /\ mapsSince' = mapsSince
        BY DEF FetchMap, InitInv, OpeningInv
      <3> QED
        BY <2>2, <3>1 DEF OpeningInv, OpensOnMapOfThisOpening
    <2> QED
      BY <1>1, <2>1, <2>2, <2>3, <2>4, <2>5
         DEF InitInv, BufferInv, NoBufferIsLost, SizeFitsBuffer, OpeningInv, OpensOnMapOfThisOpening
  <1>3. CASE answer.status # "SUCCESS"
    <2>1. /\ answer.size \in Nat /\ answer.buffer = Garbage
          /\ answer.status \in {"BUFFER_TOO_SMALL", "INVALID_PARAMETER"}
      BY <1>1, <1>3 DEF GetMemoryMap
    <2>2. /\ gMemMapSize' \in Nat /\ gMemMap' = Garbage /\ pc' = "idle"
          /\ status' \in {"BUFFER_TOO_SMALL", "INVALID_PARAMETER"}
      BY <1>3, <2>1 DEF FetchMap
    <2>3. TypeOK'
      BY <2>2 DEF InitInv, TypeOK, FetchMap
    <2> QED
      BY <1>1, <2>2, <2>3
         DEF FetchMap, InitInv, BufferInv, NoBufferIsLost, SizeFitsBuffer, OpeningInv, OpensOnMapOfThisOpening
  <1> QED
    BY <1>2, <1>3

\* Bridge and adapter end up with the same first descriptors.
LEMMA CopyDownInv ==
    ASSUME InitInv, CopyDown
    PROVE  InitInv'
  <1>1. gMemMap \in FirmwareMaps /\ gMemMapSize = Len(gMemMap)
    BY DEF InitInv, SizeFitsBuffer, CopyDown
  <1>2. bridge' = FirstDescriptors(gMemMap, Len(gMemMap)) /\ bridge' \in Copies
    BY <1>1 DEF CopyDown, Copies
  <1>3. core' = bridge'
    BY <1>1, <1>2, MapFacts, CopyOfCopy DEF CopyDown
  <1>4. TypeOK'
    BY <1>2, <1>3 DEF InitInv, TypeOK, CopyDown, Copies
  <1> QED
    BY <1>1, <1>2, <1>3, <1>4
       DEF CopyDown, InitInv, BufferInv, NoBufferIsLost, SizeFitsBuffer, OpeningInv, OpensOnMapOfThisOpening

\* Every step of an opening, failing or not, keeps the invariant.
LEMMA StepInitInv == InitInv /\ [Next]_vars => InitInv'
  <1> SUFFICES ASSUME InitInv, [Next]_vars PROVE InitInv'
    OBVIOUS
  <1>1. ASSUME NEW slack \in Slack, AskForSize(slack) PROVE InitInv'
    BY <1>1, AskForSizeInv
  <1>2. CASE Allocate
    BY <1>2, AllocateInv
  <1>3. CASE AllocateFails
    BY <1>3 DEF AllocateFails, InitInv, TypeOK, BufferInv, NoBufferIsLost,
                SizeFitsBuffer, OpeningInv, OpensOnMapOfThisOpening
  <1>4. ASSUME NEW slack \in Slack, FetchMap(slack) PROVE InitInv'
    BY <1>4, FetchMapInv
  <1>5. CASE CopyDown
    BY <1>5, CopyDownInv
  <1>6. CASE ClosePage
    BY <1>6 DEF ClosePage, InitInv, TypeOK, BufferInv, NoBufferIsLost,
                SizeFitsBuffer, OpeningInv, OpensOnMapOfThisOpening
  <1>7. CASE FirmwareChangesMap
    BY <1>7 DEF FirmwareChangesMap, InitInv, TypeOK, BufferInv, NoBufferIsLost,
                SizeFitsBuffer, OpeningInv, OpensOnMapOfThisOpening
  <1>8. CASE UNCHANGED vars
    BY <1>8 DEF vars, InitInv, TypeOK, BufferInv, NoBufferIsLost,
                SizeFitsBuffer, OpeningInv, OpensOnMapOfThisOpening
  <1> QED
    BY <1>1, <1>2, <1>3, <1>4, <1>5, <1>6, <1>7, <1>8 DEF Next

\* The invariant holds before the first opening.
LEMMA InitInitInv == Init => InitInv
  <1> SUFFICES ASSUME Init PROVE InitInv
    OBVIOUS
  <1>1. FirstDescriptors(<<>>, Len(<<>>)) = <<>>
    BY MemInitAssumption DEF FirstDescriptors
  <1>2. bridge \in Copies /\ core = bridge
    BY <1>1 DEF Init, Copies
  <1>3. TypeOK
    BY <1>2, MemInitAssumption DEF Init, TypeOK, Copies
  <1> QED
    BY <1>3 DEF Init, InitInv, BufferInv, NoBufferIsLost, SizeFitsBuffer, OpeningInv, OpensOnMapOfThisOpening

\* The invariant holds throughout.
LEMMA OpeningInvariant == Spec => []InitInv
  BY InitInitInv, StepInitInv, PTL DEF Spec

\* The variables of the library, the bridge and the adapter keep their types:
\* the bridge holds the first descriptors of some map the firmware may have,
\* as many as fit, and the adapter the same ones.
THEOREM OpeningTypeCorrect == Spec => []TypeOK
  <1>1. InitInv => TypeOK
    BY DEF InitInv
  <1> QED
    BY <1>1, OpeningInvariant, PTL

\* InitMemoryMap loses no pool buffer, wherever one of its calls fails.
THEOREM OpeningsLoseNoBuffer == Spec => []NoBufferIsLost
  <1>1. InitInv => NoBufferIsLost
    BY DEF InitInv
  <1> QED
    BY <1>1, OpeningInvariant, PTL

\* The size that the second GetMemoryMap is called with fits the buffer, and
\* the size kept with a map that is used is the map's own.
THEOREM OpeningsKeepSizes == Spec => []SizeFitsBuffer
  <1>1. InitInv => SizeFitsBuffer
    BY DEF InitInv
  <1> QED
    BY <1>1, OpeningInvariant, PTL

\* A page that opens works on a map that the firmware had since the opening
\* began, whatever earlier and failed openings left in the library, and on its
\* first descriptors in the adapter.
THEOREM OpeningIsFresh == Spec => []OpensOnMapOfThisOpening
  <1>1. InitInv => OpensOnMapOfThisOpening
    BY DEF InitInv, OpeningInv
  <1> QED
    BY <1>1, OpeningInvariant, PTL

-----------------------------------------------------------------------------
(* Refinement. *)

\* Each step of an opening is a step of the snapshot or changes nothing of it.
LEMMA StepIsSnapshotStep ==
    InitInv /\ InitInv' /\ [Next]_vars => [Snapshot!Next]_(Snapshot!snapshot)
  <1> SUFFICES ASSUME InitInv, InitInv', [Next]_vars
               PROVE  [Snapshot!Next]_(Snapshot!snapshot)
    OBVIOUS
  <1> USE DEF Snapshot!Next, Snapshot!snapshot
  <1>0. NoBuffer \notin FirmwareMaps /\ Garbage \notin FirmwareMaps
    BY MemInitAssumption
  <1>1. ASSUME NEW slack \in Slack, AskForSize(slack)
        PROVE  [Snapshot!Next]_(Snapshot!snapshot)
    <2>1. Snapshot!Forget
      BY <1>0, <1>1 DEF AskForSize, Snapshot!Forget
    <2> QED
      BY <2>1
  <1>2. CASE Allocate
    BY <1>0, <1>2 DEF Allocate, InitInv, BufferInv
  <1>3. CASE AllocateFails
    BY <1>0, <1>3 DEF AllocateFails, InitInv, BufferInv
  <1>4. ASSUME NEW slack \in Slack, FetchMap(slack)
        PROVE  [Snapshot!Next]_(Snapshot!snapshot)
    <2>1. /\ pc = "allocated" /\ pc' \in {"fetched", "idle"} /\ core' = core
          /\ gMemMap = Garbage
      BY <1>4 DEF FetchMap, InitInv, BufferInv
    <2>2. pc' = "idle" => gMemMap' = Garbage
      BY <1>4, <2>1 DEF FetchMap, GetMemoryMap
    <2> QED
      BY <1>0, <2>1, <2>2
  <1>5. CASE CopyDown
    <2>1. /\ pc = "fetched" /\ pc' = "open"
          /\ gMemMap \in FirmwareMaps /\ gMemMap' = gMemMap
          /\ gMemMapSize = Len(gMemMap) /\ gMemMapSize' = gMemMapSize
      BY <1>5 DEF CopyDown, InitInv, SizeFitsBuffer
    <2>2. core' = FirstDescriptors(gMemMap, Len(gMemMap))
      BY <2>1 DEF InitInv, OpeningInv, OpensOnMapOfThisOpening
    <2>3. Snapshot!Open
      BY <2>1, <2>2 DEF Snapshot!Open, Snapshot!Kept, FirstDescriptors
    <2> QED
      BY <2>3
  <1>6. CASE ClosePage
    <2>1. Snapshot!Close
      BY <1>6 DEF ClosePage, Snapshot!Close
    <2> QED
      BY <2>1
  <1>7. CASE FirmwareChangesMap
    BY <1>7 DEF FirmwareChangesMap
  <1>8. CASE UNCHANGED vars
    BY <1>8 DEF vars
  <1> QED
    BY <1>1, <1>2, <1>3, <1>4, <1>5, <1>6, <1>7, <1>8 DEF Next

\* Opening the page gives it a snapshot: one map the firmware had, whole in the
\* library and cut to its first descriptors in the adapter, until it closes.
THEOREM OpeningIsSnapshot == Spec => ImplementsMapSnapshot
  <1>1. Init => Snapshot!Init
    BY MemInitAssumption DEF Init, Snapshot!Init
  <1> QED
    BY <1>1, StepIsSnapshotStep, OpeningInvariant, PTL
       DEF Spec, ImplementsMapSnapshot, Snapshot!Spec
=============================================================================
