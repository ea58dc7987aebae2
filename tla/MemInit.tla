------------------------------- MODULE MemInit -------------------------------
(***************************************************************************)
(* How the firmware's memory map reaches the viewer each time the page is  *)
(* opened: InitMemoryMap in the library asks for the size, allocates and   *)
(* asks again; the bridge and the adapter then copy the descriptors down.  *)
(* The library's variables are static and survive from one opening to the  *)
(* next, and the firmware's map may change between any two calls: every    *)
(* allocation, the library's own included, can split a descriptor.         *)
(*                                                                         *)
(* The boot services are external.  Sizes are counted in descriptors.      *)
(***************************************************************************)
EXTENDS Integers, Sequences, FiniteSetsExt

CONSTANTS
    Descriptors,     \* the memory descriptors
    FirmwareMaps,    \* the maps the firmware may have: sequences of descriptors
    MaxDescriptors,  \* capacity of gBridgeDescriptors and gCoreDescriptors, 128
    Slack,           \* by how much the firmware may overestimate the buffer it needs
    MaxOpenings      \* bound: the times the page is opened

NoBuffer == <<"none">>
Garbage  == <<"garbage">>  \* an allocated buffer nothing was written to

ASSUME MemInitAssumption ==
    /\ FirmwareMaps \subseteq Seq(Descriptors) \ {<<>>, NoBuffer, Garbage}
    /\ MaxDescriptors \in Nat \ {0}
    /\ Slack \subseteq Nat
    /\ MaxOpenings \in Nat

VARIABLES
    fwMap,        \* the map the firmware would report now
    pc,           \* "idle", the three points inside InitMemoryMap, "open"
    gMemMap,      \* the library's buffer: NoBuffer, Garbage or a map
    gMemMapSize,  \* the size the library keeps
    capacity,     \* the size of the pool buffer gMemMap points to
    pools,        \* pool buffers allocated and not freed
    bridge,       \* gBridgeDescriptors up to gBridgeMemoryMapSize
    core,         \* gCoreDescriptors up to gCoreDescriptorCount
    status,       \* the last status of GetMemoryMap or AllocatePool
    openings,
    mapsSince     \* history: the maps the firmware has had in this opening

vars == <<fwMap, pc, gMemMap, gMemMapSize, capacity, pools, bridge, core,
          status, openings, mapsSince>>

\* gBS->GetMemoryMap with the size and the buffer it is called with: the
\* status, the size and the buffer it leaves.  A buffer that is too small, or
\* that is missing, is not written.
GetMemoryMap(size, buffer, slack) ==
    LET needed == Len(fwMap) + slack
    IN IF size < needed
       THEN [status |-> "BUFFER_TOO_SMALL", size |-> needed, buffer |-> buffer]
       ELSE IF buffer = NoBuffer
       THEN [status |-> "INVALID_PARAMETER", size |-> needed, buffer |-> buffer]
       ELSE [status |-> "SUCCESS", size |-> Len(fwMap), buffer |-> fwMap]

Init ==
    /\ fwMap \in FirmwareMaps
    /\ pc = "idle"
    /\ gMemMap = NoBuffer
    /\ gMemMapSize = 0
    /\ capacity = 0
    /\ pools = 0
    /\ bridge = <<>>
    /\ core = <<>>
    /\ status = "SUCCESS"
    /\ openings = 0
    /\ mapsSince = {}

-----------------------------------------------------------------------------
(* InitMemoryMap. *)

\* Mutant: does not free the map of the last opening.
AskForSizeWithoutFree(slack) ==
    LET answer == GetMemoryMap(gMemMapSize, NoBuffer, slack)
    IN /\ pc = "idle"
       /\ openings < MaxOpenings
       /\ openings' = openings + 1
       /\ mapsSince' = {fwMap}
       /\ gMemMap' = NoBuffer
       /\ capacity' = 0
       /\ gMemMapSize' = answer.size
       /\ status' = answer.status
       /\ pc' = IF answer.status = "BUFFER_TOO_SMALL" THEN "sized" ELSE "idle"
       /\ UNCHANGED <<fwMap, pools, bridge, core>>

\* Mutant: keeps the map of the last opening when there is one.
AskForSizeReusing(slack) ==
    LET answer == GetMemoryMap(gMemMapSize, NoBuffer, slack)
        kept   == gMemMap \in FirmwareMaps
    IN /\ pc = "idle"
       /\ openings < MaxOpenings
       /\ openings' = openings + 1
       /\ mapsSince' = {fwMap}
       /\ pools' = IF gMemMap = Garbage THEN pools - 1 ELSE pools
       /\ IF kept
          THEN UNCHANGED <<gMemMap, capacity, gMemMapSize>> /\ status' = "SUCCESS"
          ELSE /\ gMemMap' = NoBuffer
               /\ capacity' = 0
               /\ gMemMapSize' = answer.size
               /\ status' = answer.status
       /\ pc' = CASE kept -> "fetched"
                  [] ~kept /\ answer.status = "BUFFER_TOO_SMALL" -> "sized"
                  [] OTHER -> "idle"
       /\ UNCHANGED <<fwMap, bridge, core>>

\* Free the map of the last opening, then ask for the size.  The size passed
\* is the one the last opening left.
AskForSize(slack) ==
    LET answer == GetMemoryMap(gMemMapSize, NoBuffer, slack)
    IN /\ pc = "idle"
       /\ openings < MaxOpenings
       /\ openings' = openings + 1
       /\ mapsSince' = {fwMap}
       /\ pools' = IF gMemMap # NoBuffer THEN pools - 1 ELSE pools
       /\ gMemMap' = NoBuffer
       /\ capacity' = 0
       /\ gMemMapSize' = answer.size
       /\ status' = answer.status
       /\ pc' = IF answer.status = "BUFFER_TOO_SMALL" THEN "sized" ELSE "idle"
       /\ UNCHANGED <<fwMap, bridge, core>>

\* Mutant: adds the spare room after the allocation.
AllocateThenGrow ==
    /\ pc = "sized"
    /\ capacity' = gMemMapSize
    /\ gMemMapSize' = gMemMapSize + 2
    /\ gMemMap' = Garbage
    /\ pools' = pools + 1
    /\ fwMap' \in FirmwareMaps
    /\ mapsSince' = mapsSince \cup {fwMap'}
    /\ status' = "SUCCESS"
    /\ pc' = "allocated"
    /\ UNCHANGED <<bridge, core, openings>>

\* AllocatePool for two more descriptors than were asked for.
Allocate ==
    /\ pc = "sized"
    /\ gMemMapSize' = gMemMapSize + 2
    /\ capacity' = gMemMapSize'
    /\ gMemMap' = Garbage
    /\ pools' = pools + 1
    /\ fwMap' \in FirmwareMaps
    /\ mapsSince' = mapsSince \cup {fwMap'}
    /\ status' = "SUCCESS"
    /\ pc' = "allocated"
    /\ UNCHANGED <<bridge, core, openings>>

AllocateFails ==
    /\ pc = "sized"
    /\ gMemMapSize' = gMemMapSize + 2
    /\ status' = "OUT_OF_RESOURCES"
    /\ pc' = "idle"
    /\ UNCHANGED <<fwMap, gMemMap, capacity, pools, bridge, core, openings, mapsSince>>

\* The second GetMemoryMap.  It fails when the map has outgrown the buffer.
FetchMap(slack) ==
    LET answer == GetMemoryMap(gMemMapSize, gMemMap, slack)
    IN /\ pc = "allocated"
       /\ gMemMapSize' = answer.size
       /\ gMemMap' = answer.buffer
       /\ status' = answer.status
       /\ pc' = IF answer.status = "SUCCESS" THEN "fetched" ELSE "idle"
       /\ UNCHANGED <<fwMap, capacity, pools, bridge, core, openings, mapsSince>>

-----------------------------------------------------------------------------
(* The bridge and the adapter. *)

\* Mutant: copies whatever the map holds, past the end of the arrays.
FirstDescriptorsUncapped(m, size) == SubSeq(m, 1, size)

FirstDescriptors(m, size) ==
    SubSeq(m, 1, IF size < MaxDescriptors THEN size ELSE MaxDescriptors)

\* Mutant: the adapter copies before the bridge has the new map.
CopyDownSwapped ==
    /\ pc = "fetched"
    /\ core' = FirstDescriptors(bridge, Len(bridge))
    /\ bridge' = FirstDescriptors(gMemMap, gMemMapSize)
    /\ pc' = "open"
    /\ UNCHANGED <<fwMap, gMemMap, gMemMapSize, capacity, pools, status, openings,
                   mapsSince>>

\* The copies UefiBridgeInitMemoryMap and MemAdapterInit make, after which
\* the page is open.
CopyDown ==
    /\ pc = "fetched"
    /\ bridge' = FirstDescriptors(gMemMap, gMemMapSize)
    /\ core' = FirstDescriptors(bridge', Len(bridge'))
    /\ pc' = "open"
    /\ UNCHANGED <<fwMap, gMemMap, gMemMapSize, capacity, pools, status, openings,
                   mapsSince>>

\* ESC in the page.
ClosePage ==
    /\ pc = "open"
    /\ pc' = "idle"
    /\ UNCHANGED <<fwMap, gMemMap, gMemMapSize, capacity, pools, bridge, core,
                   status, openings, mapsSince>>

\* Other firmware code allocates or frees memory.
FirmwareChangesMap ==
    /\ fwMap' \in FirmwareMaps \ {fwMap}
    /\ mapsSince' = IF pc \in {"sized", "allocated"} THEN mapsSince \cup {fwMap'}
                    ELSE mapsSince
    /\ UNCHANGED <<pc, gMemMap, gMemMapSize, capacity, pools, bridge, core,
                   status, openings>>

Next ==
    \/ \E slack \in Slack : AskForSize(slack)
    \/ Allocate
    \/ AllocateFails
    \/ \E slack \in Slack : FetchMap(slack)
    \/ CopyDown
    \/ ClosePage
    \/ FirmwareChangesMap

Spec == Init /\ [][Next]_vars

-----------------------------------------------------------------------------
(* Properties. *)

TypeOK ==
    /\ fwMap \in FirmwareMaps
    /\ pc \in {"idle", "sized", "allocated", "fetched", "open"}
    /\ gMemMap \in FirmwareMaps \cup {NoBuffer, Garbage}
    /\ gMemMapSize \in Nat
    /\ capacity \in Nat
    /\ pools \in Nat
    /\ bridge \in {FirstDescriptors(m, Len(m)) : m \in FirmwareMaps \cup {<<>>}}
    /\ core = bridge
    /\ status \in {"SUCCESS", "BUFFER_TOO_SMALL", "INVALID_PARAMETER", "OUT_OF_RESOURCES"}
    /\ openings \in 0 .. MaxOpenings
    /\ mapsSince \subseteq FirmwareMaps

\* However often the page is opened, and wherever an opening fails, the
\* library owns the one pool buffer gMemMap points to and no other.
NoBufferIsLost == pools = IF gMemMap = NoBuffer THEN 0 ELSE 1

\* When the firmware is asked to fill the buffer it is told of no more room
\* than the buffer has, and a map that is used has the size the library keeps
\* with it, whatever sizes failed openings left behind.  After a failed fetch
\* the size may exceed the buffer, which nothing was written to.
SizeFitsBuffer ==
    /\ pc = "allocated" => gMemMapSize <= capacity
    /\ pc \in {"fetched", "open"} => /\ gMemMap \in FirmwareMaps
                                     /\ gMemMapSize = Len(gMemMap)
                                     /\ gMemMapSize <= capacity

\* A page that opens works on a map of this opening: one that the firmware had
\* at some moment since the opening began, not one that an earlier opening or
\* a failed one left in the library, and its first descriptors in the adapter.
OpensOnMapOfThisOpening ==
    /\ pc \in {"fetched", "open"} => gMemMap \in mapsSince
    /\ pc = "open" => core = FirstDescriptors(gMemMap, Len(gMemMap))

\* The page works on one map the firmware had, in the library and in the
\* adapter alike: no descriptor of an earlier opening is left among them.
Snapshot == INSTANCE MapSnapshot WITH
    open    <- (pc = "open"),
    library <- IF pc \in {"idle", "open"} /\ gMemMap \in FirmwareMaps THEN gMemMap ELSE <<>>,
    adapter <- core

ImplementsMapSnapshot == Snapshot!Spec

\* MemMap.c:275: "First call obtains the required buffer size."  It does the
\* first time; later the size of the previous map is passed with no buffer,
\* and a firmware that needs no more than that refuses the call.
FirstCallObtainsSize == status # "INVALID_PARAMETER"
=============================================================================
