----------------------------- MODULE MapSnapshot ----------------------------
(***************************************************************************)
(* What a page is promised about the firmware's memory map: while it is    *)
(* open, the library holds one map the firmware reported, and the adapter  *)
(* the first descriptors of that same map.  Neither changes until the page *)
(* is closed.  An attempt to open may fail, and leaves no library map.     *)
(***************************************************************************)
EXTENDS Sequences, Integers

CONSTANTS
    FirmwareMaps,   \* the maps the firmware may report
    MaxDescriptors  \* the descriptors the adapter keeps

VARIABLES
    open,     \* a page uses the maps
    library,  \* the library's map
    adapter   \* the adapter's map

snapshot == <<open, library, adapter>>

Kept(m) == SubSeq(m, 1, IF Len(m) < MaxDescriptors THEN Len(m) ELSE MaxDescriptors)

Init == /\ open = FALSE
        /\ library = <<>>
        /\ adapter = <<>>

Open == /\ ~open
        /\ open' = TRUE
        /\ library' \in FirmwareMaps
        /\ adapter' = Kept(library')

Forget == /\ ~open
          /\ library' = <<>>
          /\ UNCHANGED <<open, adapter>>

Close == /\ open
         /\ open' = FALSE
         /\ UNCHANGED <<library, adapter>>

Next == Open \/ Forget \/ Close

Spec == Init /\ [][Next]_snapshot
=============================================================================
