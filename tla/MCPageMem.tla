------------------------------ MODULE MCPageMem -----------------------------
(***************************************************************************)
(* Small instances of PageMem: three or four EFI pages of two view pages   *)
(* each.  The maps are written in EFI pages and fit every instance.        *)
(***************************************************************************)
EXTENDS PageText, TLC

Region(type, start, pages) == [type |-> type, start |-> start, pages |-> pages]

\* RAM, then MMIO that may be browsed but not read, then ACPI data that may
\* be read but not written, then a hole.
MCMixed == {<<Region("Conventional", 0, 1), Region("MMIO", EFI_PAGE, 1),
              Region("ACPINVS", 2 * EFI_PAGE, 1)>>}
\* ACPI data below RAM, then a hole.
MCAcpiAndRam == {<<Region("ACPIReclaim", 0, 1), Region("LoaderData", EFI_PAGE, 1)>>}

\* Every map of at most two conforming regions, browsable or not, in any order
\* and overlapping or not, some ending at the end of the address space.
MCRegions == {d \in [type : {"MMIO", "Reserved"},
                     start : EfiPages, pages : 1 .. 3] : Conforming(d)}
MCAllMaps == {<<d>> : d \in MCRegions} \cup
             {<<d, e>> : d \in MCRegions, e \in MCRegions}

MCBytes == Permutations(Byte)
MCSomeAttributes == {{"RO"}, {"RP"}}
=============================================================================
