----------------------------- MODULE MCUefiNexus ----------------------------
(***************************************************************************)
(* A small instance of the application: eight addresses in four EFI pages, *)
(* view pages of one byte, and a list of two regions a screen on a console *)
(* that has no row to spare.                                               *)
(***************************************************************************)
EXTENDS UefiNexusProperties

Region(type, start, pages) == [type |-> type, start |-> start, pages |-> pages]

\* A region of two EFI pages alone; one less and one more than a screen's
\* worth of regions; and a multiple of it, up to the end of the address space,
\* of which the adapter drops the last region, RAM that the library knows.
MCMaps ==
    {<<Region("Conventional", 0, 2)>>,
     <<Region("Conventional", 0, 2), Region("MMIO", 4, 1), Region("ACPINVS", 6, 1)>>,
     <<Region("MMIO", 6, 1), Region("Reserved", 0, 1),
       Region("Conventional", 2, 1), Region("LoaderData", 4, 1)>>}

\* The second entry has no entry point.
MCEntryPoints == <<"PageMemLayered", "NULL">>

MCAttributes  == {NORMAL, "other"}
MCAttributeChoices == {{"RP"}, NoAnswer}
=============================================================================
