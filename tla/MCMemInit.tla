------------------------------ MODULE MCMemInit ------------------------------
(***************************************************************************)
(* Small instances of MemInit: maps of one to five descriptors, two of the *)
(* same length that differ, an adapter that keeps three.                   *)
(***************************************************************************)
EXTENDS MemInit

MCDescriptors == {"ram", "mmio", "code", "data", "acpi"}

MCMaps == {<<"ram">>, <<"ram", "mmio">>, <<"code", "data">>,
           <<"code", "data", "ram", "mmio">>,
           <<"code", "data", "ram", "acpi", "mmio">>}
=============================================================================
