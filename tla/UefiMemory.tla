----------------------------- MODULE UefiMemory -----------------------------
(***************************************************************************)
(* Physical memory as UefiNexus sees it: 64-bit addresses that wrap, the   *)
(* UEFI memory types, the descriptors of the firmware's memory map, and    *)
(* the type policies the code hard-wires (what may be browsed, read and    *)
(* written, and how a UEFI type becomes a Core type).                      *)
(*                                                                         *)
(* A memory map is a sequence of descriptors                               *)
(*     [type |-> , start |-> , pages |-> ]                                 *)
(* with start the physical address and pages a count of EFI pages.         *)
(***************************************************************************)
EXTENDS Integers, Sequences, FiniteSetsExt

CONSTANTS
    MaxU64,    \* the largest address, MAX_UINT64 = 2^64 - 1 in the code
    EFI_PAGE,  \* bytes of an EFI page, 1 << 12 in the code
    PAGE_SIZE  \* bytes of one PageMem view page, 256 in the code

ASSUME SizesAssumption ==
    /\ MaxU64 \in Nat
    /\ PAGE_SIZE \in Nat \ {0}
    /\ EFI_PAGE \in Nat \ {0}
    /\ EFI_PAGE % PAGE_SIZE = 0
    /\ EFI_PAGE >= 2 * PAGE_SIZE
    /\ (MaxU64 + 1) % EFI_PAGE = 0
    /\ MaxU64 + 1 >= 2 * EFI_PAGE

-----------------------------------------------------------------------------
(* 64-bit arithmetic. *)

Word == 0..MaxU64

\* The value an NX_U64 holds after the exact result was x.
Wrap(x) == x % (MaxU64 + 1)

\* x & ~(n - 1), for the powers of two the code passes.
AlignDown(x, n) == x - (x % n)

\* The base addresses of the PageMem view pages.
ViewPages == {p \in Word : p % PAGE_SIZE = 0}

-----------------------------------------------------------------------------
(* Memory types and the policies on them. *)

RamTypes == {"LoaderCode", "LoaderData", "BootServicesCode",
             "BootServicesData", "RuntimeServicesCode",
             "RuntimeServicesData", "Conventional"}
AcpiTypes == {"ACPIReclaim", "ACPINVS"}
IoTypes   == {"MMIO", "MMIOPortSpace"}
DarkTypes == {"Reserved", "Unusable", "PalCode", "Persistent"}
EfiTypes  == RamTypes \cup AcpiTypes \cup IoTypes \cup DarkTypes

\* The types IsMemoryTypeBrowsable accepts.
BrowsableTypes == RamTypes \cup AcpiTypes \cup IoTypes

\* The types IsToolRangeReadable and IsToolRangeWritable accept.
ReadableTypes == RamTypes \cup AcpiTypes
WritableTypes == RamTypes

\* MapMemoryType: the NX_MEMORY_TYPE the adapter gives Core for a UEFI type.
CoreTypes == RamTypes \cup AcpiTypes \cup {"MMIO", "Other"}
MapMemoryType(t) == CASE t \in IoTypes -> "MMIO"
                      [] t \in RamTypes \cup AcpiTypes -> t
                      [] OTHER -> "Other"

-----------------------------------------------------------------------------
(* Descriptors. *)

EfiDescriptor == [type : EfiTypes, start : Word, pages : Nat]

\* NumberOfPages << 12, in 64 bits.
DescriptorSize(d) == Wrap(d.pages * EFI_PAGE)

\* Not (PhysicalStart > MAX_UINT64 - DescriptorSize): the end of the
\* descriptor is an address.  Both Core and the library pass over the others.
EndsInWord(d) == d.start <= MaxU64 - DescriptorSize(d)

DescriptorEnd(d) == d.start + DescriptorSize(d)

\* The n bytes from a lie inside d.
Covers(d, a, n) == /\ EndsInWord(d)
                   /\ d.start <= a
                   /\ a + n <= DescriptorEnd(d)

\* What a firmware that follows the UEFI specification returns: regions of
\* whole EFI pages, none empty, none beyond the address space.
Conforming(d) == /\ d.start \in Word
                 /\ d.pages \in Nat \ {0}
                 /\ d.start % EFI_PAGE = 0
                 /\ d.start + d.pages * EFI_PAGE <= MaxU64 + 1
=============================================================================
