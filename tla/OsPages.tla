------------------------------ MODULE OsPages ------------------------------
(***************************************************************************)
(* Page arithmetic of src/src/os/os.c and src/src/defs.h.                   *)
(*                                                                         *)
(* _page_of and ALIGN_SIZE are written in C with bit masks over a page      *)
(* size that is a power of two; the masks clear the low bits, which is      *)
(* what the remainder does here.  A page is named by its base address.      *)
(***************************************************************************)
EXTENDS Integers

CONSTANT PageSize  \* what _get_page_size returns

ASSUME PageSizeAssumption == PageSize \in Nat \ {0}

\* defs.h ALIGN_SIZE(size, page size): round up to whole pages
AlignSize(size) ==
    LET up == size + (PageSize - 1) IN up - (up % PageSize)

\* os.c _page_of: the base of the page that holds addr
PageOf(addr) == addr - (addr % PageSize)

\* Mutant of NumPages: the offset in the first page is forgotten
NumPagesOfSize(addr, size) == ((size - 1) \div PageSize) + 1

\* os.c n_page of _system_modify_opcode, for the region addr .. addr+size-1
NumPages(addr, size) ==
    ((addr + size - PageOf(addr) - 1) \div PageSize) + 1

\* The pages whose protection _system_modify_opcode changes
Pages(addr, size) ==
    {PageOf(addr) + PageSize * i : i \in 0 .. NumPages(addr, size) - 1}
=============================================================================
