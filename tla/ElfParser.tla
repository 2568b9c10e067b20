----------------------------- MODULE ElfParser -----------------------------
(***************************************************************************)
(* The ELF reader of src/src/os/elfparser.c, as far as the library uses it: *)
(* elf_parser_file and elf_parser_symbol.                                   *)
(*                                                                         *)
(* A file is known by its content: its length and the numbers that whoever  *)
(* wrote it has put at an offset, in a width and in the byte order of the   *)
(* file.  A number that is read at another place, in another width or in    *)
(* the wrong byte order is Garbage.  What the content is meant to say is in *)
(* its field "means", which no definition of this module looks at.          *)
(***************************************************************************)
EXTENDS Integers, Sequences, SequencesExt

CONSTANTS
    File,     \* the files there may be on disk
    Content,  \* [File -> what is in it]
    HostData, \* HOST_EI_DATA: the byte order of the processor, 1 or 2
    IntMax    \* INT_MAX

ASSUME ElfAssumption ==
    /\ HostData \in {1, 2} /\ IntMax \in Nat
    /\ \A f \in File :
          /\ Content[f].length \in Nat /\ Content[f].order \in {1, 2}
          /\ \A p \in DOMAIN Content[f].cells : Content[f].cells[p] \in Nat

Garbage == -1

----------------------------------------------------------------------------
(* Layouts: the fields of a structure one after the other, as the parser    *)
(* walks over them with pos += width                                        *)

Word(class) == IF class = 1 THEN 4 ELSE 8

EhdrLayout(class) ==
    LET W == Word(class)
    IN  << <<"EI_VERSION", 1>>, <<"EI_OSABI", 1>>, <<"EI_ABIVERSION", 1>>,
           <<"EI_PAD", 7>>, <<"e_type", 2>>, <<"e_machine", 2>>,
           <<"e_version", 4>>, <<"e_entry", W>>, <<"e_phoff", W>>,
           <<"e_shoff", W>>, <<"e_flags", 4>>, <<"e_ehsize", 2>>,
           <<"e_phentsize", 2>>, <<"e_phnum", 2>>, <<"e_shentsize", 2>>,
           <<"e_shnum", 2>>, <<"e_shstrndx", 2>> >>

PhdrLayout32 ==
    << <<"p_type", 4>>, <<"p_offset", 4>>, <<"p_vaddr", 4>>, <<"p_paddr", 4>>,
       <<"p_filesz", 4>>, <<"p_memsz", 4>>, <<"p_flags", 4>>, <<"p_align", 4>> >>

\* Mutant: the flags where a 32-bit header has them
PhdrLayout64Late ==
    << <<"p_type", 4>>, <<"p_offset", 8>>, <<"p_vaddr", 8>>, <<"p_paddr", 8>>,
       <<"p_filesz", 8>>, <<"p_memsz", 8>>, <<"p_flags", 4>>, <<"p_align", 8>> >>

PhdrLayout64 ==
    << <<"p_type", 4>>, <<"p_flags", 4>>, <<"p_offset", 8>>, <<"p_vaddr", 8>>,
       <<"p_paddr", 8>>, <<"p_filesz", 8>>, <<"p_memsz", 8>>, <<"p_align", 8>> >>

PhdrLayout(class) == IF class = 1 THEN PhdrLayout32 ELSE PhdrLayout64

ShdrLayout(class) ==
    LET W == Word(class)
    IN  << <<"sh_name", 4>>, <<"sh_type", 4>>, <<"sh_flags", W>>, <<"sh_addr", W>>,
           <<"sh_offset", W>>, <<"sh_size", W>>, <<"sh_link", 4>>, <<"sh_info", 4>>,
           <<"sh_addralign", W>>, <<"sh_entsize", W>> >>

SymLayout32 ==
    << <<"st_name", 4>>, <<"st_value", 4>>, <<"st_size", 4>>, <<"st_info", 1>>,
       <<"st_other", 1>>, <<"st_shndx", 2>> >>

SymLayout64 ==
    << <<"st_name", 4>>, <<"st_info", 1>>, <<"st_other", 1>>, <<"st_shndx", 2>>,
       <<"st_value", 8>>, <<"st_size", 8>> >>

SymLayout(class) == IF class = 1 THEN SymLayout32 ELSE SymLayout64

Width(field) == field[2]

\* pos += width: where each field begins, and behind the last one where it ends
Offsets(layout) ==
    LET pos[i \in 1 .. Len(layout) + 1] ==
            IF i = 1 THEN 0 ELSE pos[i - 1] + Width(layout[i - 1])
    IN  pos
SizeOf(layout) == Offsets(layout)[Len(layout) + 1]

EhdrIdent == 6   \* the magic, the class and the byte order come before the layout
EhdrSize(class) == EhdrIdent + SizeOf(EhdrLayout(class))

----------------------------------------------------------------------------
(* Numbers and structures *)

\* fread: how many of the bytes asked for at an offset there are
Available(c, at, want) ==
    IF c.length <= at THEN 0 ELSE IF c.length - at < want THEN c.length - at ELSE want

\* _elf_parser_16bit and its kind reverse the bytes if the file's order is not
\* the host's; bytes and padding are copied as they are
Number(c, at, width, data) ==
    IF /\ <<at, width>> \in DOMAIN c.cells
       /\ width \in {2, 4, 8} => (data # HostData) = (c.order # HostData)
    THEN c.cells[<<at, width>>]
    ELSE Garbage

Struct(c, at, layout, data) ==
    LET index(name) == CHOOSE i \in DOMAIN layout : layout[i][1] = name
    IN  [name \in {layout[i][1] : i \in DOMAIN layout} |->
            Number(c, at + Offsets(layout)[index(name)], Width(layout[index(name)]), data)]

Unreadable == [ret |-> -1]

\* elf_parser_ehdr, of the first 64 bytes or what there is of them
ParseEhdr(c) ==
    LET size  == Available(c, 0, EhdrSize(2))
        class == Number(c, 4, 1, HostData)
        data  == Number(c, 5, 1, HostData)
    IN  IF \/ size < EhdrSize(1)
           \/ ~c.magic
           \/ class \notin {1, 2}
           \/ class = 2 /\ size < EhdrSize(2)
           \/ data \notin {1, 2}
        THEN Unreadable
        ELSE [ret |-> EhdrSize(class), class |-> class, data |-> data,
              ehdr |-> Struct(c, EhdrIdent, EhdrLayout(class), data)]

\* The idx-th entry, from 0, of a table of headers
ParseHeader(c, head, layout, table, entsize, idx) ==
    LET at == table + idx * entsize
    IN  IF Available(c, at, entsize) < SizeOf(layout) THEN Unreadable
        ELSE [ret |-> 0, hdr |-> Struct(c, at, layout, head.data)]

ParsePhdr(c, head, idx) ==
    ParseHeader(c, head, PhdrLayout(head.class),
                head.ehdr["e_phoff"], head.ehdr["e_phentsize"], idx)

ParseShdr(c, head, idx) ==
    ParseHeader(c, head, ShdrLayout(head.class),
                head.ehdr["e_shoff"], head.ehdr["e_shentsize"], idx)

\* elf_parser_file: the result of the last header that was read is returned, so
\* that a file without any gets the size of the file header for a result
ParseFile(c) ==
    LET head  == ParseEhdr(c)
        phdrs == [i \in 1 .. head.ehdr["e_phnum"] |-> ParsePhdr(c, head, i - 1)]
        shdrs == [i \in 1 .. head.ehdr["e_shnum"] |-> ParseShdr(c, head, i - 1)]
        all   == phdrs \o shdrs
    IN  IF \/ head.ret < 0
           \/ \E i \in DOMAIN all : all[i].ret < 0
        THEN Unreadable
        ELSE [ret   |-> IF all = <<>> THEN head.ret ELSE 0,
              class |-> head.class, data |-> head.data, ehdr |-> head.ehdr,
              phdr  |-> [i \in DOMAIN phdrs |-> phdrs[i].hdr],
              shdr  |-> [i \in DOMAIN shdrs |-> shdrs[i].hdr]]

\* What is left of a number in an int
IntOf(n) ==
    LET low == n % (2 * (IntMax + 1))
    IN  IF low > IntMax THEN low - 2 * (IntMax + 1) ELSE low

\* elf_parser_symbol of section i: the stride is that of the file's class
\* whatever sh_entsize says, there is no memory for a negative number of symbols,
\* and one short read spoils the table
ParseSymbols(c, info, i) ==
    LET sh     == info.shdr[i]
        layout == SymLayout(info.class)
        stride == SizeOf(layout)
        num    == IntOf(sh["sh_size"] \div sh["sh_entsize"])
    IN  IF \/ sh["sh_entsize"] \notin {SizeOf(SymLayout32), SizeOf(SymLayout64)}
           \/ num < 0
           \/ Available(c, sh["sh_offset"], num * stride) < num * stride
        THEN Unreadable
        ELSE [ret  |-> num,
              list |-> [j \in 1 .. num |->
                          Struct(c, sh["sh_offset"] + (j - 1) * stride, layout, info.data)]]
=============================================================================
