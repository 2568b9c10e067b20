----------------------------- MODULE ElfFormat -----------------------------
(***************************************************************************)
(* What the ELF standard says of a file, as far as elf_get_function_size    *)
(* depends on it: where the fields of its structures are, and what a file   *)
(* that follows it has in its content for what it means.  External: it is   *)
(* written from the standard's tables of offsets, not from the parser's     *)
(* walk over the fields, and the two are compared.                          *)
(***************************************************************************)
EXTENDS ElfParser

----------------------------------------------------------------------------
(* Structures: the name, the offset and the width of each field             *)

Ehdr64 == {<<"EI_VERSION", 6, 1>>, <<"EI_OSABI", 7, 1>>, <<"EI_ABIVERSION", 8, 1>>,
    <<"EI_PAD", 9, 7>>, <<"e_type", 16, 2>>, <<"e_machine", 18, 2>>, <<"e_version", 20, 4>>,
    <<"e_entry", 24, 8>>, <<"e_phoff", 32, 8>>, <<"e_shoff", 40, 8>>, <<"e_flags", 48, 4>>,
    <<"e_ehsize", 52, 2>>, <<"e_phentsize", 54, 2>>, <<"e_phnum", 56, 2>>,
    <<"e_shentsize", 58, 2>>, <<"e_shnum", 60, 2>>, <<"e_shstrndx", 62, 2>>}
Ehdr32 == {<<"EI_VERSION", 6, 1>>, <<"EI_OSABI", 7, 1>>, <<"EI_ABIVERSION", 8, 1>>,
    <<"EI_PAD", 9, 7>>, <<"e_type", 16, 2>>, <<"e_machine", 18, 2>>, <<"e_version", 20, 4>>,
    <<"e_entry", 24, 4>>, <<"e_phoff", 28, 4>>, <<"e_shoff", 32, 4>>, <<"e_flags", 36, 4>>,
    <<"e_ehsize", 40, 2>>, <<"e_phentsize", 42, 2>>, <<"e_phnum", 44, 2>>,
    <<"e_shentsize", 46, 2>>, <<"e_shnum", 48, 2>>, <<"e_shstrndx", 50, 2>>}
Phdr64 == {<<"p_type", 0, 4>>, <<"p_flags", 4, 4>>, <<"p_offset", 8, 8>>, <<"p_vaddr", 16, 8>>,
    <<"p_paddr", 24, 8>>, <<"p_filesz", 32, 8>>, <<"p_memsz", 40, 8>>, <<"p_align", 48, 8>>}
Phdr32 == {<<"p_type", 0, 4>>, <<"p_offset", 4, 4>>, <<"p_vaddr", 8, 4>>, <<"p_paddr", 12, 4>>,
    <<"p_filesz", 16, 4>>, <<"p_memsz", 20, 4>>, <<"p_flags", 24, 4>>, <<"p_align", 28, 4>>}
Shdr64 == {<<"sh_name", 0, 4>>, <<"sh_type", 4, 4>>, <<"sh_flags", 8, 8>>, <<"sh_addr", 16, 8>>,
    <<"sh_offset", 24, 8>>, <<"sh_size", 32, 8>>, <<"sh_link", 40, 4>>, <<"sh_info", 44, 4>>,
    <<"sh_addralign", 48, 8>>, <<"sh_entsize", 56, 8>>}
Shdr32 == {<<"sh_name", 0, 4>>, <<"sh_type", 4, 4>>, <<"sh_flags", 8, 4>>, <<"sh_addr", 12, 4>>,
    <<"sh_offset", 16, 4>>, <<"sh_size", 20, 4>>, <<"sh_link", 24, 4>>, <<"sh_info", 28, 4>>,
    <<"sh_addralign", 32, 4>>, <<"sh_entsize", 36, 4>>}
Sym64 == {<<"st_name", 0, 4>>, <<"st_info", 4, 1>>, <<"st_other", 5, 1>>, <<"st_shndx", 6, 2>>,
    <<"st_value", 8, 8>>, <<"st_size", 16, 8>>}
Sym32 == {<<"st_name", 0, 4>>, <<"st_value", 4, 4>>, <<"st_size", 8, 4>>, <<"st_info", 12, 1>>,
    <<"st_other", 13, 1>>, <<"st_shndx", 14, 2>>}

Ehdr(class) == IF class = 1 THEN Ehdr32 ELSE Ehdr64
Phdr(class) == IF class = 1 THEN Phdr32 ELSE Phdr64
Shdr(class) == IF class = 1 THEN Shdr32 ELSE Shdr64
Sym(class)  == IF class = 1 THEN Sym32 ELSE Sym64

\* Their sizes
EhdrBytes(class) == IF class = 1 THEN 52 ELSE 64
PhdrBytes(class) == IF class = 1 THEN 32 ELSE 56
ShdrBytes(class) == IF class = 1 THEN 40 ELSE 64
SymBytes(class)  == IF class = 1 THEN 16 ELSE 24

Values(fields) == [{x[1] : x \in fields} -> Nat]

\* The content has the fields of a structure at an offset
Written(c, at, fields, struct) ==
    \A x \in fields : LET cell == <<at + x[2], x[3]>>
                      IN  cell \in DOMAIN c.cells /\ c.cells[cell] = struct[x[1]]

\* It has a table of them, one behind the other
Table(c, at, fields, size, table) ==
    \A i \in DOMAIN table : Written(c, at + (i - 1) * size, fields, table[i])

----------------------------------------------------------------------------
(* Files *)

\* The headers, and where the last of them ends.  A file without any header but
\* the first has nothing to be found in: its end is nowhere.
HeadersWritten(c, class) ==
    LET m    == c.means
        num  == <<m.ehdr["e_phnum"], m.ehdr["e_shnum"]>>
        ends == {EhdrBytes(class)}
                    \cup {m.ehdr["e_phoff"] + i * PhdrBytes(class) : i \in 1 .. num[1]}
                    \cup {m.ehdr["e_shoff"] + i * ShdrBytes(class) : i \in 1 .. num[2]}
    IN  /\ m.ehdr \in Values(Ehdr(class)) /\ Written(c, 0, Ehdr(class), m.ehdr)
        /\ m.phdr \in [1 .. num[1] -> Values(Phdr(class))]
        /\ m.shdr \in [1 .. num[2] -> Values(Shdr(class))]
        /\ num[1] > 0 => m.ehdr["e_phentsize"] = PhdrBytes(class)
        /\ num[2] > 0 => m.ehdr["e_shentsize"] = ShdrBytes(class)
        /\ Table(c, m.ehdr["e_phoff"], Phdr(class), PhdrBytes(class), m.phdr)
        /\ Table(c, m.ehdr["e_shoff"], Shdr(class), ShdrBytes(class), m.shdr)
        /\ IF num = <<0, 0>> THEN ~(m.headersEnd <= c.length)
           ELSE m.headersEnd \in ends /\ \A e \in ends : e <= m.headersEnd

\* The symbols of section n: those of a symbol table whose entries have the size
\* of the file's class.  A table with entries of the size of the other class
\* would be read with the wrong stride (elfparser.c:695-701): there is none.  Nor
\* is there one whose number of symbols is of more bits than an int has.
SymbolsWritten(c, class, n) ==
    LET m  == c.means
        sh == m.shdr[n]
    IN  IF sh["sh_type"] \in {2, 11} /\ sh["sh_entsize"] = SymBytes(class)
        THEN /\ m.symbols[n] \in [1 .. sh["sh_size"] \div SymBytes(class) -> Values(Sym(class))]
             /\ Table(c, sh["sh_offset"], Sym(class), SymBytes(class), m.symbols[n])
             /\ sh["sh_size"] \div SymBytes(class) < 2 * (IntMax + 1)
             /\ m.tableEnd[n] = sh["sh_offset"]
                   + (sh["sh_size"] \div SymBytes(class)) * SymBytes(class)
        ELSE /\ m.symbols[n] = <<>>
             /\ sh["sh_type"] \in {2, 11} => sh["sh_entsize"] \notin {SymBytes(1), SymBytes(2)}

Conforms(c) ==
    \E class \in {1, 2} :
        /\ {<<4, 1>>, <<5, 1>>} \subseteq DOMAIN c.cells
        /\ c.cells[<<4, 1>>] = class /\ c.cells[<<5, 1>>] = c.order
        /\ HeadersWritten(c, class)
        /\ DOMAIN c.means.symbols = DOMAIN c.means.shdr
        /\ \A n \in DOMAIN c.means.shdr : SymbolsWritten(c, class, n)

\* A table that is all there, of no more symbols than an int can count
TableThere(c, n) == c.means.tableEnd[n] <= c.length /\ Len(c.means.symbols[n]) <= IntMax

\* Whatever else is in a file, if it begins like an ELF file it is one
Conforming == \A f \in File : Content[f].magic => Conforms(Content[f])
=============================================================================
