------------------------------ MODULE MCUHook ------------------------------
(* A program at 0 that cannot be moved, a library at 40 with a plugin loaded *)
(* right below and above it at times, the vDSO, and memory without a file at *)
(* the library's end.  The library's file is one of many: of both classes    *)
(* and byte orders, with symbol tables of several kinds, complete or cut     *)
(* off, or gone, laid out by the offsets of the ELF standard (ElfFormat).       *)
EXTENDS UHook, FiniteSetsExt, TLC

\* A structure: all numbers different but those given
FieldsAt(at, fields, given) ==
    [name \in {x[1] : x \in fields} |->
        IF name \in DOMAIN given THEN given[name]
        ELSE 1000 + at + (CHOOSE x \in fields : x[1] = name)[2]]

CellsAt(at, fields, struct) == {<<<<at + x[2], x[3]>>, struct[x[1]]>> : x \in fields}

\* A file of a class and byte order with so many program headers and sections;
\* a section is its type, its symbols as <<value, size>>, and its entry size or
\* Unknown for the right one.  The section headers come before or behind the
\* symbols; the file is complete or cut off inside one of its parts.
Build(d) ==
    LET wide  == d.class = 2
        eh    == IF wide THEN 64 ELSE 52
        ph    == IF wide THEN 56 ELSE 32
        sh    == IF wide THEN 64 ELSE 40
        st    == IF wide THEN 24 ELSE 16
        n     == Len(d.sections)
        syms  == FoldLeft(LAMBDA sum, s : sum + Len(s[2]), 0, d.sections) * st
        phoff == eh
        early == eh + d.phnum * ph
        shoff == IF d.shdrFirst THEN early ELSE early + syms
        first == IF d.shdrFirst THEN early + n * sh ELSE early
        tab   == [i \in 1 .. n |-> first + st *
                    FoldLeft(LAMBDA sum, s : sum + Len(s[2]), 0, SubSeq(d.sections, 1, i - 1))]
        all   == early + syms + n * sh
        ehdr  == FieldsAt(0, IF wide THEN Ehdr64 ELSE Ehdr32,
                    [e_phoff |-> phoff, e_shoff |-> shoff, e_phentsize |-> ph,
                     e_phnum |-> d.phnum, e_shentsize |-> sh, e_shnum |-> n])
        phdr  == [i \in 1 .. d.phnum |->
                    FieldsAt(phoff + (i - 1) * ph, IF wide THEN Phdr64 ELSE Phdr32, <<>>)]
        shdr  == [i \in 1 .. n |->
                    FieldsAt(shoff + (i - 1) * sh, IF wide THEN Shdr64 ELSE Shdr32,
                       [sh_type |-> d.sections[i][1], sh_offset |-> tab[i],
                        sh_size |-> Len(d.sections[i][2]) * st,
                        sh_entsize |-> IF d.sections[i][3] = Unknown THEN st
                                       ELSE d.sections[i][3]])]
        sym   == [i \in 1 .. n |-> [j \in DOMAIN d.sections[i][2] |->
                    FieldsAt(tab[i] + (j - 1) * st, IF wide THEN Sym64 ELSE Sym32,
                       [st_value |-> d.sections[i][2][j][1],
                        st_size |-> d.sections[i][2][j][2]])]]
        cells == {<<<<4, 1>>, d.class>>, <<<<5, 1>>, d.order>>}
            \cup CellsAt(0, IF wide THEN Ehdr64 ELSE Ehdr32, ehdr)
            \cup UNION {CellsAt(phoff + (i - 1) * ph, IF wide THEN Phdr64 ELSE Phdr32, phdr[i]) :
                          i \in 1 .. d.phnum}
            \cup UNION {CellsAt(shoff + (i - 1) * sh, IF wide THEN Shdr64 ELSE Shdr32, shdr[i]) :
                          i \in 1 .. n}
            \cup UNION {UNION {CellsAt(tab[i] + (j - 1) * st, IF wide THEN Sym64 ELSE Sym32,
                                       sym[i][j]) : j \in DOMAIN sym[i]} : i \in 1 .. n}
        readable(i) == d.sections[i][1] \in {2, 11} /\ d.sections[i][3] = Unknown
    IN  [length |-> CASE d.cut = "whole" -> all
                      [] d.cut = "empty" -> 0
                      [] d.cut = "ehdr"  -> eh - 1
                      [] d.cut = "phdr"  -> early - 1
                      [] d.cut = "shdr"  -> shoff + n * sh - 1
                      [] d.cut = "table" -> first + syms - 1,
         order  |-> d.order,
         magic  |-> d.magic,
         cells  |-> [p \in {x[1] : x \in cells} |-> (CHOOSE x \in cells : x[1] = p)[2]],
         means  |->
            [ehdr |-> ehdr, phdr |-> phdr, shdr |-> shdr,
             symbols |-> [i \in 1 .. n |-> IF readable(i) THEN sym[i] ELSE <<>>],
             tableEnd |-> [i \in 1 .. n |-> tab[i] + st * Len(d.sections[i][2])],
             \* a file without any header is refused, so that its end does not matter
             headersEnd |-> IF d.phnum + n = 0 THEN all + 1
                            ELSE IF n = 0 THEN early ELSE shoff + n * sh]]

----------------------------------------------------------------------------
(* A function at 10 of the library, to be found behind tables without it; the *)
(* end of the last segment is at 20                                          *)

Null0   == <<0, <<>>, Unknown>>
Dynsym  == <<11, <<<<0, 0>>, <<12, 5>>>>, Unknown>>
Exports == <<11, <<<<0, 0>>, <<10, 4>>>>, Unknown>>
Symtab  == <<2, <<<<10, 2>>, <<12, 5>>, <<20, 0>>>>, Unknown>>
Aliased == <<2, <<<<10, 0>>, <<10, 6>>>>, Unknown>>
Strange == <<2, <<<<10, 3>>, <<12, 3>>>>, 0>>
Long    == <<2, [i \in 1 .. IntMax + 1 |-> <<10, 7>>], Unknown>>
Strings == <<3, <<>>, 0>>

Sections == {<<Null0, Symtab, Strings>>, <<Null0, Dynsym, Strings, Symtab>>,
             <<Null0, Exports>>, <<Aliased, Dynsym>>, <<Strange, Symtab>>, <<Long, Symtab>>, <<>>}

D(class, order, phnum, sections, shdrFirst, cut) ==
    [class |-> class, order |-> order, phnum |-> phnum, sections |-> sections,
     shdrFirst |-> shdrFirst, cut |-> cut, magic |-> TRUE]

Files == FoldSet(LAMBDA d, seq : Append(seq, d), <<>>,
    {D(c, 1, 2, s, FALSE, "whole") : c \in {1, 2}, s \in Sections}
    \cup {D(c, 2, 2, <<Null0, Symtab, Strings>>, FALSE, "whole") : c \in {1, 2}}
    \cup {D(c, 1, 2, <<Null0, Dynsym, Strings, Symtab>>, c = 2, cut) : c \in {1, 2},
             cut \in {"empty", "ehdr", "phdr", "shdr", "table"}}
    \cup {D(2, 1, 0, <<>>, FALSE, "whole"), D(2, 1, 0, <<Null0, Symtab>>, TRUE, "whole"),
          [D(1, 1, 2, <<Symtab>>, FALSE, "whole") EXCEPT !.magic = FALSE]})

MCFile == DOMAIN Files
MCContent == [f \in MCFile |-> Build(Files[f])]

CONSTANTS exe, lib, below, above, vdso, near, far

MCObject == {exe, lib, below, above, vdso}
MCBase == [o \in MCObject |-> CASE o = exe -> 0 [] o = below -> 30 [] o = lib -> 40
                                [] o = above -> 64 [] o = vdso -> 80]
Seg(v, n) == [vaddr |-> v, memsz |-> n]
Area(s, e) == [start |-> s, end |-> e]
MCSegments == [o \in MCObject |->
    CASE o = exe   -> {Seg(8, 3), Seg(0, 0)}
      [] o = below -> {Seg(0, 4), Seg(4, 6), Seg(0, 0)}
      [] o = lib   -> {Seg(0, 8), Seg(8, 6), Seg(16, 4), Seg(0, 0)}
      [] o = above -> {Seg(0, 8), Seg(0, 0)}
      [] o = vdso  -> {Seg(0, 6)}]
MCAreas == [o \in MCObject |->
    CASE o = exe   -> {Area(8, 12)}
      [] o = below -> {Area(30, 34), Area(34, 40)}
      [] o = lib   -> {Area(40, 48), Area(48, 56), Area(56, 60)}
      [] o = above -> {Area(64, 72)}
      [] o = vdso  -> {Area(80, 88)}]
MCAnonymous == {Area(60, 64)}
MCStart == <<exe, vdso, lib>>
\* the file of the program is the last whole one; plugins are never read
MCDisks == {[p \in MCObject |-> IF p = vdso THEN NoFile
                                ELSE IF p = lib THEN f ELSE 1] : f \in MCFile \cup {NoFile}}
MCPathOf == [o \in MCObject |-> o]
MCNeed == [x \in Target \X Detour |-> IF x[2] = near THEN 2 ELSE 5]

\* What the theorems about the lookup assume holds here
ASSUME MCLaidOut == LaidOut
ASSUME MCConforming == Conforming

Symmetry == Permutations(Token) \cup Permutations(Handle)
=============================================================================
