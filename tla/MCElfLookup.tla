---------------------------- MODULE MCElfLookup ----------------------------
(* Link maps of a program and a library, perhaps with a vDSO between or a     *)
(* static object before them, that import and define the functions f and g;  *)
(* no symbol table holds the name "absent".                                  *)
EXTENDS ElfLookup

CONSTANTS f, g, absent

Tables(hash) == <<"SYMTAB", "PLTREL", "JMPREL", "REL">> \o hash

\* imports, definitions, and the symbols with a slot of each kind
Obj(dyn, imports, defs, plt, got) ==
    [dyn |-> dyn, mapped |-> TRUE, rela |-> TRUE, imports |-> imports, defs |-> defs,
     plt |-> plt, got |-> got]

Jump(i) == [sym |-> i, type |-> "jump_slot"]
Glob(i) == [sym |-> i, type |-> "glob_dat"]
Abs(i)  == [sym |-> i, type |-> "abs"]
Odd(i)  == [sym |-> i, type |-> "other"]

\* A library that defines f and g or imports one of them, with jump slots, other
\* slots, both or none; symbol 1 is the first of imports \o defs
Contents ==
    {<<imp, def>> \in {<<>>, <<f>>, <<g>>} \X {<<>>, <<f>>, <<g>>, <<g, f>>} :
        imp = <<>> \/ ~Contains(def, imp[1])}
Relocs == {<<<<>>, <<>>>>, <<<<Jump(1)>>, <<>>>>, <<<<Odd(1), Jump(2)>>, <<Glob(1)>>>>,
           <<<<>>, <<Odd(1), Abs(2), Glob(1)>>>>}

Shared(dyn) ==
    {Obj(dyn, c[1], c[2],
         SelectSeq(r[1], LAMBDA e : e.sym <= Len(c[1] \o c[2])),
         SelectSeq(r[2], LAMBDA e : e.sym <= Len(c[1] \o c[2]))) :
        c \in Contents, r \in Relocs}

\* The tables of the vDSO cannot be read, its dynamic section is read up to
\* the GNU hash table
Vdso == [dyn |-> <<"HASH", "SYMTAB", "GNU_HASH">>, mapped |-> FALSE, rela |-> FALSE,
         imports |-> <<>>, defs |-> <<g>>, plt |-> <<>>, got |-> <<>>]
Static == [dyn |-> <<>>, mapped |-> FALSE, rela |-> FALSE,
           imports |-> <<>>, defs |-> <<f>>, plt |-> <<>>, got |-> <<>>]

Gnu == Shared(Tables(<<"GNU_HASH">>))
Both == Shared(Tables(<<"HASH", "GNU_HASH">>))
Sysv == Shared(Tables(<<"HASH">>))

\* Objects without relocations, and with only one of the two tables
BareOf(hash) == {Obj(<<hash, "SYMTAB">>, c[1], c[2], <<>>, <<>>) : c \in Contents}
Bare == BareOf("HASH")
NoPlt == {Obj(<<"HASH", "SYMTAB", "REL">>, c[1], c[2], <<>>, <<Glob(1)>>) :
              c \in Contents \ {<<<<>>, <<>>>>}}
NoGot == {Obj(<<"PLTREL", "JMPREL", "HASH", "SYMTAB">>, c[1], c[2], <<Jump(1)>>, <<>>) :
              c \in Contents \ {<<<<>>, <<>>>>}}

\* Objects with GNU hash tables, some with SysV ones beside them; with SysV ones
\* only; one with a SysV table before one with a GNU table, but not behind; and
\* one that lacks a relocation table behind one that has it
GnuMaps == {<<a, Vdso, b>> : a \in Gnu, b \in Both} \cup {<<Static, a, b>> : a \in Both, b \in Gnu}
SysvMaps == {<<a, b>> : a \in Sysv \cup Bare, b \in Sysv}
MixedMaps == {<<a, b>> : a \in Sysv \cup Bare, b \in Gnu}
StaleMaps == {<<a, b>> : a \in Sysv, b \in Bare \cup NoPlt \cup NoGot}
                 \cup {<<a, b>> : a \in Gnu, b \in BareOf("GNU_HASH")}
RegularMaps == GnuMaps \cup SysvMaps \cup MixedMaps \cup StaleMaps

ASSUME MapsAreRegular == Regular
=============================================================================
