----------------------------- MODULE ElfLookup -----------------------------
(***************************************************************************)
(* How uhook_inject_got finds the slots to patch: the callbacks that        *)
(* elf_inject_got_patch of src/src/os/elf.c has dl_iterate_phdr run, one    *)
(* for each loaded object, until one returns 1.  GotHook takes the slots    *)
(* found here for granted and models how they are written.                  *)
(*                                                                         *)
(* The callbacks share one inject_got_ctx_t, whose phdr_info is filled tag  *)
(* by tag and never cleared.  A table (symbols, hash table, relocations) is *)
(* named by the index of the object it was read from, 0 standing for NULL:  *)
(* what the properties tell apart is whose tables are used together.        *)
(***************************************************************************)
EXTENDS Integers, Sequences, SequencesExt

CONSTANTS
    LinkMaps,  \* sequences of loaded objects, in the loader's order
    Requests   \* the names of symbols, those in the objects and others

\* The dynamic section entries the parser reads.  SYMTAB stands for the symbols
\* with their strings, JMPREL and REL for a relocation table with its size.
Tag == {"SYMTAB", "PLTREL", "JMPREL", "REL", "GNU_HASH", "HASH"}

\* imports and defs are the symbols of an object, in the order of .dynsym;
\* a relocation names a symbol by its index.  mapped: the GNU hash table lies in
\* a loaded segment, which is not so for the vDSO.
Object(name) ==
    [dyn : Seq(Tag), mapped : BOOLEAN, rela : BOOLEAN,
     imports : Seq(name), defs : Seq(name),
     plt : Seq([sym : Nat, type : {"jump_slot", "other"}]),
     got : Seq([sym : Nat, type : {"glob_dat", "abs", "other"}])]

ASSUME LookupAssumption == \A m \in LinkMaps : m \in Seq(Object(Requests))

VARIABLES
    objs, name,  \* the link map and the name of the call
    obj,         \* the object whose callback runs next
    phdr,        \* phdr_info, with whose tables it points to
    symidx,
    slots,       \* the slots replaced: <<object, table, entry>>, see Slot
    ret          \* inject_ret once the iteration is over, "none" before

vars == <<objs, name, obj, phdr, symidx, slots, ret>>

\* calloc; mutant: malloc, which leaves in the fields what belongs to no object
ClearedNot == [symtab |-> -1, rela |-> FALSE, relplt |-> -1, reldyn |-> -1,
               bloom |-> -1, table |-> -1]
Cleared == [symtab |-> 0, rela |-> FALSE, relplt |-> 0, reldyn |-> 0,
            bloom |-> 0, table |-> 0]

Init ==
    /\ objs \in LinkMaps
    /\ name \in Requests
    /\ obj = 1
    /\ phdr = Cleared
    /\ symidx = 0
    /\ slots = {}
    /\ ret = "none"

----------------------------------------------------------------------------
(* _unix_parser_dyn_phdr *)

\* The parser gives up on a hash table that is not mapped
Unmapped(o, i) == objs[o].dyn[i] = "GNU_HASH" /\ ~objs[o].mapped

ParseOk(o) == \A i \in DOMAIN objs[o].dyn : ~Unmapped(o, i)

\* The tags it has read until then
ReadTags(o) ==
    {objs[o].dyn[i] : i \in {k \in DOMAIN objs[o].dyn : \A j \in 1 .. k : ~Unmapped(o, j)}}

\* What the entries leave in phdr.  DT_HASH is ignored once there is a bloom
\* filter, and what it has set before is overwritten by DT_GNU_HASH.
Parsed(o) ==
    LET tags == ReadTags(o)
        Set(tag, old) == IF tag \in tags THEN o ELSE old
    IN  [symtab |-> Set("SYMTAB", phdr.symtab),
         rela   |-> IF "PLTREL" \in tags THEN objs[o].rela ELSE phdr.rela,
         relplt |-> Set("JMPREL", phdr.relplt),
         reldyn |-> Set("REL", phdr.reldyn),
         bloom  |-> Set("GNU_HASH", phdr.bloom),
         table  |-> IF phdr.bloom = 0 THEN Set("HASH", Set("GNU_HASH", phdr.table))
                    ELSE Set("GNU_HASH", phdr.table)]

----------------------------------------------------------------------------
(* _unix_find_symidx_by_name *)

Symbols(o) == objs[o].imports \o objs[o].defs

\* Mutant: the symbol at symoffset is taken for STN_UNDEF
ListedAfterFirst(ph) ==
    IF ph.bloom # 0
    THEN {i \in DOMAIN Symbols(ph.table) : i > Len(objs[ph.table].imports) + 1}
    ELSE DOMAIN Symbols(ph.table)

\* A GNU hash table lists what an object defines, a SysV one all its symbols
Listed(ph) ==
    IF ph.bloom # 0
    THEN {i \in DOMAIN Symbols(ph.table) : i > Len(objs[ph.table].imports)}
    ELSE DOMAIN Symbols(ph.table)

\* The entries of the table with the hash of the name; the name itself is then
\* compared with the one symtab has at that index.  Beyond the end of another
\* object's symtab any string may be found.
Hits(ph) == {i \in Listed(ph) : Symbols(ph.table)[i] = name}

MayFind(ph) ==
    {i \in Hits(ph) : i \in DOMAIN Symbols(ph.symtab) => Symbols(ph.symtab)[i] = name}
MustFind(ph) ==
    {i \in MayFind(ph) : i \in DOMAIN Symbols(ph.symtab)}

----------------------------------------------------------------------------
(* _elf_inject_plt_got *)

\* _elf_check_symbol; mutant: the type of the relocation is not checked
MatchesAnyType(entry, i, types) == entry.sym = i
Matches(entry, i, types) == entry.sym = i /\ entry.type \in types

\* The slot at the load address of object o plus the offset that entry e of a
\* relocation table of object r has; the first that matches only
Slot(o, r, kind, table, i, types) ==
    LET fits == {e \in DOMAIN table : Matches(table[e], i, types)}
    IN  {[base |-> o, from |-> r, kind |-> kind, entry |-> e] :
            e \in {x \in fits : \A y \in fits : x <= y}}

\* A table is read with the entry size of its kind, or as if it were empty: what a
\* wrong size makes of the entries is left out (see SlotsOfSymbol)
Readable(ph, r) == r # 0 /\ ph.rela = objs[r].rela

PltSlots(ph, o, i) ==
    IF Readable(ph, ph.relplt)
    THEN Slot(o, ph.relplt, "plt", objs[ph.relplt].plt, i, {"jump_slot"}) ELSE {}
GotSlots(ph, o, i) ==
    IF Readable(ph, ph.reldyn)
    THEN Slot(o, ph.reldyn, "got", objs[ph.reldyn].got, i, {"glob_dat", "abs"}) ELSE {}

----------------------------------------------------------------------------
(* _unix_dl_iterate_phdr_got, one action for each way it returns *)

Running == ret = "none" /\ obj <= Len(objs)

NextObject ==
    /\ obj' = obj + 1
    /\ UNCHANGED <<objs, name, symidx, slots, ret>>

NoDynamic ==
    /\ Running
    /\ objs[obj].dyn = <<>>
    /\ NextObject
    /\ UNCHANGED phdr

ParseFails ==
    /\ Running
    /\ ~ParseOk(obj)
    /\ phdr' = Parsed(obj)
    /\ NextObject

NotFound ==
    /\ Running
    /\ objs[obj].dyn # <<>> /\ ParseOk(obj)
    /\ phdr' = Parsed(obj)
    /\ MustFind(phdr') = {}
    /\ NextObject

Found ==
    /\ Running
    /\ objs[obj].dyn # <<>> /\ ParseOk(obj)
    /\ phdr' = Parsed(obj)
    /\ \E i \in MayFind(phdr') :
          /\ symidx' = i
          /\ slots' = PltSlots(phdr', obj, i) \cup GotSlots(phdr', obj, i)
          /\ ret' = IF slots' = {} THEN "GOTNOTFOUND" ELSE "SUCCESS"
    /\ UNCHANGED <<objs, name, obj>>

\* No callback returned 1: inject_ret is as elf_inject_got_patch set it
Exhausted ==
    /\ ret = "none" /\ obj > Len(objs)
    /\ ret' = "UNKNOWN"
    /\ UNCHANGED <<objs, name, obj, phdr, symidx, slots>>

Next == NoDynamic \/ ParseFails \/ NotFound \/ Found \/ Exhausted

Spec == Init /\ [][Next]_vars

----------------------------------------------------------------------------
(* Properties *)

TypeOK ==
    /\ obj \in 1 .. Len(objs) + 1
    /\ phdr \in [symtab : 0 .. Len(objs), rela : BOOLEAN,
                 relplt : 0 .. Len(objs), reldyn : 0 .. Len(objs),
                 bloom : 0 .. Len(objs), table : 0 .. Len(objs)]
    /\ symidx \in Nat
    /\ \A s \in slots : s.kind \in {"plt", "got"} /\ s.base \in DOMAIN objs
    /\ ret \in {"none", "SUCCESS", "GOTNOTFOUND", "UNKNOWN"}

\* What the search presupposes: an object that can be searched has a symbol table
\* and a hash table, a GNU one if an object before it has left a bloom filter.  A
\* SysV table that is not relocated must find such a filter, or it would be read.
Regular ==
    \A m \in LinkMaps :
        LET has(o, tag) == Contains(m[o].dyn, tag)
            filter(o) == has(o, "GNU_HASH") /\ m[o].mapped
        IN  \A o \in DOMAIN m :
                /\ m[o].dyn # <<>> /\ (has(o, "GNU_HASH") => m[o].mapped) =>
                       /\ has(o, "SYMTAB")
                       /\ \/ has(o, "GNU_HASH")
                          \/ has(o, "HASH") /\ \A p \in 1 .. o - 1 : ~filter(p)
                /\ has(o, "HASH") /\ ~m[o].mapped => \E p \in 1 .. o - 1 : filter(p)

\* The objects a lookup can search, and what their own hash tables list
Searched(o) == objs[o].dyn # <<>> /\ ParseOk(o)
OwnList(o) ==
    IF Contains(objs[o].dyn, "GNU_HASH") THEN objs[o].defs ELSE Symbols(o)

\* The search stops at the first object in the loader's order whose own hash
\* table lists the name, at the index the name has there, and gives up with
\* UHOOK_UNKNOWN only if no object does.
FirstOwner ==
    /\ ret \in {"SUCCESS", "GOTNOTFOUND"} =>
          /\ Symbols(obj)[symidx] = name
          /\ \A o \in 1 .. obj - 1 : ~(Searched(o) /\ Contains(OwnList(o), name))
    /\ ret = "UNKNOWN" =>
          \A o \in DOMAIN objs : ~(Searched(o) /\ Contains(OwnList(o), name))

\* The relocation tables an object has, and says the kind of
HasTable(o, tag) == Contains(objs[o].dyn, tag) /\ Contains(objs[o].dyn, "PLTREL")

\* An object that has a relocation table of its own is patched through that one,
\* whatever the objects before it have left in phdr_info, and only at slots of the
\* symbol: jump slots of .rel(a).plt, GLOB_DAT and ABS ones of .rel(a).dyn.
\* Nothing is said of an object without the table: phdr_info then has that of an
\* object before it, and the code writes where it leads (elf.c:214, 596, 614).
SlotsOfSymbol ==
    \A s \in slots :
        LET o == objs[s.base]
            table == IF s.kind = "plt" THEN o.plt ELSE o.got
        IN  HasTable(s.base, IF s.kind = "plt" THEN "JMPREL" ELSE "REL") =>
                /\ s.from = s.base
                /\ Symbols(s.base)[table[s.entry].sym] = name
                /\ table[s.entry].type # "other"
=============================================================================
