-------------------------- MODULE ElfLookupProofs --------------------------
(***************************************************************************)
(* The lookup of a symbol's slots, for every name and every list of loaded  *)
(* objects in an order in which they do not get in each other's way         *)
(* (Regular): it searches each object with that object's own tables and     *)
(* stops at the first that has the name.  Where that object has relocations *)
(* of its own, it finds slots of that symbol only.                          *)
(*                                                                         *)
(* phdr_info is never cleared, so what carries the proof is what earlier    *)
(* objects may have left in it: a bloom filter only if one before has a     *)
(* GNU hash table (BloomKnown), and then the one searched has its own.      *)
(***************************************************************************)
EXTENDS ElfLookup, SequenceTheorems, TLAPS

----------------------------------------------------------------------------
(* The inductive invariant *)

ArgsOK == objs \in LinkMaps /\ name \in Requests

\* The lookup is at an object, or past the last one
Position == obj \in 1 .. Len(objs) + 1

PhdrType ==
    phdr \in [symtab : 0 .. Len(objs), rela : BOOLEAN,
              relplt : 0 .. Len(objs), reldyn : 0 .. Len(objs),
              bloom : 0 .. Len(objs), table : 0 .. Len(objs)]

HasGnu(o) == Contains(objs[o].dyn, "GNU_HASH")

\* A bloom filter was left by an object that has a GNU hash table
LeftFilter(o) == HasGnu(o) /\ objs[o].mapped
BloomKnown == ret = "none" /\ phdr.bloom # 0 => \E o \in 1 .. obj - 1 : LeftFilter(o)

\* No object that was passed lists the name
Passed == \A o \in 1 .. obj - 1 : ~(Searched(o) /\ Contains(OwnList(o), name))

\* What was found, once the iteration is over
Outcome ==
    /\ ret \in {"none", "SUCCESS", "GOTNOTFOUND", "UNKNOWN"}
    /\ symidx \in Nat
    /\ ret \in {"SUCCESS", "GOTNOTFOUND"} => Symbols(obj)[symidx] = name
    /\ ret = "UNKNOWN" => obj > Len(objs)

SlotsHere == \A s \in slots : s.kind \in {"plt", "got"} /\ s.base \in DOMAIN objs

LInv == /\ ArgsOK /\ Position /\ PhdrType /\ BloomKnown /\ Passed /\ Outcome
        /\ SlotsHere

Has(o, tag) == Contains(objs[o].dyn, tag)

----------------------------------------------------------------------------
(* Objects *)

\* The objects, and their symbols, are what LookupAssumption says.
LEMMA ObjectTypes ==
    ASSUME ArgsOK
    PROVE  /\ objs \in Seq(Object(Requests)) /\ Len(objs) \in Nat
           /\ DOMAIN objs = 1 .. Len(objs)
           /\ \A o \in DOMAIN objs :
                 /\ objs[o].dyn \in Seq(Tag) /\ objs[o].rela \in BOOLEAN
                 /\ objs[o].mapped \in BOOLEAN
                 /\ objs[o].imports \in Seq(Requests) /\ objs[o].defs \in Seq(Requests)
  <1>1. objs \in Seq(Object(Requests))
    BY LookupAssumption DEF ArgsOK
  <1>2. Len(objs) \in Nat /\ DOMAIN objs = 1 .. Len(objs)
    BY <1>1
  <1>3. \A o \in DOMAIN objs : objs[o] \in Object(Requests)
    BY <1>1, <1>2
  <1>4. ASSUME NEW x \in Object(Requests)
        PROVE  /\ x.dyn \in Seq(Tag) /\ x.rela \in BOOLEAN /\ x.mapped \in BOOLEAN
               /\ x.imports \in Seq(Requests) /\ x.defs \in Seq(Requests)
    BY DEF Object
  <1> QED
    BY <1>1, <1>2, <1>3, <1>4

\* The symbols of an object are its imports, then its definitions.
LEMMA SymbolsAre ==
    ASSUME ArgsOK, NEW o \in DOMAIN objs
    PROVE  /\ DOMAIN Symbols(o) = 1 .. Len(objs[o].imports) + Len(objs[o].defs)
           /\ Len(objs[o].imports) \in Nat /\ Len(objs[o].defs) \in Nat
           /\ \A j \in 1 .. Len(objs[o].defs) :
                 Symbols(o)[Len(objs[o].imports) + j] = objs[o].defs[j]
           /\ Symbols(o) \in Seq(Requests)
  <1>1. PICK s \in Seq(Requests), t \in Seq(Requests) :
            s = objs[o].imports /\ t = objs[o].defs
    BY ObjectTypes
  <1>2. /\ s \o t \in Seq(Requests)
        /\ Len(s \o t) = Len(s) + Len(t) /\ Len(s) \in Nat /\ Len(t) \in Nat
        /\ DOMAIN (s \o t) = 1 .. Len(s) + Len(t)
        /\ \A j \in 1 .. Len(t) : (s \o t)[Len(s) + j] = t[j]
    <2>1. s \o t \in Seq(Requests) /\ Len(s \o t) = Len(s) + Len(t)
      BY ConcatProperties
    <2>2. Len(s) \in Nat /\ Len(t) \in Nat /\ DOMAIN (s \o t) = 1 .. Len(s \o t)
      BY <2>1
    <2>3. \A i \in 1 .. Len(s) + Len(t) :
              (s \o t)[i] = IF i <= Len(s) THEN s[i] ELSE t[i - Len(s)]
      BY ConcatProperties
    <2>4. ASSUME NEW j \in 1 .. Len(t) PROVE (s \o t)[Len(s) + j] = t[j]
      <3>1. /\ Len(s) + j \in 1 .. Len(s) + Len(t)
            /\ ~(Len(s) + j <= Len(s)) /\ (Len(s) + j) - Len(s) = j
        BY <2>2
      <3> QED
        BY <2>3, <3>1
    <2> QED
      BY <2>1, <2>2, <2>4
  <1> QED
    BY <1>1, <1>2 DEF Symbols

\* Contains, without the length of the sequence.
LEMMA ContainsIs ==
    ASSUME NEW S, NEW s \in Seq(S), NEW e
    PROVE  Contains(s, e) <=> \E i \in DOMAIN s : s[i] = e
  BY DEF Contains

----------------------------------------------------------------------------
(* What a parse leaves in phdr *)

\* Every field is the object's own or what it was.
LEMMA ParsedFields ==
    ASSUME NEW o
    PROVE  LET ph == Parsed(o)
               tags == ReadTags(o)
           IN  /\ ph.symtab = IF "SYMTAB" \in tags THEN o ELSE phdr.symtab
               /\ ph.rela = IF "PLTREL" \in tags THEN objs[o].rela ELSE phdr.rela
               /\ ph.relplt = IF "JMPREL" \in tags THEN o ELSE phdr.relplt
               /\ ph.reldyn = IF "REL" \in tags THEN o ELSE phdr.reldyn
               /\ ph.bloom = IF "GNU_HASH" \in tags THEN o ELSE phdr.bloom
               /\ ph.table = IF "GNU_HASH" \in tags THEN o
                             ELSE IF phdr.bloom = 0 /\ "HASH" \in tags THEN o
                             ELSE phdr.table
  BY DEF Parsed

\* The parser reads tags of the object's own dynamic section, and all of them if
\* it does not give up.
LEMMA TagsRead ==
    ASSUME ArgsOK, NEW o \in DOMAIN objs, NEW tag
    PROVE  /\ tag \in ReadTags(o) => Contains(objs[o].dyn, tag)
           /\ ParseOk(o) /\ Contains(objs[o].dyn, tag) => tag \in ReadTags(o)
  <1>1. objs[o].dyn \in Seq(Tag)
    BY ObjectTypes
  <1>2. Contains(objs[o].dyn, tag) <=> \E i \in DOMAIN objs[o].dyn : objs[o].dyn[i] = tag
    BY <1>1, ContainsIs
  <1>3. ASSUME NEW i \in DOMAIN objs[o].dyn
        PROVE  \A j \in 1 .. i : j \in DOMAIN objs[o].dyn
    BY <1>1
  <1> QED
    BY <1>2, <1>3 DEF ReadTags, ParseOk

\* What a parse leaves has the type of phdr_info.
LEMMA ParsedType ==
    ASSUME LInv, Running
    PROVE  /\ Parsed(obj) \in [symtab : 0 .. Len(objs), rela : BOOLEAN,
                               relplt : 0 .. Len(objs), reldyn : 0 .. Len(objs),
                               bloom : 0 .. Len(objs), table : 0 .. Len(objs)]
           /\ obj \in DOMAIN objs /\ obj \in Nat /\ obj >= 1
           /\ obj + 1 \in 1 .. Len(objs) + 1
  <1>1. /\ obj \in 1 .. Len(objs) /\ Len(objs) \in Nat /\ DOMAIN objs = 1 .. Len(objs)
        /\ objs[obj].rela \in BOOLEAN
    BY ObjectTypes DEF LInv, Position, Running
  <1>2. obj \in 0 .. Len(objs)
    BY <1>1
  <1>3. Parsed(obj) \in [symtab : 0 .. Len(objs), rela : BOOLEAN,
                         relplt : 0 .. Len(objs), reldyn : 0 .. Len(objs),
                         bloom : 0 .. Len(objs), table : 0 .. Len(objs)]
    BY <1>1, <1>2 DEF Parsed, LInv, PhdrType
  <1> QED
    BY <1>1, <1>3

\* A bloom filter a parse leaves is the object's own or was there before.
LEMMA ParsedLeft ==
    ASSUME LInv, Running
    PROVE  Parsed(obj).bloom # 0 => \E o \in 1 .. obj : LeftFilter(o)
  <1>1. obj \in DOMAIN objs /\ obj \in 1 .. obj /\ ArgsOK
        /\ \A o \in 1 .. obj - 1 : o \in 1 .. obj
    BY ParsedType DEF LInv
  <1>2. "GNU_HASH" \in ReadTags(obj) => LeftFilter(obj)
    <2> SUFFICES ASSUME "GNU_HASH" \in ReadTags(obj) PROVE LeftFilter(obj)
      OBVIOUS
    <2>1. HasGnu(obj)
      BY <1>1, TagsRead DEF HasGnu
    <2>2. PICK k \in DOMAIN objs[obj].dyn :
              objs[obj].dyn[k] = "GNU_HASH" /\ \A j \in 1 .. k : ~Unmapped(obj, j)
      BY DEF ReadTags
    <2>3. objs[obj].dyn \in Seq(Tag)
      BY <1>1, ObjectTypes
    <2>4. k \in 1 .. k
      BY <2>3
    <2> QED
      BY <2>1, <2>2, <2>4 DEF Unmapped, LeftFilter
  <1> QED
    BY <1>1, <1>2, ParsedFields DEF LInv, BloomKnown, Running

\* An object that can be searched has all of its tags read, and no GNU hash table
\* that is not mapped.
LEMMA SearchedRead ==
    ASSUME LInv, Running, Searched(obj)
    PROVE  /\ obj \in DOMAIN objs /\ obj # 0 /\ objs \in LinkMaps /\ ArgsOK
           /\ objs[obj].dyn # <<>> /\ (HasGnu(obj) => objs[obj].mapped)
           /\ \A tag : tag \in ReadTags(obj) <=> Has(obj, tag)
  <1>1. /\ obj \in DOMAIN objs /\ obj # 0 /\ objs \in LinkMaps /\ ArgsOK
        /\ objs[obj].dyn # <<>> /\ ParseOk(obj)
    BY ParsedType DEF LInv, ArgsOK, Searched
  <1>2. objs[obj].dyn \in Seq(Tag)
    BY <1>1, ObjectTypes
  <1>3. HasGnu(obj) => objs[obj].mapped
    BY <1>1, <1>2, ContainsIs DEF HasGnu, ParseOk, Unmapped
  <1> QED
    BY <1>1, <1>3, TagsRead DEF Has

\* It is searched with its own tables, and with the bloom filter if and only if it
\* has one.
LEMMA SearchTables ==
    ASSUME Regular, LInv, Running, Searched(obj)
    PROVE  LET ph == Parsed(obj)
           IN  /\ ph.symtab = obj /\ ph.table = obj
               /\ ph.bloom # 0 <=> HasGnu(obj)
  <1>1. /\ Has(obj, "SYMTAB")
        /\ \/ HasGnu(obj)
           \/ Has(obj, "HASH") /\ \A p \in 1 .. obj - 1 : ~LeftFilter(p)
    BY SearchedRead DEF Regular, HasGnu, Has, LeftFilter
  <1>2. /\ "SYMTAB" \in ReadTags(obj)
        /\ "GNU_HASH" \in ReadTags(obj) <=> HasGnu(obj)
        /\ HasGnu(obj) \/ "HASH" \in ReadTags(obj)
    BY <1>1, SearchedRead DEF HasGnu, Has
  <1>3. ~HasGnu(obj) => phdr.bloom = 0
    BY <1>1 DEF LInv, BloomKnown, Running
  <1>4. obj # 0
    BY SearchedRead
  <1> QED
    BY <1>2, <1>3, <1>4, ParsedFields

\* It is patched with its own relocations, where it has some.
LEMMA SearchRelocations ==
    ASSUME LInv, Running, Searched(obj)
    PROVE  /\ HasTable(obj, "JMPREL") => Parsed(obj).relplt = obj
           /\ HasTable(obj, "REL") => Parsed(obj).reldyn = obj
  <1>1. /\ HasTable(obj, "JMPREL") => "JMPREL" \in ReadTags(obj)
        /\ HasTable(obj, "REL") => "REL" \in ReadTags(obj)
    BY SearchedRead DEF HasTable, Has
  <1> QED
    BY <1>1, ParsedFields

----------------------------------------------------------------------------
(* What a search finds *)

\* What the object's own list holds is found in it.
LEMMA MustFindListed ==
    ASSUME ArgsOK, NEW o \in DOMAIN objs, NEW ph, ph.symtab = o, ph.table = o,
           ph.bloom # 0 <=> HasGnu(o), Contains(OwnList(o), name)
    PROVE  MustFind(ph) # {}
  <1>1. /\ objs[o].defs \in Seq(Requests) /\ objs[o].imports \in Seq(Requests)
        /\ Symbols(o) \in Seq(Requests)
    BY ObjectTypes, SymbolsAre
  <1>2. PICK i \in DOMAIN Symbols(o) : Symbols(o)[i] = name /\ i \in Listed(ph)
    <2>1. CASE HasGnu(o)
      <3>1. PICK j \in DOMAIN objs[o].defs : objs[o].defs[j] = name
        BY <1>1, <2>1, ContainsIs DEF OwnList, HasGnu
      <3>2. PICK n, m \in Nat : n = Len(objs[o].imports) /\ m = Len(objs[o].defs)
        BY <1>1
      <3>3. j \in 1 .. m
        BY <1>1, <3>1, <3>2
      <3>4. n + j \in 1 .. n + m /\ n + j > n
        BY <3>3
      <3>5. n + j \in DOMAIN Symbols(o) /\ Symbols(o)[n + j] = name
        BY <3>1, <3>2, <3>3, <3>4, SymbolsAre
      <3>6. n + j \in Listed(ph)
        BY <2>1, <3>2, <3>4, <3>5 DEF Listed
      <3> QED
        BY <3>5, <3>6
    <2>2. CASE ~HasGnu(o)
      <3>1. PICK i \in DOMAIN Symbols(o) : Symbols(o)[i] = name
        BY <1>1, <2>2, ContainsIs DEF OwnList, HasGnu
      <3> QED
        BY <2>2, <3>1 DEF Listed
    <2> QED
      BY <2>1, <2>2
  <1> QED
    BY <1>2 DEF MustFind, MayFind, Hits

\* What is found in the object's own tables is the name.
LEMMA MayFindNamed ==
    ASSUME ArgsOK, NEW o \in DOMAIN objs, NEW ph, ph.table = o, NEW i \in MayFind(ph)
    PROVE  Symbols(o)[i] = name /\ i \in Nat
  <1>1. i \in DOMAIN Symbols(o) /\ Symbols(o)[i] = name
    BY DEF MayFind, Hits, Listed
  <1> QED
    BY <1>1, SymbolsAre

\* What the entries are that slots are made of.
LEMMA SlotsAre ==
    ASSUME NEW o, NEW ph, NEW i, NEW s \in PltSlots(ph, o, i) \cup GotSlots(ph, o, i)
    PROVE  LET r == IF s.kind = "plt" THEN ph.relplt ELSE ph.reldyn
               table == IF s.kind = "plt" THEN objs[r].plt ELSE objs[r].got
           IN  /\ s.kind \in {"plt", "got"} /\ s.base = o /\ s.from = r
               /\ table[s.entry].sym = i /\ table[s.entry].type # "other"
  <1>1. ASSUME NEW r, NEW kind, NEW table, NEW types, "other" \notin types,
               s \in Slot(o, r, kind, table, i, types)
        PROVE  /\ s.kind = kind /\ s.base = o /\ s.from = r
               /\ table[s.entry].sym = i /\ table[s.entry].type # "other"
    BY <1>1 DEF Slot, Matches
  <1>2. \/ s \in Slot(o, ph.relplt, "plt", objs[ph.relplt].plt, i, {"jump_slot"})
        \/ s \in Slot(o, ph.reldyn, "got", objs[ph.reldyn].got, i, {"glob_dat", "abs"})
    BY DEF PltSlots, GotSlots
  <1> QED
    BY <1>1, <1>2

----------------------------------------------------------------------------
(* The steps *)

LEMMA InitLInv == Init => LInv
  <1> SUFFICES ASSUME Init PROVE LInv
    OBVIOUS
  <1>1. ArgsOK
    BY DEF Init, ArgsOK
  <1>2. Len(objs) \in Nat
    BY <1>1, ObjectTypes
  <1>3. Position /\ PhdrType
    BY <1>2 DEF Init, Position, PhdrType, Cleared
  <1> QED
    BY <1>1, <1>3
       DEF Init, LInv, BloomKnown, Cleared, Passed, Outcome, SlotsHere

\* The callback of an object that does not have the name returns 0.
LEMMA PassStep ==
    ASSUME LInv, Running, NextObject, phdr' \in {phdr, Parsed(obj)},
           ~(Searched(obj) /\ Contains(OwnList(obj), name))
    PROVE  LInv'
  <1>1. UNCHANGED <<objs, name, symidx, slots, ret>> /\ obj' = obj + 1 /\ ret = "none"
    BY DEF NextObject, Running
  <1>2. Position' /\ obj \in Nat
    BY <1>1, ParsedType DEF Position
  <1>3. PhdrType' /\ BloomKnown'
    <2>1. PhdrType'
      BY <1>1, ParsedType DEF LInv, PhdrType
    <2>2. \A o : LeftFilter(o)' = LeftFilter(o)
      BY <1>1 DEF LeftFilter, HasGnu
    <2>3. phdr'.bloom # 0 => \E o \in 1 .. obj : LeftFilter(o)
      BY <1>1, <1>2, ParsedLeft DEF LInv, BloomKnown
    <2>4. (obj + 1) - 1 = obj
      BY <1>2
    <2> QED
      BY <1>1, <2>1, <2>2, <2>3, <2>4 DEF BloomKnown
  <1>4. Passed'
    <2>1. \A o : Searched(o)' = Searched(o) /\ OwnList(o)' = OwnList(o)
      BY <1>1 DEF Searched, ParseOk, Unmapped, OwnList, Symbols
    <2>2. \A o \in 1 .. (obj + 1) - 1 : o = obj \/ o \in 1 .. obj - 1
      BY <1>2
    <2> QED
      BY <1>1, <2>1, <2>2 DEF LInv, Passed
  <1>5. ArgsOK' /\ Outcome' /\ SlotsHere'
    BY <1>1 DEF LInv, ArgsOK, Outcome, SlotsHere, Symbols
  <1> QED
    BY <1>2, <1>3, <1>4, <1>5 DEF LInv

LEMMA NotFoundStep == Regular /\ LInv /\ NotFound => LInv'
  <1> SUFFICES ASSUME Regular, LInv, NotFound PROVE LInv'
    OBVIOUS
  <1>1. PICK ph : ph = Parsed(obj)
    OBVIOUS
  <1>2. /\ Running /\ Searched(obj) /\ NextObject /\ phdr' = ph
        /\ MustFind(ph) = {}
    BY <1>1 DEF NotFound, Searched
  <1>3. ph.symtab = obj /\ ph.table = obj /\ (ph.bloom # 0 <=> HasGnu(obj))
    BY <1>1, <1>2, SearchTables
  <1>4. obj \in DOMAIN objs
    BY <1>2, ParsedType
  <1>5. ~Contains(OwnList(obj), name)
    BY <1>2, <1>3, <1>4, MustFindListed DEF LInv
  <1> QED
    BY <1>1, <1>2, <1>5, PassStep

LEMMA FoundStep == Regular /\ LInv /\ Found => LInv'
  <1> SUFFICES ASSUME Regular, LInv, Found PROVE LInv'
    OBVIOUS
  <1>1. PICK ph : ph = Parsed(obj)
    OBVIOUS
  <1>2. PICK i \in MayFind(ph) :
            /\ symidx' = i
            /\ slots' = PltSlots(ph, obj, i) \cup GotSlots(ph, obj, i)
            /\ ret' = IF slots' = {} THEN "GOTNOTFOUND" ELSE "SUCCESS"
    BY <1>1 DEF Found
  <1>3. /\ Running /\ Searched(obj) /\ phdr' = ph
        /\ UNCHANGED <<objs, name, obj>>
    BY <1>1 DEF Found, Searched
  <1>4. ph.table = obj
    BY <1>1, <1>3, SearchTables
  <1>5. obj \in DOMAIN objs
    BY <1>3, ParsedType
  <1>6. Symbols(obj)[i] = name /\ i \in Nat
    BY <1>4, <1>5, MayFindNamed DEF LInv
  <1>7. PhdrType' /\ BloomKnown'
    BY <1>1, <1>2, <1>3, ParsedType DEF PhdrType, BloomKnown
  <1>8. \A o : Symbols(o)' = Symbols(o) /\ Searched(o)' = Searched(o)
               /\ OwnList(o)' = OwnList(o)
    BY <1>3 DEF Symbols, Searched, ParseOk, Unmapped, OwnList
  <1>9. Passed' /\ Position' /\ ArgsOK'
    BY <1>3, <1>8 DEF LInv, Passed, Position, ArgsOK
  <1>10. Outcome'
    BY <1>2, <1>3, <1>6, <1>8 DEF Outcome
  <1>11. SlotsHere'
    BY <1>2, <1>3, <1>5, SlotsAre DEF SlotsHere
  <1> QED
    BY <1>7, <1>9, <1>10, <1>11 DEF LInv

LEMMA ExhaustedStep == LInv /\ Exhausted => LInv'
  <1> SUFFICES ASSUME LInv, Exhausted PROVE LInv'
    OBVIOUS
  <1> QED
    BY DEF Exhausted, LInv, ArgsOK, Position, PhdrType, BloomKnown, Passed,
           Searched, ParseOk, Unmapped, OwnList, Symbols, Outcome, SlotsHere

LEMMA NextLInv == Regular /\ LInv /\ [Next]_vars => LInv'
  <1> SUFFICES ASSUME Regular, LInv, [Next]_vars PROVE LInv'
    OBVIOUS
  <1>1. CASE NoDynamic
    BY <1>1, PassStep DEF NoDynamic, Searched
  <1>2. CASE ParseFails
    BY <1>2, PassStep DEF ParseFails, Searched
  <1>3. CASE UNCHANGED vars
    BY <1>3 DEF vars, LInv, ArgsOK, Position, PhdrType, BloomKnown, LeftFilter, HasGnu,
                Passed, Searched, ParseOk, Unmapped, OwnList, Symbols, Outcome, SlotsHere
  <1> QED
    BY <1>1, <1>2, <1>3, NotFoundStep, FoundStep, ExhaustedStep DEF Next

\* The slots found
LEMMA NextSlots == Regular /\ LInv /\ SlotsOfSymbol /\ [Next]_vars => SlotsOfSymbol'
  <1> SUFFICES ASSUME Regular, LInv, SlotsOfSymbol, [Next]_vars PROVE SlotsOfSymbol'
    OBVIOUS
  <1>1. objs' = objs /\ name' = name /\ (slots' = slots \/ Found)
    BY DEF Next, NoDynamic, ParseFails, NotFound, NextObject, Found, Exhausted, vars
  <1>2. /\ \A o : Symbols(o)' = Symbols(o)
        /\ \A o, tag : HasTable(o, tag)' = HasTable(o, tag)
    BY <1>1 DEF Symbols, HasTable
  <1>3. CASE slots' = slots
    BY <1>1, <1>2, <1>3 DEF SlotsOfSymbol
  <1>4. CASE Found
    <2>1. PICK ph : ph = Parsed(obj)
      OBVIOUS
    <2>2. PICK i \in MayFind(ph) :
              slots' = PltSlots(ph, obj, i) \cup GotSlots(ph, obj, i)
      BY <1>4, <2>1 DEF Found
    <2>3. Running /\ Searched(obj)
      BY <1>4 DEF Found, Searched
    <2>4. /\ ph.table = obj
          /\ HasTable(obj, "JMPREL") => ph.relplt = obj
          /\ HasTable(obj, "REL") => ph.reldyn = obj
      BY <2>1, <2>3, SearchTables, SearchRelocations
    <2>5. Symbols(obj)[i] = name
      BY <2>3, <2>4, ParsedType, MayFindNamed DEF LInv
    <2> SUFFICES
          ASSUME NEW s \in slots',
                 HasTable(s.base, IF s.kind = "plt" THEN "JMPREL" ELSE "REL")
          PROVE  LET table == IF s.kind = "plt" THEN objs[s.base].plt
                              ELSE objs[s.base].got
                 IN  /\ s.from = s.base
                     /\ Symbols(s.base)[table[s.entry].sym] = name
                     /\ table[s.entry].type # "other"
      BY <1>1, <1>2 DEF SlotsOfSymbol
    <2>6. s \in PltSlots(ph, obj, i) \cup GotSlots(ph, obj, i)
      BY <2>2
    <2>7. CASE s.kind = "plt"
      <3>1. /\ s.base = obj /\ s.from = ph.relplt
            /\ objs[ph.relplt].plt[s.entry].sym = i
            /\ objs[ph.relplt].plt[s.entry].type # "other"
        BY <2>6, <2>7, SlotsAre
      <3> QED
        BY <2>4, <2>5, <2>7, <3>1
    <2>8. CASE s.kind # "plt"
      <3>1. /\ s.base = obj /\ s.from = ph.reldyn
            /\ objs[ph.reldyn].got[s.entry].sym = i
            /\ objs[ph.reldyn].got[s.entry].type # "other"
        BY <2>6, <2>8, SlotsAre
      <3> QED
        BY <2>4, <2>5, <2>8, <3>1
    <2> QED
      BY <2>7, <2>8
  <1> QED
    BY <1>1, <1>3, <1>4

----------------------------------------------------------------------------
(* The theorems *)

\* Every state of every lookup among regular objects satisfies the invariant.
THEOREM LookupInvariant == ASSUME Regular PROVE Spec => []LInv
  <1>1. LInv /\ [Next]_vars => LInv'
    BY NextLInv
  <1> QED
    BY <1>1, InitLInv, PTL DEF Spec

\* The variables of the lookup keep their types.
THEOREM LookupTypes == ASSUME Regular PROVE Spec => []TypeOK
  <1>1. LInv => TypeOK
    BY DEF LInv, Position, PhdrType, Outcome, SlotsHere, TypeOK
  <1> QED
    BY <1>1, LookupInvariant, PTL

\* The lookup stops at the first object in the loader's order whose own hash
\* table lists the name, and gives up only if none does.
THEOREM LookupFirstOwner == ASSUME Regular PROVE Spec => []FirstOwner
  <1>1. LInv => FirstOwner
    <2> SUFFICES ASSUME LInv PROVE FirstOwner
      OBVIOUS
    <2>1. ret = "UNKNOWN" => \A o \in DOMAIN objs : o \in 1 .. obj - 1
      BY ObjectTypes DEF LInv, Outcome, Position
    <2> QED
      BY <2>1 DEF LInv, Passed, Outcome, FirstOwner
  <1> QED
    BY <1>1, LookupInvariant, PTL

\* An object that has a relocation table of its own is patched through that one,
\* and only at slots of the symbol, whether or not the objects around it have one.
THEOREM LookupSlots == ASSUME Regular PROVE Spec => []SlotsOfSymbol
  <1>1. Init => SlotsOfSymbol
    BY DEF Init, SlotsOfSymbol
  <1>2. LInv /\ SlotsOfSymbol /\ [Next]_vars => SlotsOfSymbol'
    BY NextSlots
  <1> QED
    BY <1>1, <1>2, LookupInvariant, PTL DEF Spec
=============================================================================
