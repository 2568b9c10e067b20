------------------------------ MODULE FuncSize ------------------------------
(***************************************************************************)
(* elf_get_function_size of src/src/os/elf.c: the size of a function, from  *)
(* its address.  The address is looked up twice, in /proc/self/maps for the *)
(* path of the object it lies in, and in the loader's list for the address  *)
(* that object was loaded at; then the file that is now at the path is read *)
(* for a symbol with the function's address.                                *)
(*                                                                         *)
(* External: the kernel, which lists one mapping after the other, the       *)
(* loader, and a program whose threads load and unload other objects        *)
(* between any two steps.                                                   *)
(***************************************************************************)
EXTENDS ElfFormat, FiniteSets

CONSTANTS
    Object, Path,
    Base,      \* dlpi_addr: where an object was loaded, 0 if it cannot be moved
    Segments,  \* its program headers, each [vaddr, memsz]
    Areas,     \* its mappings, each [start, end]; end is the first byte behind
    PathOf,    \* the path the kernel shows for them
    Anonymous, \* mappings that have no path
    Start,     \* the objects loaded at first, in the loader's order
    Plugin,    \* the objects that may be loaded and unloaded meanwhile
    Disks,     \* the files that may be at the paths: functions to File or NoFile
    Target,    \* addresses of functions
    NoFile, NoPath, Null, Uninit, Unknown

Mapping == [start : Nat, end : Nat]

ASSUME SizeAssumption ==
    /\ Base \in [Object -> Nat] /\ PathOf \in [Object -> Path]
    /\ \A o \in Object : \A a \in Areas[o] : a \in Mapping
    /\ \A a \in Anonymous : a \in Mapping
    /\ Start \in Seq(Object) /\ Plugin \subseteq Object /\ Target \subseteq Nat
    /\ \A i, j \in DOMAIN Start : i # j => Start[i] # Start[j]
    /\ Disks \subseteq [Path -> File \cup {NoFile}] /\ NoFile \notin File
    /\ NoPath \notin Path
    /\ Unknown \notin Nat \cup {-1}

\* What was read is not NULL, and NULL is not what happens to be on the stack
ASSUME NullAssumption ==
    /\ Null \notin File /\ Null # Uninit
    /\ \A f \in File : LET i == ParseFile(Content[f]) IN
          i.ret < 0 \/
              /\ i \notin {Null, Uninit}
              /\ \A n \in DOMAIN i.shdr : LET s == ParseSymbols(Content[f], i, n) IN
                    s.ret < 0 \/ s.list # Null

VARIABLES
    loaded,  \* the loader's list
    disk,    \* the file at each path
    pc,
    target,  \* the address asked for
    cursor,  \* how far /proc/self/maps has been read
    path, reloc, file, info, sec, list,  \* the locals of the C functions
    result,  \* the size, -1 without one, Unknown before
    heap,    \* how many streams, infos and lists of symbols are open or allocated
    oom      \* history: an allocation of this call failed

locals == <<target, cursor, path, reloc, file, info, sec, list, result, oom>>
sizeVars == <<loaded, disk, pc, locals, heap>>

Idle ==
    /\ pc = "idle"
    /\ target = Unknown /\ cursor = 0 /\ path = NoPath /\ reloc = 0
    /\ file = Null /\ info = Uninit /\ sec = 0 /\ list = Null /\ result = Unknown
    /\ oom = FALSE

InitSize ==
    /\ loaded = Start
    /\ disk \in Disks
    /\ Idle
    /\ heap = [stream |-> 0, info |-> 0, list |-> 0]

IsLoaded(o) == \E i \in DOMAIN loaded : loaded[i] = o

----------------------------------------------------------------------------
(* _elf_find_path *)

Line(a, p) == [start |-> a.start, end |-> a.end, path |-> p]
Lines == {Line(a, NoPath) : a \in Anonymous} \cup
         UNION {{Line(a, PathOf[o]) : a \in Areas[o]} : o \in {x \in Object : IsLoaded(x)}}
Ahead == {l \in Lines : l.start >= cursor}

\* elf_get_function_size(t) opens /proc/self/maps
BeginSize(t) ==
    /\ pc = "idle"
    /\ pc' = "maps"
    /\ target' = t
    /\ heap' = [heap EXCEPT !.stream = @ + 1]
    /\ UNCHANGED <<loaded, disk, cursor, path, reloc, file, info, sec, list, result, oom>>

BeginSizeFails(t) ==
    /\ pc = "idle"
    /\ pc' = "sized"
    /\ target' = t
    /\ result' = -1
    /\ UNCHANGED <<loaded, disk, cursor, path, reloc, file, info, sec, list, oom, heap>>

\* Both ends count; a line without a path is skipped
Covers(l) == l.path # NoPath /\ l.start <= target /\ target <= l.end

ReadLine ==
    /\ pc = "maps"
    /\ \E l \in Ahead :
          /\ \A other \in Ahead : l.start <= other.start
          /\ IF Covers(l)
             THEN /\ path' = l.path
                  /\ pc' = "open"
                  /\ heap' = [heap EXCEPT !.stream = @ - 1]
                  /\ UNCHANGED cursor
             ELSE cursor' = l.end /\ UNCHANGED <<path, pc, heap>>
    /\ UNCHANGED <<loaded, disk, target, reloc, file, info, sec, list, result, oom>>

NoLine ==
    /\ pc = "maps" /\ Ahead = {}
    /\ pc' = "sized"
    /\ result' = -1
    /\ heap' = [heap EXCEPT !.stream = @ - 1]
    /\ UNCHANGED <<loaded, disk, target, cursor, path, reloc, file, info, sec, list, oom>>

----------------------------------------------------------------------------
(* _elf_get_function_size_from_object *)

\* fopen of the path, whose result is not looked at
OpenFile ==
    /\ pc = "open"
    /\ file' = IF disk[path] = NoFile THEN Null ELSE disk[path]
    /\ heap' = IF disk[path] = NoFile THEN heap ELSE [heap EXCEPT !.stream = @ + 1]
    /\ pc' = "locate"
    /\ UNCHANGED <<loaded, disk, target, cursor, path, reloc, info, sec, list, result, oom>>

\* _elf_dl_iterate_phdr_callback; mutant: the end of a segment is not looked at
HasAddressAbove(o, t) ==
    \E s \in Segments[o] : Base[o] + s.vaddr <= t
HasAddress(o, t) ==
    \E s \in Segments[o] : LET start == Base[o] + s.vaddr
                           IN  start <= t /\ t <= start + s.memsz

\* elf_get_relocation_by_addr, under the loader's lock; no object is a zero, and
\* so is one loaded where it was linked
Relocation ==
    LET hits == {i \in DOMAIN loaded : HasAddress(loaded[i], target)}
    IN  IF hits = {} THEN 0
        ELSE Base[loaded[CHOOSE i \in hits : \A j \in hits : i <= j]]

\* On a zero, control jumps over the initialization of info
Locate ==
    /\ pc = "locate"
    /\ reloc' = Relocation
    /\ IF Relocation = 0
       THEN pc' = "fin" /\ result' = -1 /\ UNCHANGED info
       ELSE pc' = "parse" /\ info' = Null /\ UNCHANGED result
    /\ UNCHANGED <<loaded, disk, target, cursor, path, file, sec, list, oom, heap>>

\* elf_parser_file; the info of a file without headers is there, but its result
\* counts as a failure
ReadFile ==
    /\ pc = "parse" /\ file # Null
    /\ LET r == ParseFile(Content[file])
       IN  /\ info' = IF r.ret < 0 THEN Null ELSE r
           /\ heap' = IF r.ret < 0 THEN heap ELSE [heap EXCEPT !.info = @ + 1]
           /\ IF r.ret # 0
              THEN pc' = "fin" /\ result' = -1 /\ UNCHANGED sec
              ELSE pc' = "scan" /\ sec' = 1 /\ UNCHANGED result
    /\ UNCHANGED <<loaded, disk, target, cursor, path, reloc, file, list, oom>>

ReadFileOom ==
    /\ pc = "parse" /\ file # Null
    /\ ParseEhdr(Content[file]).ret >= 0
    /\ pc' = "fin"
    /\ result' = -1
    /\ oom' = TRUE
    /\ UNCHANGED <<loaded, disk, target, cursor, path, reloc, file, info, sec, list, heap>>

\* fseek of a stream that was not opened
ReadNoFile ==
    /\ pc = "parse" /\ file = Null
    /\ pc' = "crashed"
    /\ UNCHANGED <<loaded, disk, locals, heap>>

\* SHT_SYMTAB and SHT_DYNSYM; mutant: only the former
IsSymtab(i) == info.shdr[i]["sh_type"] = 2
IsSymbolTable(i) == info.shdr[i]["sh_type"] \in {2, 11}

SkipSection ==
    /\ pc = "scan" /\ sec \in DOMAIN info.shdr
    /\ ~IsSymbolTable(sec)
    /\ sec' = sec + 1
    /\ UNCHANGED <<loaded, disk, pc, target, cursor, path, reloc, file, info, list,
                   result, oom, heap>>

\* elf_parser_symbol: a table that cannot be read is one without symbols
ReadSymbols ==
    /\ pc = "scan" /\ sec \in DOMAIN info.shdr
    /\ IsSymbolTable(sec)
    /\ LET r == ParseSymbols(Content[file], info, sec)
       IN  IF r.ret < 0
           THEN sec' = sec + 1 /\ UNCHANGED <<pc, list, heap>>
           ELSE /\ list' = r.list
                /\ heap' = [heap EXCEPT !.list = @ + 1]
                /\ pc' = "search"
                /\ UNCHANGED sec
    /\ UNCHANGED <<loaded, disk, target, cursor, path, reloc, file, info, result, oom>>

ReadSymbolsOom ==
    /\ pc = "scan" /\ sec \in DOMAIN info.shdr
    /\ IsSymbolTable(sec)
    /\ info.shdr[sec]["sh_entsize"] \in {SizeOf(SymLayout32), SizeOf(SymLayout64)}
    /\ sec' = sec + 1
    /\ oom' = TRUE
    /\ UNCHANGED <<loaded, disk, pc, target, cursor, path, reloc, file, info, list,
                   result, heap>>

HasValue(s) == s["st_value"] = target - reloc
Match(i) == HasValue(list[i]) /\ \A j \in 1 .. i - 1 : ~HasValue(list[j])

\* Mutant of Search: the list is released only at the end
SearchKeepsList ==
    /\ pc = "search"
    /\ \/ \E i \in DOMAIN list :
             /\ Match(i)
             /\ result' = list[i]["st_size"]
             /\ pc' = "fin"
             /\ UNCHANGED <<sec, list, heap>>
       \/ /\ \A i \in DOMAIN list : ~HasValue(list[i])
          /\ sec' = sec + 1 /\ list' = Null /\ pc' = "scan"
          /\ UNCHANGED <<result, heap>>
    /\ UNCHANGED <<loaded, disk, target, cursor, path, reloc, file, info, oom>>

\* The first symbol with the address decides, whatever its type
Search ==
    /\ pc = "search"
    /\ \/ \E i \in DOMAIN list :
             /\ Match(i)
             /\ result' = list[i]["st_size"]
             /\ pc' = "fin"
             /\ UNCHANGED <<sec, list, heap>>
       \/ /\ \A i \in DOMAIN list : ~HasValue(list[i])
          /\ sec' = sec + 1
          /\ list' = Null
          /\ heap' = [heap EXCEPT !.list = @ - 1]
          /\ pc' = "scan"
          /\ UNCHANGED result
    /\ UNCHANGED <<loaded, disk, target, cursor, path, reloc, file, info, oom>>

\* Mutant of NoSymbol: ret has no initial value
NoSymbolUnset ==
    /\ pc = "scan" /\ sec \notin DOMAIN info.shdr
    /\ pc' = "fin"
    /\ UNCHANGED <<loaded, disk, locals, heap>>

NoSymbol ==
    /\ pc = "scan" /\ sec \notin DOMAIN info.shdr
    /\ pc' = "fin"
    /\ result' = -1
    /\ UNCHANGED <<loaded, disk, target, cursor, path, reloc, file, info, sec, list, oom, heap>>

\* fin: the list and the info are released unless they are NULL, which an
\* uninitialized info may or may not be
Release ==
    /\ pc = "fin" /\ file # Null
    /\ heap' = [stream |-> heap.stream - 1,
                info |-> IF info \in {Null, Uninit} THEN heap.info ELSE heap.info - 1,
                list |-> IF list = Null THEN heap.list ELSE heap.list - 1]
    /\ pc' = "sized"
    /\ UNCHANGED <<loaded, disk, locals>>

\* free of a stray pointer, or fclose of NULL
ReleaseCrashes ==
    /\ pc = "fin"
    /\ info = Uninit \/ file = Null
    /\ pc' = "crashed"
    /\ UNCHANGED <<loaded, disk, locals, heap>>

\* The caller takes the result; the locals are gone
EndSize ==
    /\ pc = "sized"
    /\ pc' = "idle"
    /\ target' = Unknown /\ cursor' = 0 /\ path' = NoPath /\ reloc' = 0
    /\ file' = Null /\ info' = Uninit /\ sec' = 0 /\ list' = Null
    /\ result' = Unknown /\ oom' = FALSE
    /\ UNCHANGED <<loaded, disk, heap>>

SizeStep ==
    \/ ReadLine \/ NoLine \/ OpenFile \/ Locate
    \/ ReadFile \/ ReadFileOom \/ ReadNoFile
    \/ SkipSection \/ ReadSymbols \/ ReadSymbolsOom \/ Search \/ NoSymbol
    \/ Release \/ ReleaseCrashes

----------------------------------------------------------------------------
(* External: dlopen and dlclose of objects that nobody hooks *)

Load(o) ==
    /\ pc # "crashed"
    /\ o \in Plugin /\ ~IsLoaded(o)
    /\ loaded' = Append(loaded, o)
    /\ UNCHANGED <<disk, pc, locals, heap>>

Unload(o) ==
    /\ pc # "crashed"
    /\ o \in Plugin
    /\ \E i \in DOMAIN loaded : loaded[i] = o /\ loaded' = RemoveAt(loaded, i)
    /\ UNCHANGED <<disk, pc, locals, heap>>

----------------------------------------------------------------------------
(* Properties *)

\* What is read out of a file is what the file says: every field of every header
\* and of every symbol, for both classes and both byte orders.
ParsedFaithfully ==
    /\ info \notin {Null, Uninit} =>
          LET means == Content[file].means
          IN  info.ehdr = means.ehdr /\ info.phdr = means.phdr /\ info.shdr = means.shdr
    /\ list # Null => list = Content[file].means.symbols[sec]

\* The symbols the file has for the address, in tables that can be read
There ==
    LET c == Content[file]
    IN  {h \in UNION {{n} \X DOMAIN c.means.symbols[n] : n \in DOMAIN c.means.symbols} :
            /\ TableThere(c, h[1])
            /\ c.means.symbols[h[1]][h[2]]["st_value"] = target - reloc}

SizeMeant ==
    LET c     == Content[file]
        first == CHOOSE h \in There : \A o \in There :
                    h[1] < o[1] \/ (h[1] = o[1] /\ h[2] <= o[2])
    IN  IF ~(c.magic /\ c.means.headersEnd <= c.length) \/ There = {} THEN -1
        ELSE c.means.symbols[first[1]][first[2]]["st_size"]

\* The size returned is that of the first symbol with the function's address in
\* the tables that are all there and that an int can count; there is none if no
\* symbol has the address, or if the file is no ELF file, has no headers or is cut
\* off before the last one.
SizeOfSymbol ==
    pc = "sized" /\ file # Null /\ reloc # 0 /\ ~oom => result = SizeMeant

\* Where a target really lies: ends do not count
Inside(o, t) == \E a \in Areas[o] : a.start <= t /\ t < a.end

\* The two lookups agree: a function in a loaded object is found in both, and in
\* that object, although both count the ends of ranges in, and although other
\* objects come and go next to it between the steps.
RightObject ==
    \A o \in Object : IsLoaded(o) /\ target # Unknown /\ Inside(o, target) =>
        /\ path \in {NoPath, PathOf[o]}
        /\ pc = "sized" /\ path = NoPath => cursor = 0  \* no line was read at all
        /\ pc \in {"parse", "scan", "search", "fin"} =>
              path = PathOf[o] /\ reloc = Base[o]

\* What RightObject needs of an address space: a function is in no plugin; where it
\* lies nothing else is mapped; no other object's mapping ends at its address; and
\* of all objects only its own has it in a segment.
LaidOut ==
    \A o \in Object, t \in Target : Inside(o, t) =>
        /\ o \notin Plugin
        /\ \A a \in Areas[o] : a.start <= t /\ t < a.end =>
              \A p \in Object : \A b \in Areas[p] :
                  \/ p = o /\ b = a
                  \/ a.end <= b.start
                  \/ b.end <= a.start /\ (p # o => b.end # t)
        /\ \A a \in Areas[o] : a.start <= t /\ t < a.end =>
              \A b \in Anonymous : a.end <= b.start \/ b.end <= a.start
        /\ \A p \in Object :
              p = o <=> \E s \in Segments[p] : /\ Base[p] + s.vaddr <= t
                                              /\ t <= Base[p] + s.vaddr + s.memsz

\* Streams, infos and lists are released, each once, on every way out.
ReleasedOnce ==
    pc \in {"idle", "sized"} => heap = [stream |-> 0, info |-> 0, list |-> 0]

\* A lookup that fails returns -1, as "@return ((size_t)-1) is failure" says of
\* elf_get_function_size: it never ends the process.
LookupReturns == pc # "crashed"
=============================================================================
