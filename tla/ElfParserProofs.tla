-------------------------- MODULE ElfParserProofs --------------------------
(***************************************************************************)
(* The reader against the standard: of every file that follows the format,  *)
(* of either class and byte order, wherever its tables are and however many *)
(* entries they have, it reads what the file means, and a file or a table   *)
(* that is cut off is refused.                                              *)
(*                                                                         *)
(* The parser knows widths, the standard offsets.  Offsets is a recursive   *)
(* function; that it exists, for every layout, is shown by the least length *)
(* for which it would not (OffsetsExist), and it is then computed for each  *)
(* of the eight layouts.                                                   *)
(***************************************************************************)
EXTENDS ElfFormat, FiniteSetTheorems, SequenceTheorems, TLAPS

----------------------------------------------------------------------------
(* Recursion *)

\* A set of numbers has a least element.
LEMMA Least ==
    ASSUME NEW T, T \subseteq Nat, T # {}
    PROVE  \E n \in T : \A m \in T : n <= m
<1> DEFINE F == {0 .. n : n \in T}
           R == StrictSubsetOrdering(Nat)
<1>1. \A n \in T : 0 .. n \in FiniteSubsetsOf(Nat)
  BY FS_Interval DEF FiniteSubsetsOf
<1>2. F # {} /\ F \subseteq FiniteSubsetsOf(Nat)  BY <1>1
<1>3. IsWellFoundedOn(R, FiniteSubsetsOf(Nat))  BY FS_StrictSubsetOrderingWellFounded
<1> HIDE DEF R
<1>4. PICK X \in F : \A Y \in F : ~(<<Y, X>> \in R)  BY <1>2, <1>3, WFMin
<1>5. PICK n \in T : X = 0 .. n  BY <1>4
<1>6. ASSUME NEW m \in T, m < n PROVE FALSE
  <2>1. 0 .. m \in F /\ 0 .. m \subseteq 0 .. n /\ n \notin 0 .. m /\ n \in 0 .. n
    BY <1>6
  <2>2. <<0 .. m, 0 .. n>> \in R
    BY <1>2, <1>5, <2>1 DEF R, StrictSubsetOrdering, FiniteSubsetsOf
  <2> QED  BY <1>4, <1>5, <2>1, <2>2
<1> QED  BY <1>6

\* The sums of the first so many widths are a function.
LEMMA OffsetsExist ==
    ASSUME NEW layout, NEW n \in Nat
    PROVE  \E pos : pos = [i \in 1 .. n |->
                              IF i = 1 THEN 0 ELSE pos[i - 1] + Width(layout[i - 1])]
<1> DEFINE Sums(k, pos) ==
               pos = [i \in 1 .. k |-> IF i = 1 THEN 0 ELSE pos[i - 1] + Width(layout[i - 1])]
           Bad == {k \in Nat : ~ \E pos : Sums(k, pos)}
<1> SUFFICES ASSUME Bad # {} PROVE FALSE
  <2>1. n \in Bad \/ \E pos : Sums(n, pos)  OBVIOUS
  <2> QED  BY <2>1
<1>1. PICK k \in Bad : \A m \in Bad : k <= m  BY Least
<1>2. k # 0
  <2>1. Sums(0, [i \in 1 .. 0 |-> 0])  OBVIOUS
  <2> QED  BY <2>1
<1>3. k - 1 \in Nat /\ k - 1 \notin Bad
  <2>1. k \in Nat  BY <1>1
  <2> HIDE DEF Bad
  <2>2. k - 1 \in Nat /\ ~(k <= k - 1)  BY <1>2, <2>1
  <2> QED  BY <1>1, <2>2
<1>4. PICK pos : Sums(k - 1, pos)  BY <1>3
<1> DEFINE f == [i \in 1 .. k |-> IF i < k THEN pos[i]
                                  ELSE IF i = 1 THEN 0 ELSE pos[i - 1] + Width(layout[i - 1])]
<1>5. ASSUME NEW i \in 1 .. k
      PROVE  f[i] = IF i = 1 THEN 0 ELSE f[i - 1] + Width(layout[i - 1])
  <2>1. i - 1 < k /\ (i # 1 => i - 1 \in 1 .. k)  BY <1>3
  <2>2. i # 1 => f[i - 1] = pos[i - 1]  BY <2>1
  <2>3. CASE i < k
    <3>1. i \in 1 .. k - 1 /\ f[i] = pos[i]  BY <1>3, <2>3
    <3>2. pos[i] = IF i = 1 THEN 0 ELSE pos[i - 1] + Width(layout[i - 1])  BY <1>4, <3>1
    <3> QED  BY <2>2, <3>1, <3>2
  <2>4. CASE ~(i < k)  BY <2>2, <2>4
  <2> QED  BY <2>3, <2>4
<1>6. Sums(k, f)
  <2> DEFINE g == [i \in 1 .. k |-> IF i = 1 THEN 0 ELSE f[i - 1] + Width(layout[i - 1])]
  <2>1. \A i \in 1 .. k : f[i] = g[i]  BY <1>5
  <2>2. f = g  BY <2>1
  <2> QED  BY <2>2
<1> QED  BY <1>1, <1>6

LEMMA OffsetsAre ==
    ASSUME NEW layout, Len(layout) \in Nat
    PROVE  /\ DOMAIN Offsets(layout) = 1 .. Len(layout) + 1
           /\ \A i \in 1 .. Len(layout) + 1 : Offsets(layout)[i] =
                 IF i = 1 THEN 0 ELSE Offsets(layout)[i - 1] + Width(layout[i - 1])
<1> DEFINE Sums(pos) == pos = [i \in 1 .. Len(layout) + 1 |->
                                  IF i = 1 THEN 0 ELSE pos[i - 1] + Width(layout[i - 1])]
<1>1. \E pos : Sums(pos)
  <2>1. Len(layout) + 1 \in Nat  OBVIOUS
  <2> QED  BY <2>1, OffsetsExist
<1>2. Offsets(layout) = CHOOSE pos : Sums(pos)  BY DEF Offsets
<1>3. Sums(Offsets(layout))  BY <1>1, <1>2
<1> HIDE DEF Sums
<1> DEFINE pos == Offsets(layout)
<1>4. pos = [i \in 1 .. Len(layout) + 1 |->
                IF i = 1 THEN 0 ELSE pos[i - 1] + Width(layout[i - 1])]
  BY <1>3 DEF Sums
<1> HIDE DEF pos
<1>5. /\ DOMAIN pos = 1 .. Len(layout) + 1
      /\ \A i \in 1 .. Len(layout) + 1 : pos[i] =
            IF i = 1 THEN 0 ELSE pos[i - 1] + Width(layout[i - 1])
  BY <1>4
<1> QED  BY <1>5 DEF pos

\* A layout of n fields is walked over from one to the next.
LEMMA WalkOver ==
    ASSUME NEW layout, NEW n \in Nat, Len(layout) = n
    PROVE  /\ Offsets(layout)[1] = 0
           /\ \A i \in 1 .. n : Offsets(layout)[i + 1] = Offsets(layout)[i] + Width(layout[i])
<1>1. \A i \in 1 .. n + 1 : Offsets(layout)[i] =
         IF i = 1 THEN 0 ELSE Offsets(layout)[i - 1] + Width(layout[i - 1])
  BY OffsetsAre
<1>2. 1 \in 1 .. n + 1  OBVIOUS
<1>3. ASSUME NEW i \in 1 .. n
      PROVE  Offsets(layout)[i + 1] = Offsets(layout)[i] + Width(layout[i])
  <2>1. i + 1 \in 1 .. n + 1 /\ i + 1 # 1 /\ (i + 1) - 1 = i  OBVIOUS
  <2> QED  BY <1>1, <2>1
<1> QED  BY <1>1, <1>2, <1>3

----------------------------------------------------------------------------
(* Layouts *)

\* Walked over from an offset, the layout comes to each field at its offset
Lays(layout, fields, from) ==
    /\ \A i \in DOMAIN layout : Offsets(layout)[i] \in Nat
    /\ \A i \in DOMAIN layout :
          <<layout[i][1], from + Offsets(layout)[i], layout[i][2]>> \in fields
    /\ {layout[i][1] : i \in DOMAIN layout} = {x[1] : x \in fields}
    /\ \A i, j \in DOMAIN layout : layout[i][1] = layout[j][1] => i = j

LEMMA EhdrLays32 ==
    /\ Lays(EhdrLayout(1), Ehdr32, 6)
    /\ SizeOf(EhdrLayout(1)) = 46
<1> DEFINE layout == EhdrLayout(1)
           pos == Offsets(layout)
<1>1. /\ DOMAIN layout = 1 .. 17 /\ Len(layout) = 17
      /\ layout[1] = <<"EI_VERSION", 1>> /\ layout[2] = <<"EI_OSABI", 1>>
      /\ layout[3] = <<"EI_ABIVERSION", 1>> /\ layout[4] = <<"EI_PAD", 7>>
      /\ layout[5] = <<"e_type", 2>> /\ layout[6] = <<"e_machine", 2>>
      /\ layout[7] = <<"e_version", 4>> /\ layout[8] = <<"e_entry", 4>>
      /\ layout[9] = <<"e_phoff", 4>> /\ layout[10] = <<"e_shoff", 4>>
      /\ layout[11] = <<"e_flags", 4>> /\ layout[12] = <<"e_ehsize", 2>>
      /\ layout[13] = <<"e_phentsize", 2>> /\ layout[14] = <<"e_phnum", 2>>
      /\ layout[15] = <<"e_shentsize", 2>> /\ layout[16] = <<"e_shnum", 2>>
      /\ layout[17] = <<"e_shstrndx", 2>>
  BY DEF EhdrLayout, Word
<1> HIDE DEF layout
<1>2. pos[1] = 0 /\ \A i \in 1 .. 17 : pos[i + 1] = pos[i] + Width(layout[i])
  BY <1>1, WalkOver
<1> HIDE DEF pos
<1>3. /\ pos[1] = 0 /\ pos[2] = 1 /\ pos[3] = 2 /\ pos[4] = 3 /\ pos[5] = 10 /\ pos[6] = 12
      /\ pos[7] = 14 /\ pos[8] = 18 /\ pos[9] = 22 /\ pos[10] = 26 /\ pos[11] = 30 /\ pos[12] = 34
      /\ pos[13] = 36 /\ pos[14] = 38 /\ pos[15] = 40 /\ pos[16] = 42 /\ pos[17] = 44 /\ pos[18] = 46
  BY <1>1, <1>2 DEF Width
<1>4. Lays(layout, Ehdr32, 6)
  <2>1. \A i \in 1 .. 17 : /\ pos[i] \in Nat
                          /\ <<layout[i][1], 6 + pos[i], layout[i][2]>> \in Ehdr32
    BY <1>1, <1>3 DEF Ehdr32
  <2>2. {layout[i][1] : i \in 1 .. 17} = {x[1] : x \in Ehdr32}
    BY <1>1 DEF Ehdr32
  <2>3. \A i, j \in 1 .. 17 : layout[i][1] = layout[j][1] => i = j
    BY <1>1
  <2> QED  BY <1>1, <2>1, <2>2, <2>3 DEF Lays, pos
<1>5. SizeOf(layout) = 46
  BY <1>1, <1>3 DEF SizeOf, pos
<1> QED  BY <1>4, <1>5 DEF layout

LEMMA EhdrLays64 ==
    /\ Lays(EhdrLayout(2), Ehdr64, 6)
    /\ SizeOf(EhdrLayout(2)) = 58
<1> DEFINE layout == EhdrLayout(2)
           pos == Offsets(layout)
<1>1. /\ DOMAIN layout = 1 .. 17 /\ Len(layout) = 17
      /\ layout[1] = <<"EI_VERSION", 1>> /\ layout[2] = <<"EI_OSABI", 1>>
      /\ layout[3] = <<"EI_ABIVERSION", 1>> /\ layout[4] = <<"EI_PAD", 7>>
      /\ layout[5] = <<"e_type", 2>> /\ layout[6] = <<"e_machine", 2>>
      /\ layout[7] = <<"e_version", 4>> /\ layout[8] = <<"e_entry", 8>>
      /\ layout[9] = <<"e_phoff", 8>> /\ layout[10] = <<"e_shoff", 8>>
      /\ layout[11] = <<"e_flags", 4>> /\ layout[12] = <<"e_ehsize", 2>>
      /\ layout[13] = <<"e_phentsize", 2>> /\ layout[14] = <<"e_phnum", 2>>
      /\ layout[15] = <<"e_shentsize", 2>> /\ layout[16] = <<"e_shnum", 2>>
      /\ layout[17] = <<"e_shstrndx", 2>>
  BY DEF EhdrLayout, Word
<1> HIDE DEF layout
<1>2. pos[1] = 0 /\ \A i \in 1 .. 17 : pos[i + 1] = pos[i] + Width(layout[i])
  BY <1>1, WalkOver
<1> HIDE DEF pos
<1>3. /\ pos[1] = 0 /\ pos[2] = 1 /\ pos[3] = 2 /\ pos[4] = 3 /\ pos[5] = 10 /\ pos[6] = 12
      /\ pos[7] = 14 /\ pos[8] = 18 /\ pos[9] = 26 /\ pos[10] = 34 /\ pos[11] = 42 /\ pos[12] = 46
      /\ pos[13] = 48 /\ pos[14] = 50 /\ pos[15] = 52 /\ pos[16] = 54 /\ pos[17] = 56 /\ pos[18] = 58
  BY <1>1, <1>2 DEF Width
<1>4. Lays(layout, Ehdr64, 6)
  <2>1. \A i \in 1 .. 17 : /\ pos[i] \in Nat
                          /\ <<layout[i][1], 6 + pos[i], layout[i][2]>> \in Ehdr64
    BY <1>1, <1>3 DEF Ehdr64
  <2>2. {layout[i][1] : i \in 1 .. 17} = {x[1] : x \in Ehdr64}
    BY <1>1 DEF Ehdr64
  <2>3. \A i, j \in 1 .. 17 : layout[i][1] = layout[j][1] => i = j
    BY <1>1
  <2> QED  BY <1>1, <2>1, <2>2, <2>3 DEF Lays, pos
<1>5. SizeOf(layout) = 58
  BY <1>1, <1>3 DEF SizeOf, pos
<1> QED  BY <1>4, <1>5 DEF layout

LEMMA PhdrLays32 ==
    /\ Lays(PhdrLayout(1), Phdr32, 0)
    /\ SizeOf(PhdrLayout(1)) = 32
<1> DEFINE layout == PhdrLayout(1)
           pos == Offsets(layout)
<1>1. /\ DOMAIN layout = 1 .. 8 /\ Len(layout) = 8
      /\ layout[1] = <<"p_type", 4>> /\ layout[2] = <<"p_offset", 4>>
      /\ layout[3] = <<"p_vaddr", 4>> /\ layout[4] = <<"p_paddr", 4>>
      /\ layout[5] = <<"p_filesz", 4>> /\ layout[6] = <<"p_memsz", 4>>
      /\ layout[7] = <<"p_flags", 4>> /\ layout[8] = <<"p_align", 4>>
  BY DEF PhdrLayout, PhdrLayout32
<1> HIDE DEF layout
<1>2. pos[1] = 0 /\ \A i \in 1 .. 8 : pos[i + 1] = pos[i] + Width(layout[i])
  BY <1>1, WalkOver
<1> HIDE DEF pos
<1>3. /\ pos[1] = 0 /\ pos[2] = 4 /\ pos[3] = 8 /\ pos[4] = 12 /\ pos[5] = 16 /\ pos[6] = 20
      /\ pos[7] = 24 /\ pos[8] = 28 /\ pos[9] = 32
  BY <1>1, <1>2 DEF Width
<1>4. Lays(layout, Phdr32, 0)
  <2>1. \A i \in 1 .. 8 : /\ pos[i] \in Nat
                          /\ <<layout[i][1], 0 + pos[i], layout[i][2]>> \in Phdr32
    BY <1>1, <1>3 DEF Phdr32
  <2>2. {layout[i][1] : i \in 1 .. 8} = {x[1] : x \in Phdr32}
    BY <1>1 DEF Phdr32
  <2>3. \A i, j \in 1 .. 8 : layout[i][1] = layout[j][1] => i = j
    BY <1>1
  <2> QED  BY <1>1, <2>1, <2>2, <2>3 DEF Lays, pos
<1>5. SizeOf(layout) = 32
  BY <1>1, <1>3 DEF SizeOf, pos
<1> QED  BY <1>4, <1>5 DEF layout

LEMMA PhdrLays64 ==
    /\ Lays(PhdrLayout(2), Phdr64, 0)
    /\ SizeOf(PhdrLayout(2)) = 56
<1> DEFINE layout == PhdrLayout(2)
           pos == Offsets(layout)
<1>1. /\ DOMAIN layout = 1 .. 8 /\ Len(layout) = 8
      /\ layout[1] = <<"p_type", 4>> /\ layout[2] = <<"p_flags", 4>>
      /\ layout[3] = <<"p_offset", 8>> /\ layout[4] = <<"p_vaddr", 8>>
      /\ layout[5] = <<"p_paddr", 8>> /\ layout[6] = <<"p_filesz", 8>>
      /\ layout[7] = <<"p_memsz", 8>> /\ layout[8] = <<"p_align", 8>>
  BY DEF PhdrLayout, PhdrLayout64
<1> HIDE DEF layout
<1>2. pos[1] = 0 /\ \A i \in 1 .. 8 : pos[i + 1] = pos[i] + Width(layout[i])
  BY <1>1, WalkOver
<1> HIDE DEF pos
<1>3. /\ pos[1] = 0 /\ pos[2] = 4 /\ pos[3] = 8 /\ pos[4] = 16 /\ pos[5] = 24 /\ pos[6] = 32
      /\ pos[7] = 40 /\ pos[8] = 48 /\ pos[9] = 56
  BY <1>1, <1>2 DEF Width
<1>4. Lays(layout, Phdr64, 0)
  <2>1. \A i \in 1 .. 8 : /\ pos[i] \in Nat
                          /\ <<layout[i][1], 0 + pos[i], layout[i][2]>> \in Phdr64
    BY <1>1, <1>3 DEF Phdr64
  <2>2. {layout[i][1] : i \in 1 .. 8} = {x[1] : x \in Phdr64}
    BY <1>1 DEF Phdr64
  <2>3. \A i, j \in 1 .. 8 : layout[i][1] = layout[j][1] => i = j
    BY <1>1
  <2> QED  BY <1>1, <2>1, <2>2, <2>3 DEF Lays, pos
<1>5. SizeOf(layout) = 56
  BY <1>1, <1>3 DEF SizeOf, pos
<1> QED  BY <1>4, <1>5 DEF layout

LEMMA ShdrLays32 ==
    /\ Lays(ShdrLayout(1), Shdr32, 0)
    /\ SizeOf(ShdrLayout(1)) = 40
<1> DEFINE layout == ShdrLayout(1)
           pos == Offsets(layout)
<1>1. /\ DOMAIN layout = 1 .. 10 /\ Len(layout) = 10
      /\ layout[1] = <<"sh_name", 4>> /\ layout[2] = <<"sh_type", 4>>
      /\ layout[3] = <<"sh_flags", 4>> /\ layout[4] = <<"sh_addr", 4>>
      /\ layout[5] = <<"sh_offset", 4>> /\ layout[6] = <<"sh_size", 4>>
      /\ layout[7] = <<"sh_link", 4>> /\ layout[8] = <<"sh_info", 4>>
      /\ layout[9] = <<"sh_addralign", 4>> /\ layout[10] = <<"sh_entsize", 4>>
  BY DEF ShdrLayout, Word
<1> HIDE DEF layout
<1>2. pos[1] = 0 /\ \A i \in 1 .. 10 : pos[i + 1] = pos[i] + Width(layout[i])
  BY <1>1, WalkOver
<1> HIDE DEF pos
<1>3. /\ pos[1] = 0 /\ pos[2] = 4 /\ pos[3] = 8 /\ pos[4] = 12 /\ pos[5] = 16 /\ pos[6] = 20
      /\ pos[7] = 24 /\ pos[8] = 28 /\ pos[9] = 32 /\ pos[10] = 36 /\ pos[11] = 40
  BY <1>1, <1>2 DEF Width
<1>4. Lays(layout, Shdr32, 0)
  <2>1. \A i \in 1 .. 10 : /\ pos[i] \in Nat
                          /\ <<layout[i][1], 0 + pos[i], layout[i][2]>> \in Shdr32
    BY <1>1, <1>3 DEF Shdr32
  <2>2. {layout[i][1] : i \in 1 .. 10} = {x[1] : x \in Shdr32}
    BY <1>1 DEF Shdr32
  <2>3. \A i, j \in 1 .. 10 : layout[i][1] = layout[j][1] => i = j
    BY <1>1
  <2> QED  BY <1>1, <2>1, <2>2, <2>3 DEF Lays, pos
<1>5. SizeOf(layout) = 40
  BY <1>1, <1>3 DEF SizeOf, pos
<1> QED  BY <1>4, <1>5 DEF layout

LEMMA ShdrLays64 ==
    /\ Lays(ShdrLayout(2), Shdr64, 0)
    /\ SizeOf(ShdrLayout(2)) = 64
<1> DEFINE layout == ShdrLayout(2)
           pos == Offsets(layout)
<1>1. /\ DOMAIN layout = 1 .. 10 /\ Len(layout) = 10
      /\ layout[1] = <<"sh_name", 4>> /\ layout[2] = <<"sh_type", 4>>
      /\ layout[3] = <<"sh_flags", 8>> /\ layout[4] = <<"sh_addr", 8>>
      /\ layout[5] = <<"sh_offset", 8>> /\ layout[6] = <<"sh_size", 8>>
      /\ layout[7] = <<"sh_link", 4>> /\ layout[8] = <<"sh_info", 4>>
      /\ layout[9] = <<"sh_addralign", 8>> /\ layout[10] = <<"sh_entsize", 8>>
  BY DEF ShdrLayout, Word
<1> HIDE DEF layout
<1>2. pos[1] = 0 /\ \A i \in 1 .. 10 : pos[i + 1] = pos[i] + Width(layout[i])
  BY <1>1, WalkOver
<1> HIDE DEF pos
<1>3. /\ pos[1] = 0 /\ pos[2] = 4 /\ pos[3] = 8 /\ pos[4] = 16 /\ pos[5] = 24 /\ pos[6] = 32
      /\ pos[7] = 40 /\ pos[8] = 44 /\ pos[9] = 48 /\ pos[10] = 56 /\ pos[11] = 64
  BY <1>1, <1>2 DEF Width
<1>4. Lays(layout, Shdr64, 0)
  <2>1. \A i \in 1 .. 10 : /\ pos[i] \in Nat
                          /\ <<layout[i][1], 0 + pos[i], layout[i][2]>> \in Shdr64
    BY <1>1, <1>3 DEF Shdr64
  <2>2. {layout[i][1] : i \in 1 .. 10} = {x[1] : x \in Shdr64}
    BY <1>1 DEF Shdr64
  <2>3. \A i, j \in 1 .. 10 : layout[i][1] = layout[j][1] => i = j
    BY <1>1
  <2> QED  BY <1>1, <2>1, <2>2, <2>3 DEF Lays, pos
<1>5. SizeOf(layout) = 64
  BY <1>1, <1>3 DEF SizeOf, pos
<1> QED  BY <1>4, <1>5 DEF layout

LEMMA SymLays32 ==
    /\ Lays(SymLayout(1), Sym32, 0)
    /\ SizeOf(SymLayout(1)) = 16
<1> DEFINE layout == SymLayout(1)
           pos == Offsets(layout)
<1>1. /\ DOMAIN layout = 1 .. 6 /\ Len(layout) = 6
      /\ layout[1] = <<"st_name", 4>> /\ layout[2] = <<"st_value", 4>>
      /\ layout[3] = <<"st_size", 4>> /\ layout[4] = <<"st_info", 1>>
      /\ layout[5] = <<"st_other", 1>> /\ layout[6] = <<"st_shndx", 2>>
  BY DEF SymLayout, SymLayout32
<1> HIDE DEF layout
<1>2. pos[1] = 0 /\ \A i \in 1 .. 6 : pos[i + 1] = pos[i] + Width(layout[i])
  BY <1>1, WalkOver
<1> HIDE DEF pos
<1>3. /\ pos[1] = 0 /\ pos[2] = 4 /\ pos[3] = 8 /\ pos[4] = 12 /\ pos[5] = 13 /\ pos[6] = 14
      /\ pos[7] = 16
  BY <1>1, <1>2 DEF Width
<1>4. Lays(layout, Sym32, 0)
  <2>1. \A i \in 1 .. 6 : /\ pos[i] \in Nat
                          /\ <<layout[i][1], 0 + pos[i], layout[i][2]>> \in Sym32
    BY <1>1, <1>3 DEF Sym32
  <2>2. {layout[i][1] : i \in 1 .. 6} = {x[1] : x \in Sym32}
    BY <1>1 DEF Sym32
  <2>3. \A i, j \in 1 .. 6 : layout[i][1] = layout[j][1] => i = j
    BY <1>1
  <2> QED  BY <1>1, <2>1, <2>2, <2>3 DEF Lays, pos
<1>5. SizeOf(layout) = 16
  BY <1>1, <1>3 DEF SizeOf, pos
<1> QED  BY <1>4, <1>5 DEF layout

LEMMA SymLays64 ==
    /\ Lays(SymLayout(2), Sym64, 0)
    /\ SizeOf(SymLayout(2)) = 24
<1> DEFINE layout == SymLayout(2)
           pos == Offsets(layout)
<1>1. /\ DOMAIN layout = 1 .. 6 /\ Len(layout) = 6
      /\ layout[1] = <<"st_name", 4>> /\ layout[2] = <<"st_info", 1>>
      /\ layout[3] = <<"st_other", 1>> /\ layout[4] = <<"st_shndx", 2>>
      /\ layout[5] = <<"st_value", 8>> /\ layout[6] = <<"st_size", 8>>
  BY DEF SymLayout, SymLayout64
<1> HIDE DEF layout
<1>2. pos[1] = 0 /\ \A i \in 1 .. 6 : pos[i + 1] = pos[i] + Width(layout[i])
  BY <1>1, WalkOver
<1> HIDE DEF pos
<1>3. /\ pos[1] = 0 /\ pos[2] = 4 /\ pos[3] = 5 /\ pos[4] = 6 /\ pos[5] = 8 /\ pos[6] = 16
      /\ pos[7] = 24
  BY <1>1, <1>2 DEF Width
<1>4. Lays(layout, Sym64, 0)
  <2>1. \A i \in 1 .. 6 : /\ pos[i] \in Nat
                          /\ <<layout[i][1], 0 + pos[i], layout[i][2]>> \in Sym64
    BY <1>1, <1>3 DEF Sym64
  <2>2. {layout[i][1] : i \in 1 .. 6} = {x[1] : x \in Sym64}
    BY <1>1 DEF Sym64
  <2>3. \A i, j \in 1 .. 6 : layout[i][1] = layout[j][1] => i = j
    BY <1>1
  <2> QED  BY <1>1, <2>1, <2>2, <2>3 DEF Lays, pos
<1>5. SizeOf(layout) = 24
  BY <1>1, <1>3 DEF SizeOf, pos
<1> QED  BY <1>4, <1>5 DEF layout
\* The parser's layouts put every field where the standard has it, in both classes,
\* and are as long as the structures of the standard.
THEOREM LayoutsFollowStandard ==
    ASSUME NEW class \in {1, 2}
    PROVE  /\ Lays(EhdrLayout(class), Ehdr(class), EhdrIdent)
           /\ Lays(PhdrLayout(class), Phdr(class), 0)
           /\ Lays(ShdrLayout(class), Shdr(class), 0)
           /\ Lays(SymLayout(class), Sym(class), 0)
           /\ EhdrSize(class) = EhdrBytes(class)
           /\ SizeOf(PhdrLayout(class)) = PhdrBytes(class)
           /\ SizeOf(ShdrLayout(class)) = ShdrBytes(class)
           /\ SizeOf(SymLayout(class)) = SymBytes(class)
<1>1. CASE class = 1
  BY <1>1, EhdrLays32, PhdrLays32, ShdrLays32, SymLays32
     DEF Ehdr, Phdr, Shdr, Sym, EhdrSize, EhdrIdent, EhdrBytes, PhdrBytes, ShdrBytes, SymBytes
<1>2. CASE class = 2
  BY <1>2, EhdrLays64, PhdrLays64, ShdrLays64, SymLays64
     DEF Ehdr, Phdr, Shdr, Sym, EhdrSize, EhdrIdent, EhdrBytes, PhdrBytes, ShdrBytes, SymBytes
<1> QED  BY <1>1, <1>2

----------------------------------------------------------------------------
(* Structures *)

\* A structure that is written in a file is read as it is written.
LEMMA StructRead ==
    ASSUME NEW c, NEW layout, NEW fields, NEW from \in Nat, Lays(layout, fields, from),
           NEW at \in Nat, NEW struct \in Values(fields), Written(c, at, fields, struct)
    PROVE  Struct(c, at + from, layout, c.order) = struct
<1> DEFINE names == {layout[i][1] : i \in DOMAIN layout}
           index(name) == CHOOSE i \in DOMAIN layout : layout[i][1] = name
           pos == Offsets(layout)
           value(i) == Number(c, at + from + pos[i], layout[i][2], c.order)
<1>1. ASSUME NEW i \in DOMAIN layout PROVE value(i) = struct[layout[i][1]]
  <2> DEFINE x == <<layout[i][1], from + pos[i], layout[i][2]>>
  <2>1. x \in fields /\ pos[i] \in Nat  BY DEF Lays
  <2>2. x[1] = layout[i][1] /\ x[2] = from + pos[i] /\ x[3] = layout[i][2]  OBVIOUS
  <2> HIDE DEF x, pos
  <2>3. /\ <<at + x[2], x[3]>> \in DOMAIN c.cells
        /\ c.cells[<<at + x[2], x[3]>>] = struct[x[1]]
    BY <2>1 DEF Written
  <2>4. at + x[2] = at + from + pos[i]  BY <2>1, <2>2
  <2> QED  BY <2>2, <2>3, <2>4 DEF Number
<1>2. ASSUME NEW name \in names
      PROVE  index(name) \in DOMAIN layout /\ layout[index(name)][1] = name
  OBVIOUS
<1>3. names = {x[1] : x \in fields} /\ struct = [name \in names |-> struct[name]]
  BY DEF Lays, Values
<1>4. Struct(c, at + from, layout, c.order) = [name \in names |-> value(index(name))]
  BY DEF Struct, Width
<1> HIDE DEF names, index, value
<1>5. \A name \in names : value(index(name)) = struct[name]  BY <1>1, <1>2
<1> QED  BY <1>3, <1>4, <1>5

\* A header that is all there is read as it is written, one that is not is refused.
LEMMA HeaderRead ==
    ASSUME NEW c, c.length \in Nat, NEW head, head.data = c.order,
           NEW layout, NEW fields, Lays(layout, fields, 0),
           NEW size \in Nat \ {0}, SizeOf(layout) = size,
           NEW table, NEW i, table + i * size \in Nat,
           NEW struct \in Values(fields), Written(c, table + i * size, fields, struct)
    PROVE  ParseHeader(c, head, layout, table, size, i) =
              IF table + i * size + size <= c.length THEN [ret |-> 0, hdr |-> struct]
              ELSE Unreadable
<1> DEFINE at == table + i * size
<1>1. at \in Nat  OBVIOUS
<1>2. ParseHeader(c, head, layout, table, size, i) =
         IF Available(c, at, size) < size THEN Unreadable
         ELSE [ret |-> 0, hdr |-> Struct(c, at, layout, c.order)]
  BY DEF ParseHeader
<1>3. Written(c, at, fields, struct)  OBVIOUS
<1> HIDE DEF at
<1>4. Struct(c, at, layout, c.order) = struct
  <2>1. Struct(c, at + 0, layout, c.order) = struct  BY <1>1, <1>3, StructRead
  <2> QED  BY <1>1, <2>1
<1>5. Available(c, at, size) < size <=> ~(at + size <= c.length)
  BY <1>1 DEF Available
<1> QED  BY <1>2, <1>4, <1>5 DEF at

----------------------------------------------------------------------------
(* Files *)

\* What Conforms says of the headers of a file of a class
Follows(c, class) ==
    /\ c.length \in Nat /\ c.order \in {1, 2}
    /\ {<<4, 1>>, <<5, 1>>} \subseteq DOMAIN c.cells
    /\ c.cells[<<4, 1>>] = class /\ c.cells[<<5, 1>>] = c.order
    /\ HeadersWritten(c, class)

\* The first header of a file that begins like one
LEMMA EhdrRead ==
    ASSUME NEW c, NEW class \in {1, 2}, Follows(c, class), c.magic
    PROVE  ParseEhdr(c) =
              IF EhdrBytes(class) <= c.length
              THEN [ret |-> EhdrBytes(class), class |-> class, data |-> c.order,
                    ehdr |-> c.means.ehdr]
              ELSE Unreadable
<1>1. Number(c, 4, 1, HostData) = class /\ Number(c, 5, 1, HostData) = c.order
  BY DEF Follows, Number
<1>2. /\ EhdrSize(class) = EhdrBytes(class) /\ EhdrSize(1) = 52 /\ EhdrSize(2) = 64
      /\ Lays(EhdrLayout(class), Ehdr(class), EhdrIdent)
  BY LayoutsFollowStandard DEF EhdrBytes
<1>3. Struct(c, EhdrIdent, EhdrLayout(class), c.order) = c.means.ehdr
  <2>1. Struct(c, 0 + EhdrIdent, EhdrLayout(class), c.order) = c.means.ehdr
    BY <1>2, StructRead DEF Follows, HeadersWritten, EhdrIdent
  <2> QED  BY <2>1 DEF EhdrIdent
<1>4. /\ c.length \in Nat /\ c.order \in {1, 2} /\ class \in {1, 2}
      /\ Available(c, 0, 64) = IF c.length < 64 THEN c.length ELSE 64
  BY DEF Follows, Available
<1>5. ParseEhdr(c) =
         IF Available(c, 0, 64) < 52 \/ (class = 2 /\ Available(c, 0, 64) < 64) THEN Unreadable
         ELSE [ret |-> EhdrBytes(class), class |-> class, data |-> c.order,
               ehdr |-> c.means.ehdr]
  BY <1>1, <1>2, <1>3, <1>4 DEF ParseEhdr
<1>6. (Available(c, 0, 64) < 52 \/ (class = 2 /\ Available(c, 0, 64) < 64))
         <=> ~(EhdrBytes(class) <= c.length)
  BY <1>4 DEF EhdrBytes
<1> QED  BY <1>5, <1>6

PhdrEnd(c, class, i) == c.means.ehdr["e_phoff"] + i * PhdrBytes(class)
ShdrEnd(c, class, i) == c.means.ehdr["e_shoff"] + i * ShdrBytes(class)

\* All headers are there
Whole(c, class) ==
    /\ EhdrBytes(class) <= c.length
    /\ \A i \in DOMAIN c.means.phdr : PhdrEnd(c, class, i) <= c.length
    /\ \A i \in DOMAIN c.means.shdr : ShdrEnd(c, class, i) <= c.length

\* The numbers the first header has of the others
LEMMA HeaderNumbers ==
    ASSUME NEW c, NEW class \in {1, 2}, Follows(c, class)
    PROVE  /\ c.means.ehdr["e_phnum"] \in Nat /\ c.means.ehdr["e_shnum"] \in Nat
           /\ c.means.ehdr["e_phoff"] \in Nat /\ c.means.ehdr["e_shoff"] \in Nat
           /\ c.means.phdr \in [1 .. c.means.ehdr["e_phnum"] -> Values(Phdr(class))]
           /\ c.means.shdr \in [1 .. c.means.ehdr["e_shnum"] -> Values(Shdr(class))]
           /\ c.means.ehdr["e_phnum"] > 0 => c.means.ehdr["e_phentsize"] = PhdrBytes(class)
           /\ c.means.ehdr["e_shnum"] > 0 => c.means.ehdr["e_shentsize"] = ShdrBytes(class)
<1>1. c.means.ehdr \in Values(Ehdr(class))  BY DEF Follows, HeadersWritten
<1>2. {"e_phnum", "e_shnum", "e_phoff", "e_shoff"} \subseteq {x[1] : x \in Ehdr(class)}
  <2>1. \E x \in Ehdr(class) : x[1] = "e_phnum"  BY DEF Ehdr, Ehdr32, Ehdr64
  <2>2. \E x \in Ehdr(class) : x[1] = "e_shnum"  BY DEF Ehdr, Ehdr32, Ehdr64
  <2>3. \E x \in Ehdr(class) : x[1] = "e_phoff"  BY DEF Ehdr, Ehdr32, Ehdr64
  <2>4. \E x \in Ehdr(class) : x[1] = "e_shoff"  BY DEF Ehdr, Ehdr32, Ehdr64
  <2> QED  BY <2>1, <2>2, <2>3, <2>4
<1>3. /\ c.means.phdr \in [1 .. c.means.ehdr["e_phnum"] -> Values(Phdr(class))]
      /\ c.means.shdr \in [1 .. c.means.ehdr["e_shnum"] -> Values(Shdr(class))]
  BY Zenon DEF Follows, HeadersWritten
<1>4. /\ c.means.ehdr["e_phnum"] > 0 => c.means.ehdr["e_phentsize"] = PhdrBytes(class)
      /\ c.means.ehdr["e_shnum"] > 0 => c.means.ehdr["e_shentsize"] = ShdrBytes(class)
  BY Zenon DEF Follows, HeadersWritten
<1>5. /\ c.means.ehdr["e_phnum"] \in Nat /\ c.means.ehdr["e_shnum"] \in Nat
      /\ c.means.ehdr["e_phoff"] \in Nat /\ c.means.ehdr["e_shoff"] \in Nat
  BY <1>1, <1>2 DEF Values
<1> QED  BY <1>3, <1>4, <1>5

\* A header of a table
LEMMA PhdrRead ==
    ASSUME NEW c, NEW class \in {1, 2}, Follows(c, class), NEW i \in DOMAIN c.means.phdr,
           NEW head, head.class = class, head.data = c.order, head.ehdr = c.means.ehdr
    PROVE  ParsePhdr(c, head, i - 1) =
              IF PhdrEnd(c, class, i) <= c.length THEN [ret |-> 0, hdr |-> c.means.phdr[i]]
              ELSE Unreadable
<1> DEFINE table == c.means.ehdr["e_phoff"]
           size == PhdrBytes(class)
<1>1. /\ i \in Nat \ {0} /\ table \in Nat /\ size \in Nat \ {0} /\ c.length \in Nat
      /\ c.means.phdr[i] \in Values(Phdr(class)) /\ c.means.ehdr["e_phentsize"] = size
      /\ Written(c, table + (i - 1) * size, Phdr(class), c.means.phdr[i])
  <2>1. i \in 1 .. c.means.ehdr["e_phnum"] /\ table \in Nat /\ i \in Nat \ {0}
    BY HeaderNumbers
  <2>2. c.means.phdr[i] \in Values(Phdr(class))  BY <2>1, HeaderNumbers
  <2>3. c.means.ehdr["e_phentsize"] = size
    <3>1. c.means.ehdr["e_phnum"] \in Nat  BY HeaderNumbers
    <3>2. c.means.ehdr["e_phnum"] > 0  BY <2>1, <3>1
    <3> QED  BY <3>2, HeaderNumbers
  <2>4. Written(c, table + (i - 1) * size, Phdr(class), c.means.phdr[i])
    BY DEF Follows, HeadersWritten, Table
  <2> QED  BY <2>1, <2>2, <2>3, <2>4 DEF Follows, PhdrBytes
<1>2. table + (i - 1) * size \in Nat /\ table + (i - 1) * size + size = PhdrEnd(c, class, i)
  BY <1>1 DEF PhdrEnd, PhdrBytes
<1>3. Lays(PhdrLayout(class), Phdr(class), 0) /\ SizeOf(PhdrLayout(class)) = size
  BY LayoutsFollowStandard
<1>4. ParsePhdr(c, head, i - 1) = ParseHeader(c, head, PhdrLayout(class), table, size, i - 1)
  BY <1>1 DEF ParsePhdr
<1> HIDE DEF table, size
<1>5. ParseHeader(c, head, PhdrLayout(class), table, size, i - 1) =
         IF table + (i - 1) * size + size <= c.length THEN [ret |-> 0, hdr |-> c.means.phdr[i]]
         ELSE Unreadable
  BY <1>1, <1>2, <1>3, HeaderRead
<1> QED  BY <1>2, <1>4, <1>5

LEMMA ShdrRead ==
    ASSUME NEW c, NEW class \in {1, 2}, Follows(c, class), NEW i \in DOMAIN c.means.shdr,
           NEW head, head.class = class, head.data = c.order, head.ehdr = c.means.ehdr
    PROVE  ParseShdr(c, head, i - 1) =
              IF ShdrEnd(c, class, i) <= c.length THEN [ret |-> 0, hdr |-> c.means.shdr[i]]
              ELSE Unreadable
<1> DEFINE table == c.means.ehdr["e_shoff"]
           size == ShdrBytes(class)
<1>1. /\ i \in Nat \ {0} /\ table \in Nat /\ size \in Nat \ {0} /\ c.length \in Nat
      /\ c.means.shdr[i] \in Values(Shdr(class)) /\ c.means.ehdr["e_shentsize"] = size
      /\ Written(c, table + (i - 1) * size, Shdr(class), c.means.shdr[i])
  <2>1. i \in 1 .. c.means.ehdr["e_shnum"] /\ table \in Nat /\ i \in Nat \ {0}
    BY HeaderNumbers
  <2>2. c.means.shdr[i] \in Values(Shdr(class))  BY <2>1, HeaderNumbers
  <2>3. c.means.ehdr["e_shentsize"] = size
    <3>1. c.means.ehdr["e_shnum"] \in Nat  BY HeaderNumbers
    <3>2. c.means.ehdr["e_shnum"] > 0  BY <2>1, <3>1
    <3> QED  BY <3>2, HeaderNumbers
  <2>4. Written(c, table + (i - 1) * size, Shdr(class), c.means.shdr[i])
    BY DEF Follows, HeadersWritten, Table
  <2> QED  BY <2>1, <2>2, <2>3, <2>4 DEF Follows, ShdrBytes
<1>2. table + (i - 1) * size \in Nat /\ table + (i - 1) * size + size = ShdrEnd(c, class, i)
  BY <1>1 DEF ShdrEnd, ShdrBytes
<1>3. Lays(ShdrLayout(class), Shdr(class), 0) /\ SizeOf(ShdrLayout(class)) = size
  BY LayoutsFollowStandard
<1>4. ParseShdr(c, head, i - 1) = ParseHeader(c, head, ShdrLayout(class), table, size, i - 1)
  BY <1>1 DEF ParseShdr
<1> HIDE DEF table, size
<1>5. ParseHeader(c, head, ShdrLayout(class), table, size, i - 1) =
         IF table + (i - 1) * size + size <= c.length THEN [ret |-> 0, hdr |-> c.means.shdr[i]]
         ELSE Unreadable
  BY <1>1, <1>2, <1>3, HeaderRead
<1> QED  BY <1>2, <1>4, <1>5

\* One of the results of a table is a failure
Fails(table) == \E i \in DOMAIN table : table[i].ret < 0

\* Two tables one behind the other
LEMMA BothTables ==
    ASSUME NEW p \in Nat, NEW q \in Nat, NEW s, NEW t,
           s = [i \in 1 .. p |-> s[i]], t = [i \in 1 .. q |-> t[i]]
    PROVE  /\ Fails(s \o t) <=> Fails(s) \/ Fails(t)
           /\ s \o t = <<>> <=> p = 0 /\ q = 0
<1> DEFINE S == {s[i] : i \in 1 .. p} \cup {t[i] : i \in 1 .. q}
           all == s \o t
<1>1. s \in [1 .. p -> S] /\ t \in [1 .. q -> S]  OBVIOUS
<1> HIDE DEF S
<1>2. s \in Seq(S) /\ t \in Seq(S) /\ Len(s) = p /\ Len(t) = q  BY <1>1
<1>3. /\ all \in Seq(S) /\ Len(all) = p + q
      /\ \A i \in 1 .. p + q : all[i] = IF i <= p THEN s[i] ELSE t[i - p]
  BY <1>2, ConcatProperties, ZenonT(60)
<1>4. DOMAIN all = 1 .. p + q /\ (all = <<>> <=> p + q = 0)
  BY <1>3, EmptySeq, LenProperties
<1> HIDE DEF all
<1>5. ASSUME NEW i \in 1 .. p PROVE i \in DOMAIN all /\ all[i] = s[i]
  <2>1. i \in 1 .. p + q /\ i <= p  OBVIOUS
  <2> QED  BY <1>3, <1>4, <2>1
<1>6. ASSUME NEW i \in 1 .. q PROVE p + i \in DOMAIN all /\ all[p + i] = t[i]
  <2>1. p + i \in 1 .. p + q /\ ~(p + i <= p) /\ (p + i) - p = i  OBVIOUS
  <2> QED  BY <1>3, <1>4, <2>1
<1>7. ASSUME NEW i \in DOMAIN all
      PROVE  (i \in 1 .. p /\ all[i] = s[i]) \/ (i - p \in 1 .. q /\ all[i] = t[i - p])
  <2>1. i \in 1 .. p + q  BY <1>4
  <2>2. CASE i <= p
    <3>1. i \in 1 .. p  BY <2>1, <2>2
    <3> QED  BY <1>3, <2>1, <2>2, <3>1
  <2>3. CASE ~(i <= p)
    <3>1. i - p \in 1 .. q  BY <2>1, <2>3
    <3> QED  BY <1>3, <2>1, <2>3, <3>1
  <2> QED  BY <2>2, <2>3
<1>8. p + q = 0 <=> p = 0 /\ q = 0  OBVIOUS
<1>9. Fails(all) <=> Fails(s) \/ Fails(t)
  <2>1. DOMAIN s = 1 .. p /\ DOMAIN t = 1 .. q  OBVIOUS
  <2> QED  BY <1>5, <1>6, <1>7, <2>1 DEF Fails
<1> QED  BY <1>4, <1>8, <1>9 DEF all

\* The reader, of a file that follows the standard: what the file means when all
\* of its headers are there, nothing otherwise
LEMMA FileParsed ==
    ASSUME NEW c, NEW class \in {1, 2}, Follows(c, class), c.magic
    PROVE  ParseFile(c) =
              IF Whole(c, class)
              THEN [ret   |-> IF c.means.ehdr["e_phnum"] = 0 /\ c.means.ehdr["e_shnum"] = 0
                              THEN EhdrBytes(class) ELSE 0,
                    class |-> class, data |-> c.order, ehdr |-> c.means.ehdr,
                    phdr  |-> c.means.phdr, shdr |-> c.means.shdr]
              ELSE Unreadable
<1>1. PICK head : head = ParseEhdr(c)  OBVIOUS
<1>2. PICK ps : ps = [i \in 1 .. head.ehdr["e_phnum"] |-> ParsePhdr(c, head, i - 1)]
  OBVIOUS
<1>3. PICK ss : ss = [i \in 1 .. head.ehdr["e_shnum"] |-> ParseShdr(c, head, i - 1)]
  OBVIOUS
<1>4. ParseFile(c) =
         IF head.ret < 0 \/ Fails(ps \o ss) THEN Unreadable
         ELSE [ret   |-> IF ps \o ss = <<>> THEN head.ret ELSE 0,
               class |-> head.class, data |-> head.data, ehdr |-> head.ehdr,
               phdr  |-> [i \in DOMAIN ps |-> ps[i].hdr],
               shdr  |-> [i \in DOMAIN ss |-> ss[i].hdr]]
  BY <1>1, <1>2, <1>3 DEF ParseFile, Fails
<1>5. CASE ~(EhdrBytes(class) <= c.length)
  <2>1. head.ret < 0  BY <1>1, <1>5, EhdrRead DEF Unreadable
  <2>2. ~Whole(c, class)  BY <1>5 DEF Whole
  <2> QED  BY <1>4, <2>1, <2>2
<1>6. CASE EhdrBytes(class) <= c.length
  <2>1. head = [ret |-> EhdrBytes(class), class |-> class, data |-> c.order,
                ehdr |-> c.means.ehdr]
    BY <1>1, <1>6, EhdrRead
  <2>2. PICK p, q : p = c.means.ehdr["e_phnum"] /\ q = c.means.ehdr["e_shnum"]
    OBVIOUS
  <2>3. /\ p \in Nat /\ q \in Nat
        /\ c.means.phdr \in [1 .. p -> Values(Phdr(class))]
        /\ c.means.shdr \in [1 .. q -> Values(Shdr(class))]
    BY <2>2, HeaderNumbers
  <2>4. /\ DOMAIN ps = 1 .. p /\ DOMAIN ss = 1 .. q
        /\ ps = [i \in 1 .. p |-> ps[i]] /\ ss = [i \in 1 .. q |-> ss[i]]
    BY <1>2, <1>3, <2>1, <2>2
  <2>5. ASSUME NEW i \in 1 .. p
        PROVE  ps[i] = IF PhdrEnd(c, class, i) <= c.length
                       THEN [ret |-> 0, hdr |-> c.means.phdr[i]] ELSE Unreadable
    <3>1. ps[i] = ParsePhdr(c, head, i - 1)  BY <1>2, <2>4
    <3>2. i \in DOMAIN c.means.phdr  BY <2>3
    <3> QED  BY <2>1, <3>1, <3>2, PhdrRead
  <2>6. ASSUME NEW i \in 1 .. q
        PROVE  ss[i] = IF ShdrEnd(c, class, i) <= c.length
                       THEN [ret |-> 0, hdr |-> c.means.shdr[i]] ELSE Unreadable
    <3>1. ss[i] = ParseShdr(c, head, i - 1)  BY <1>3, <2>4
    <3>2. i \in DOMAIN c.means.shdr  BY <2>3
    <3> QED  BY <2>1, <3>1, <3>2, ShdrRead
  <2>7. /\ Fails(ps \o ss) <=> Fails(ps) \/ Fails(ss)
        /\ ps \o ss = <<>> <=> p = 0 /\ q = 0
    BY <2>3, <2>4, BothTables
  <2>8. ASSUME NEW i \in 1 .. p PROVE ps[i].ret < 0 <=> ~(PhdrEnd(c, class, i) <= c.length)
    <3>1. CASE PhdrEnd(c, class, i) <= c.length
      <4>1. ps[i] = [ret |-> 0, hdr |-> c.means.phdr[i]]  BY <2>5, <3>1
      <4> QED  BY <3>1, <4>1
    <3>2. CASE ~(PhdrEnd(c, class, i) <= c.length)
      <4>1. ps[i] = Unreadable  BY <2>5, <3>2
      <4> QED  BY <3>2, <4>1 DEF Unreadable
    <3> QED  BY <3>1, <3>2
  <2>9. ASSUME NEW i \in 1 .. q PROVE ss[i].ret < 0 <=> ~(ShdrEnd(c, class, i) <= c.length)
    <3>1. CASE ShdrEnd(c, class, i) <= c.length
      <4>1. ss[i] = [ret |-> 0, hdr |-> c.means.shdr[i]]  BY <2>6, <3>1
      <4> QED  BY <3>1, <4>1
    <3>2. CASE ~(ShdrEnd(c, class, i) <= c.length)
      <4>1. ss[i] = Unreadable  BY <2>6, <3>2
      <4> QED  BY <3>2, <4>1 DEF Unreadable
    <3> QED  BY <3>1, <3>2
  <2>10. DOMAIN c.means.phdr = 1 .. p /\ DOMAIN c.means.shdr = 1 .. q  BY <2>3
  <2>11. Whole(c, class) <=> ~Fails(ps \o ss)
    BY <1>6, <2>4, <2>7, <2>8, <2>9, <2>10 DEF Whole, Fails
  <2>12. ~(head.ret < 0) /\ head.ret = EhdrBytes(class)  BY <2>1 DEF EhdrBytes
  <2>13. CASE ~Whole(c, class)  BY <1>4, <2>11, <2>13
  <2>14. CASE Whole(c, class)
    <3>1. ASSUME NEW i \in 1 .. p PROVE ps[i].hdr = c.means.phdr[i]
      <4>1. PhdrEnd(c, class, i) <= c.length  BY <2>10, <2>14 DEF Whole
      <4>2. ps[i] = [ret |-> 0, hdr |-> c.means.phdr[i]]  BY <2>5, <4>1
      <4> QED  BY <4>2
    <3>2. ASSUME NEW i \in 1 .. q PROVE ss[i].hdr = c.means.shdr[i]
      <4>1. ShdrEnd(c, class, i) <= c.length  BY <2>10, <2>14 DEF Whole
      <4>2. ss[i] = [ret |-> 0, hdr |-> c.means.shdr[i]]  BY <2>6, <4>1
      <4> QED  BY <4>2
    <3>3. [i \in DOMAIN ps |-> ps[i].hdr] = c.means.phdr  BY <2>3, <2>4, <3>1
    <3>4. [i \in DOMAIN ss |-> ss[i].hdr] = c.means.shdr  BY <2>3, <2>4, <3>2
    <3>5. ParseFile(c) =
             [ret   |-> IF ps \o ss = <<>> THEN head.ret ELSE 0,
              class |-> head.class, data |-> head.data, ehdr |-> head.ehdr,
              phdr  |-> c.means.phdr, shdr |-> c.means.shdr]
      BY <1>4, <2>11, <2>12, <2>14, <3>3, <3>4
    <3>6. (IF ps \o ss = <<>> THEN head.ret ELSE 0) =
             (IF p = 0 /\ q = 0 THEN EhdrBytes(class) ELSE 0)
      BY <2>7, <2>12
    <3>7. head.class = class /\ head.data = c.order /\ head.ehdr = c.means.ehdr  BY <2>1
    <3> QED  BY <2>2, <2>14, <3>5, <3>6, <3>7
  <2> QED  BY <2>13, <2>14
<1> QED  BY <1>5, <1>6

\* A file that does not begin like an ELF file is refused
LEMMA NoMagic == ASSUME NEW c, ~c.magic PROVE ParseFile(c) = Unreadable
<1>1. PICK head : head = ParseEhdr(c)  OBVIOUS
<1>2. head = Unreadable  BY <1>1 DEF ParseEhdr
<1>3. head.ret < 0  BY <1>2 DEF Unreadable
<1> QED  BY <1>1, <1>3 DEF ParseFile

\* The headers are all there when the last one is
LEMMA HeadersRead ==
    ASSUME NEW c, NEW class \in {1, 2}, Follows(c, class), c.magic
    PROVE  (ParseFile(c).ret = 0) <=> c.means.headersEnd <= c.length
<1>1. PICK p, q, e, l : /\ p = c.means.ehdr["e_phnum"] /\ q = c.means.ehdr["e_shnum"]
                        /\ e = c.means.headersEnd /\ l = c.length
  OBVIOUS
<1>2. p \in Nat /\ q \in Nat /\ l \in Nat  BY <1>1, HeaderNumbers DEF Follows
<1>3. ~(Unreadable.ret = 0) /\ EhdrBytes(class) # 0 /\ EhdrBytes(class) \in Nat
  BY DEF Unreadable, EhdrBytes
<1>4. CASE p = 0 /\ q = 0
  <2>1. ~(e <= l)  BY <1>1, <1>4 DEF Follows, HeadersWritten
  <2>2. ParseFile(c).ret # 0
    <3>1. CASE Whole(c, class)
      <4>1. c.means.ehdr["e_phnum"] = 0 /\ c.means.ehdr["e_shnum"] = 0  BY <1>1, <1>4
      <4>2. ParseFile(c) =
               [ret   |-> EhdrBytes(class), class |-> class, data |-> c.order,
                ehdr  |-> c.means.ehdr, phdr |-> c.means.phdr, shdr |-> c.means.shdr]
        BY <3>1, <4>1, FileParsed
      <4> QED  BY <1>3, <4>2
    <3>2. CASE ~Whole(c, class)
      <4>1. ParseFile(c) = Unreadable  BY <3>2, FileParsed
      <4> QED  BY <1>3, <4>1
    <3> QED  BY <3>1, <3>2
  <2> QED  BY <1>1, <2>1, <2>2
<1>5. CASE ~(p = 0 /\ q = 0)
  <2> DEFINE ends == {EhdrBytes(class)} \cup {PhdrEnd(c, class, i) : i \in 1 .. p}
                                        \cup {ShdrEnd(c, class, i) : i \in 1 .. q}
  <2>1. <<p, q>> # <<0, 0>>  BY <1>5
  <2>2. e \in ends /\ \A x \in ends : x <= e
    BY <1>1, <2>1 DEF Follows, HeadersWritten, PhdrEnd, ShdrEnd
  <2>3. /\ \A i \in 1 .. p : PhdrEnd(c, class, i) \in Nat
        /\ \A i \in 1 .. q : ShdrEnd(c, class, i) \in Nat
    <3>1. c.means.ehdr["e_phoff"] \in Nat /\ c.means.ehdr["e_shoff"] \in Nat
      BY HeaderNumbers
    <3> QED  BY <1>2, <3>1 DEF PhdrEnd, ShdrEnd, PhdrBytes, ShdrBytes
  <2>4. ends \subseteq Nat  BY <1>3, <2>3
  <2>5. DOMAIN c.means.phdr = 1 .. p /\ DOMAIN c.means.shdr = 1 .. q
    BY <1>1, HeaderNumbers
  <2>6. Whole(c, class) <=> \A x \in ends : x <= l  BY <1>1, <2>5 DEF Whole
  <2> HIDE DEF ends
  <2>7. Whole(c, class) <=> e <= l  BY <1>2, <2>2, <2>4, <2>6
  <2>8. CASE Whole(c, class)
    <3>1. ParseFile(c).ret = 0  BY <1>1, <1>5, <2>8, FileParsed
    <3> QED  BY <1>1, <2>7, <2>8, <3>1
  <2>9. CASE ~Whole(c, class)
    <3>1. ParseFile(c) = Unreadable  BY <2>9, FileParsed
    <3> QED  BY <1>1, <1>3, <2>7, <2>9, <3>1
  <2> QED  BY <2>8, <2>9
<1> QED  BY <1>4, <1>5

\* A symbol table: its symbols when all of it is there, nothing otherwise
LEMMA SymbolsRead ==
    ASSUME NEW c, NEW class \in {1, 2}, Follows(c, class),
           NEW n \in DOMAIN c.means.shdr, SymbolsWritten(c, class, n),
           c.means.shdr[n]["sh_type"] \in {2, 11},
           NEW info, info.class = class, info.data = c.order, info.shdr = c.means.shdr
    PROVE  IF /\ c.means.shdr[n]["sh_entsize"] = SymBytes(class)
              /\ c.means.symbols[n] = <<>> \/ TableThere(c, n)
           THEN ~(ParseSymbols(c, info, n).ret < 0)
                   /\ ParseSymbols(c, info, n).list = c.means.symbols[n]
           ELSE ParseSymbols(c, info, n) = Unreadable
<1> DEFINE sh == c.means.shdr[n]
           size == SymBytes(class)
           num == sh["sh_size"] \div size
           at == sh["sh_offset"]
           symbols == c.means.symbols[n]
           layout == SymLayout(class)
<1>1. /\ SizeOf(layout) = size /\ Lays(layout, Sym(class), 0)
      /\ {SizeOf(SymLayout32), SizeOf(SymLayout64)} = {16, 24}
      /\ {SymBytes(1), SymBytes(2)} = {16, 24} /\ size \in {16, 24}
  BY LayoutsFollowStandard, SymLays32, SymLays64 DEF SymBytes, SymLayout
<1>2. /\ sh["sh_size"] \in Nat /\ at \in Nat /\ c.length \in Nat
  <2>1. sh \in Values(Shdr(class))  BY HeaderNumbers
  <2>2. {"sh_size", "sh_offset"} \subseteq {x[1] : x \in Shdr(class)}
    <3>1. \E x \in Shdr(class) : x[1] = "sh_size"  BY DEF Shdr, Shdr32, Shdr64
    <3>2. \E x \in Shdr(class) : x[1] = "sh_offset"  BY DEF Shdr, Shdr32, Shdr64
    <3> QED  BY <3>1, <3>2
  <2>3. c.length \in Nat  BY DEF Follows
  <2> QED  BY <2>1, <2>2, <2>3 DEF Values
<1>3. CASE sh["sh_entsize"] # size
  <2>1. sh["sh_entsize"] \notin {16, 24}  BY <1>1, <1>3 DEF SymbolsWritten
  <2>2. ParseSymbols(c, info, n) = Unreadable  BY <1>1, <2>1 DEF ParseSymbols
  <2> QED  BY <1>3, <2>2
<1>4. CASE sh["sh_entsize"] = size
  <2>1. num \in Nat
    <3>1. \A a \in Nat : a \div 16 \in Nat /\ a \div 24 \in Nat  OBVIOUS
    <3> QED  BY <1>1, <1>2, <3>1
  <2>2. /\ symbols \in [1 .. num -> Values(Sym(class))]
        /\ Table(c, at, Sym(class), size, symbols)
        /\ c.means.tableEnd[n] = at + num * size
    BY <1>4 DEF SymbolsWritten
  <2>3. num < 2 * (IntMax + 1) /\ IntMax \in Nat  BY <1>4, ElfAssumption DEF SymbolsWritten
  <2>4. IntOf(num) = IF num <= IntMax THEN num ELSE num - 2 * (IntMax + 1)
    <3> HIDE DEF num
    <3>1. num % (2 * (IntMax + 1)) = num  BY <2>1, <2>3
    <3> QED  BY <2>1, <2>3, <3>1 DEF IntOf
  <2>5. ParseSymbols(c, info, n) =
           IF ~(num <= IntMax) \/ Available(c, at, num * size) < num * size THEN Unreadable
           ELSE [ret |-> num, list |-> [j \in 1 .. num |->
                    Struct(c, at + (j - 1) * size, layout, info.data)]]
    <3> DEFINE given == IntOf(sh["sh_size"] \div sh["sh_entsize"])
    <3>1. ParseSymbols(c, info, n) =
             IF given < 0 \/ Available(c, at, given * size) < given * size THEN Unreadable
             ELSE [ret |-> given, list |-> [j \in 1 .. given |->
                      Struct(c, at + (j - 1) * size, layout, info.data)]]
      <4> HIDE DEF given, at, size, layout
      <4> QED  BY <1>1, <1>4, SMTT(30) DEF ParseSymbols, given, at, size, layout
    <3>2. given = IntOf(num)  BY <1>4
    <3>3. (given < 0 <=> ~(num <= IntMax)) /\ (num <= IntMax => given = num)
      <4> HIDE DEF num, given
      <4> QED  BY <2>1, <2>3, <2>4, <3>2
    <3> HIDE DEF given, num, at, size, layout
    <3> QED  BY <3>1, <3>3
  <2>6. Len(symbols) = num /\ (symbols = <<>> <=> num = 0)
    <3>1. symbols \in Seq(Values(Sym(class))) /\ Len(symbols) = num  BY <2>1, <2>2
    <3> QED  BY <3>1, EmptySeq
  <2>7. [j \in 1 .. num |-> Struct(c, at + (j - 1) * size, layout, info.data)] = symbols
    <3>1. ASSUME NEW j \in 1 .. num
          PROVE  Struct(c, at + (j - 1) * size, layout, info.data) = symbols[j]
      <4>1. at + (j - 1) * size \in Nat /\ at + (j - 1) * size = at + (j - 1) * size + 0
        <5>1. (j - 1) * 16 \in Nat /\ (j - 1) * 24 \in Nat  BY <2>1
        <5>2. (j - 1) * size \in Nat  BY <1>1, <5>1
        <5> HIDE DEF size, at
        <5> QED  BY <1>2, <5>2
      <4>2. symbols[j] \in Values(Sym(class))  BY <2>2
      <4>3. Written(c, at + (j - 1) * size, Sym(class), symbols[j])
        <5>1. j \in DOMAIN symbols  BY <2>2
        <5> QED  BY <2>2, <5>1 DEF Table
      <4>4. \A x : x = at + (j - 1) * size => Struct(c, x + 0, layout, c.order) = symbols[j]
        BY <1>1, <4>1, <4>2, <4>3, StructRead
      <4> QED  BY <4>1, <4>4
    <3> QED  BY <2>2, <3>1
  <2>8. Available(c, at, num * size) < num * size <=> ~(num = 0 \/ at + num * size <= c.length)
    <3>1. CASE size = 16  BY <1>2, <2>1, <3>1 DEF Available
    <3>2. CASE size = 24  BY <1>2, <2>1, <3>2 DEF Available
    <3> QED  BY <1>1, <3>1, <3>2
  <2>9. (symbols = <<>> \/ TableThere(c, n)) <=>
            num <= IntMax /\ (num = 0 \/ at + num * size <= c.length)
    <3> HIDE DEF num, at, size, symbols
    <3>1. TableThere(c, n) <=> at + num * size <= c.length /\ num <= IntMax
      BY <2>2, <2>6 DEF TableThere, symbols
    <3> QED  BY <2>1, <2>6, <2>3, <3>1
  <2>10. CASE symbols = <<>> \/ TableThere(c, n)
    <3>1. ParseSymbols(c, info, n) = [ret |-> num, list |-> symbols]
      BY <2>5, <2>7, <2>8, <2>10, <2>9
    <3>2. ~(num < 0)  BY <2>1
    <3> QED  BY <1>4, <2>10, <3>1, <3>2
  <2>11. CASE ~(symbols = <<>> \/ TableThere(c, n))
    <3>1. ParseSymbols(c, info, n) = Unreadable  BY <2>5, <2>8, <2>11, <2>9
    <3> QED  BY <1>4, <2>11, <3>1
  <2> QED  BY <2>10, <2>11
<1> QED  BY <1>3, <1>4

----------------------------------------------------------------------------
(* What the reader promises the lookup *)

\* A file is read whole or not at all: there are headers if the file is one and
\* its last header is there, what is read is what it means, and a table gives all
\* of its symbols if all of it is there and none otherwise.
ReadAsMeant ==
    \A f \in File :
        LET c == Content[f]
            i == ParseFile(c)
        IN  /\ (i.ret = 0) <=> c.magic /\ c.means.headersEnd <= c.length
            /\ ~(i.ret < 0) =>
                /\ i.ehdr = c.means.ehdr /\ i.phdr = c.means.phdr /\ i.shdr = c.means.shdr
                /\ DOMAIN c.means.symbols = DOMAIN i.shdr
                /\ \A n \in DOMAIN i.shdr :
                    LET s     == ParseSymbols(c, i, n)
                        table == i.shdr[n]["sh_type"] \in {2, 11}
                        whole == \/ c.means.symbols[n] = <<>>
                                 \/ TableThere(c, n)
                    IN  IF table /\ ~(s.ret < 0) THEN s.list = c.means.symbols[n] /\ whole
                        ELSE \/ c.means.symbols[n] = <<>>
                             \/ ~(TableThere(c, n))

\* elf_parser_file and elf_parser_symbol read every file that follows the standard,
\* of either class and byte order, with any number of headers, sections and symbols
\* at any offsets and whatever its length, and refuse what is cut off.
THEOREM StandardReadAsMeant == ASSUME Conforming PROVE ReadAsMeant
<1> SUFFICES ASSUME NEW f \in File
             PROVE  LET c == Content[f]
                        i == ParseFile(c)
                    IN  /\ (i.ret = 0) <=> c.magic /\ c.means.headersEnd <= c.length
                        /\ ~(i.ret < 0) =>
                            /\ i.ehdr = c.means.ehdr /\ i.phdr = c.means.phdr
                            /\ i.shdr = c.means.shdr
                            /\ DOMAIN c.means.symbols = DOMAIN i.shdr
                            /\ \A n \in DOMAIN i.shdr :
                                LET s     == ParseSymbols(c, i, n)
                                    table == i.shdr[n]["sh_type"] \in {2, 11}
                                    whole == \/ c.means.symbols[n] = <<>>
                                             \/ TableThere(c, n)
                                IN  IF table /\ ~(s.ret < 0)
                                    THEN s.list = c.means.symbols[n] /\ whole
                                    ELSE \/ c.means.symbols[n] = <<>>
                                         \/ ~(TableThere(c, n))
  BY DEF ReadAsMeant
<1>1. PICK c, i : c = Content[f] /\ i = ParseFile(c)  OBVIOUS
<1>2. Unreadable.ret < 0 /\ ~(Unreadable.ret = 0)  BY DEF Unreadable
<1>3. CASE ~c.magic
  <2>1. i = Unreadable  BY <1>1, <1>3, NoMagic
  <2> QED  BY <1>1, <1>2, <1>3, <2>1
<1>4. CASE c.magic
  <2>1. c.length \in Nat /\ c.order \in {1, 2}  BY <1>1, ElfAssumption
  <2>2. PICK class \in {1, 2} :
           /\ {<<4, 1>>, <<5, 1>>} \subseteq DOMAIN c.cells
           /\ c.cells[<<4, 1>>] = class /\ c.cells[<<5, 1>>] = c.order
           /\ HeadersWritten(c, class)
           /\ DOMAIN c.means.symbols = DOMAIN c.means.shdr
           /\ \A n \in DOMAIN c.means.shdr : SymbolsWritten(c, class, n)
    BY <1>1, <1>4 DEF Conforming, Conforms
  <2>3. Follows(c, class)  BY <2>1, <2>2 DEF Follows
  <2>4. (i.ret = 0) <=> c.means.headersEnd <= c.length  BY <1>1, <1>4, <2>3, HeadersRead
  <2>5. CASE i.ret < 0  BY <1>1, <1>4, <2>4, <2>5
  <2>6. CASE ~(i.ret < 0)
    <3>1. Whole(c, class)
      <4>1. ~Whole(c, class) => i = Unreadable  BY <1>1, <1>4, <2>3, FileParsed
      <4> QED  BY <1>2, <2>6, <4>1
    <3>2. PICK r : i = [ret |-> r, class |-> class, data |-> c.order, ehdr |-> c.means.ehdr,
                        phdr |-> c.means.phdr, shdr |-> c.means.shdr]
      BY <1>1, <1>4, <2>3, <3>1, FileParsed
    <3>3. /\ i.class = class /\ i.data = c.order /\ i.ehdr = c.means.ehdr
          /\ i.phdr = c.means.phdr /\ i.shdr = c.means.shdr
      BY <3>2
    <3>4. ASSUME NEW n \in DOMAIN i.shdr
          PROVE  IF i.shdr[n]["sh_type"] \in {2, 11} /\ ~(ParseSymbols(c, i, n).ret < 0)
                 THEN /\ ParseSymbols(c, i, n).list = c.means.symbols[n]
                      /\ c.means.symbols[n] = <<>> \/ TableThere(c, n)
                 ELSE \/ c.means.symbols[n] = <<>>
                      \/ ~(TableThere(c, n))
      <4>1. n \in DOMAIN c.means.shdr /\ SymbolsWritten(c, class, n)  BY <2>2, <3>3
      <4>2. CASE i.shdr[n]["sh_type"] \notin {2, 11}
        <5>1. c.means.symbols[n] = <<>>  BY <3>3, <4>1, <4>2 DEF SymbolsWritten
        <5> QED  BY <4>2, <5>1
      <4>3. CASE i.shdr[n]["sh_type"] \in {2, 11}
        <5>1. IF /\ c.means.shdr[n]["sh_entsize"] = SymBytes(class)
                 /\ c.means.symbols[n] = <<>> \/ TableThere(c, n)
              THEN ~(ParseSymbols(c, i, n).ret < 0)
                      /\ ParseSymbols(c, i, n).list = c.means.symbols[n]
              ELSE ParseSymbols(c, i, n) = Unreadable
          BY <2>3, <3>3, <4>1, <4>3, SymbolsRead
        <5>2. c.means.shdr[n]["sh_entsize"] # SymBytes(class) => c.means.symbols[n] = <<>>
          BY <4>1 DEF SymbolsWritten
        <5> QED  BY <1>2, <4>3, <5>1, <5>2
      <4> QED  BY <4>2, <4>3
    <3> QED  BY <1>1, <1>4, <2>2, <2>4, <3>3, <3>4
  <2> QED  BY <2>5, <2>6
<1> QED  BY <1>3, <1>4
=============================================================================
