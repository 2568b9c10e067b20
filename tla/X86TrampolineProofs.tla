------------------------ MODULE X86TrampolineProofs ------------------------
(***************************************************************************)
(* X86Trampoline is safe for every function, every layout and every value   *)
(* of the constants.  Safety is carried by one inductive invariant, IInv:   *)
(* the reservation made by _x86_64_calc_trampoline_size pays, at each step, *)
(* for the forward slots that the instructions still to come may need.      *)
(***************************************************************************)
EXTENDS X86Trampoline, FiniteSetTheorems, TLAPS

----------------------------------------------------------------------------
(* What the jump encoder returns, for every value of the constants *)

\* The remainder by a positive number lies below it (the form the other
\* proofs cite).
LEMMA ModBounds ==
    ASSUME NEW m \in Nat \ {0}, NEW a \in Int
    PROVE  a % m \in 0 .. m - 1
  BY SMT

\* A number already below the modulus is its own remainder.
LEMMA ModIdentity ==
    ASSUME NEW m \in Nat \ {0}, NEW a \in 0 .. m - 1
    PROVE  a % m = a
  BY SMT

\* Storing a value that fits in an operand and reading it back loses nothing.
LEMMA SignExtendedFits ==
    ASSUME NEW half \in Nat \ {0}, NEW v \in Int, -half <= v, v <= half - 1
    PROVE  SignExtended(half, v) = v
  <1>1. v + half \in 0 .. (2 * half) - 1
    OBVIOUS
  <1>2. (v + half) % (2 * half) = v + half
    BY <1>1, ModIdentity
  <1> QED
    BY <1>2 DEF SignExtended

\* _x86_64_fill_jump_code writes a jump that reaches its destination for every
\* pair of addresses whose distance is not one of Edges, and never needs more
\* than the room of a far jump.
THEOREM FillJumpReaches ==
    ASSUME NEW room \in Nat, NEW src \in Int, NEW dst \in Int
    PROVE  LET code == FillJumpCode(room, src, dst)
           IN  /\ code.size <= room
               /\ room >= JumpFarSize => code.size \in 2 .. JumpFarSize
               /\ code.size > 0 /\ dst - src \notin Edges => Lands(code, src) = dst
  <1> DEFINE diff == dst - src
             code == FillJumpCode(room, src, dst)
  <1> USE HalfAssumption
  <1>1. CASE Is8bitSize(diff)
    <2>1. code = JumpShort(room, diff)
      BY <1>1 DEF FillJumpCode
    <2>2. ASSUME diff \notin Edges
          PROVE  SignExtended(Half8, diff - JumpShortSize) = diff - JumpShortSize
      <3>1. -Half8 <= diff - JumpShortSize /\ diff - JumpShortSize <= Half8 - 1
        BY <1>1, <2>2 DEF Is8bitSize, Edges, JumpShortSize, JumpNearSize
      <3> QED
        BY <3>1, SignExtendedFits DEF JumpShortSize, JumpNearSize
    <2> QED
      BY <2>1, <2>2 DEF JumpShort, Failed, Lands, JumpShortSize, JumpFarSize
  <1>2. CASE ~Is8bitSize(diff) /\ Is32bitSize(diff)
    <2>1. code = JumpNear(room, diff)
      BY <1>2 DEF FillJumpCode
    <2>2. ASSUME diff \notin Edges
          PROVE  SignExtended(Half32, diff - JumpNearSize) = diff - JumpNearSize
      <3>1. -Half32 <= diff - JumpNearSize /\ diff - JumpNearSize <= Half32 - 1
        BY <1>2, <2>2 DEF Is32bitSize, Edges, JumpShortSize, JumpNearSize
      <3> QED
        BY <3>1, SignExtendedFits DEF JumpNearSize
    <2> QED
      BY <2>1, <2>2 DEF JumpNear, Failed, Lands, JumpNearSize, JumpFarSize
  <1>3. CASE ~Is8bitSize(diff) /\ ~Is32bitSize(diff)
    BY <1>3 DEF FillJumpCode, JumpFar, Failed, Lands, JumpFarSize
  <1> QED
    BY <1>1, <1>2, <1>3

\* A number just below the range of an operand is read back one range too high.
LEMMA SignExtendedWraps ==
    ASSUME NEW half \in Nat \ {0}, NEW v \in Int, -2 * half <= v, v < -half
    PROVE  SignExtended(half, v) = v + 2 * half
  <1>1. v + 3 * half \in 0 .. (2 * half) - 1
    OBVIOUS
  <1>2. (v + 3 * half) % (2 * half) = v + 3 * half
    BY <1>1, ModIdentity
  <1>3. (v + half) % (2 * half) = (v + half + 2 * half) % (2 * half)
    OBVIOUS
  <1>4. v + half + 2 * half = v + 3 * half
    OBVIOUS
  <1>5. (v + half) % (2 * half) = v + 3 * half
    BY <1>2, <1>3, <1>4
  <1> QED
    BY <1>5 DEF SignExtended

\* At the edges the jump misses, by the whole range of its operand: the width test
\* of _x86_64_fill_jump_code is made before the length of the jump is subtracted.
\* So FillJumpReaches excludes no distance that works.
THEOREM FillJumpMisses ==
    ASSUME NEW room \in Nat, NEW src \in Int, NEW dst \in Int,
           Half8 + JumpNearSize <= Half32, dst - src \in Edges,
           FillJumpCode(room, src, dst).size > 0
    PROVE  Lands(FillJumpCode(room, src, dst), src) \in {dst + 2 * Half8, dst + 2 * Half32}
  <1> DEFINE diff == dst - src
             code == FillJumpCode(room, src, dst)
  <1> USE HalfAssumption
  <1>1. CASE diff \in -Half8 .. -Half8 + JumpShortSize - 1
    <2>1. Is8bitSize(diff)
      BY <1>1 DEF Is8bitSize, JumpShortSize, JumpNearSize
    <2>2. code = JumpShort(room, diff)
      BY <2>1 DEF FillJumpCode
    <2>3. SignExtended(Half8, diff - JumpShortSize) = diff - JumpShortSize + 2 * Half8
      <3>1. /\ -2 * Half8 <= diff - JumpShortSize /\ diff - JumpShortSize < -Half8
            /\ diff - JumpShortSize \in Int /\ Half8 \in Nat \ {0}
        BY <1>1 DEF JumpShortSize, JumpNearSize
      <3> QED
        BY <3>1, SignExtendedWraps
    <2> QED
      BY <2>2, <2>3 DEF JumpShort, Failed, Lands, JumpShortSize
  <1>2. CASE diff \in -Half32 .. -Half32 + JumpNearSize - 1
    <2>1. ~Is8bitSize(diff) /\ Is32bitSize(diff)
      BY <1>2 DEF Is8bitSize, Is32bitSize, JumpNearSize
    <2>2. code = JumpNear(room, diff)
      BY <2>1 DEF FillJumpCode
    <2>3. SignExtended(Half32, diff - JumpNearSize) = diff - JumpNearSize + 2 * Half32
      <3>1. /\ -2 * Half32 <= diff - JumpNearSize /\ diff - JumpNearSize < -Half32
            /\ diff - JumpNearSize \in Int /\ Half32 \in Nat \ {0}
        BY <1>2 DEF JumpNearSize
      <3> QED
        BY <3>1, SignExtendedWraps
    <2> QED
      BY <2>2, <2>3 DEF JumpNear, Failed, Lands, JumpNearSize
  <1> QED
    BY <1>1, <1>2 DEF Edges

----------------------------------------------------------------------------
(* The inductive invariant *)

ArgsOK == fn \in Funcs /\ layout \in Layouts

\* A function without a size is refused before anything is computed from it
Sized == pc \in {"alloc", "redirect", "patch", "ready"} => fn.size \in Nat

\* Alloc reserves what FillRedirect and the patch loop will use
Reserved == pc = "redirect" => cap >= CalcTrampolineSize(fn)

\* Nothing is in the trampoline before the loop starts
Fresh == pc \in {"start", "alloc", "redirect"} =>
            copy = <<>> /\ slots = <<>> /\ pos = 0 /\ trampSize = 0 /\ redirect = Failed

\* A slot serves a branch that has been visited
SlotsServe == \A k \in DOMAIN slots : slots[k].branch \in DOMAIN copy

IInv == /\ ArgsOK /\ TypeOK /\ Sized /\ Reserved /\ Fresh
        /\ RoomForTheRest /\ SlotsServe /\ SlotsReach /\ RedirectSound

----------------------------------------------------------------------------
(* Helpers *)

\* The arguments have the types the constants promise.
LEMMA ArgTypes ==
    ASSUME ArgsOK
    PROVE  /\ fn.insns \in Seq(Insn)
           /\ fn.size \in Nat \cup {NoSize}
           /\ layout.target \in Int /\ layout.handle \in Int
           /\ layout.detour \in Int
           /\ Trampoline \in Int
  BY TrampolineAssumption DEF ArgsOK, Trampoline

\* The numbers in an instruction and in a forward slot.
LEMMA InsnType == \A i \in Insn : i.len \in Nat /\ i.disp \in Int
  BY DEF Insn

LEMMA SlotType == \A s \in Slot : s.at \in Nat /\ s.code.size \in Nat /\ s.branch \in Nat
  BY DEF Slot

\* Spending at most a far jump for one of n jumps leaves enough for the others.
LEMMA Spend ==
    ASSUME NEW used \in Nat, NEW size \in Nat, NEW room \in Nat,
           NEW n \in Nat, NEW m \in Nat, n = m + 1, size <= JumpFarSize,
           used + JumpFarSize * n <= room
    PROVE  used + size + JumpFarSize * m <= room
  BY DEF JumpFarSize

\* The jumps of a function are finitely many.
LEMMA JumpsFinite ==
    ASSUME NEW f, f.insns \in Seq(Insn), NEW i \in Nat
    PROVE  /\ IsFiniteSet(JumpsFrom(f, i))
           /\ Cardinality(JumpsFrom(f, i)) \in Nat
  <1>1. IsFiniteSet(i .. Len(f.insns))
    BY FS_Interval
  <1>2. JumpsFrom(f, i) \in SUBSET (i .. Len(f.insns))
    BY DEF JumpsFrom
  <1> QED
    BY <1>1, <1>2, FS_Subset, FS_CardinalityType

\* Passing an instruction takes one jump off the count exactly if it is one.
LEMMA JumpsStep ==
    ASSUME NEW f, f.insns \in Seq(Insn), NEW i \in 1 .. Len(f.insns)
    PROVE  Cardinality(JumpsFrom(f, i)) =
              Cardinality(JumpsFrom(f, i + 1)) + (IF IsJump(f.insns[i]) THEN 1 ELSE 0)
  <1>1. i \notin JumpsFrom(f, i + 1)
    BY DEF JumpsFrom
  <1>2. IsFiniteSet(JumpsFrom(f, i + 1))
    BY JumpsFinite
  <1>3. CASE IsJump(f.insns[i])
    <2>1. JumpsFrom(f, i) = JumpsFrom(f, i + 1) \cup {i}
      BY <1>3 DEF JumpsFrom
    <2>2. Cardinality(JumpsFrom(f, i + 1)) \in Nat
      BY JumpsFinite
    <2> QED
      BY <1>1, <1>2, <1>3, <2>1, <2>2, FS_AddElement
  <1>4. CASE ~IsJump(f.insns[i])
    <2>1. JumpsFrom(f, i) = JumpsFrom(f, i + 1)
      BY <1>4 DEF JumpsFrom
    <2>2. Cardinality(JumpsFrom(f, i + 1)) \in Nat
      BY JumpsFinite
    <2> QED
      BY <1>4, <2>1, <2>2
  <1> QED
    BY <1>3, <1>4

\* ALIGN_SIZE never rounds down.
LEMMA AlignSizeUp ==
    ASSUME NEW n \in Int
    PROVE  AlignSize(n) \in Int /\ AlignSize(n) >= n
  <1>1. (n + (PageSize - 1)) % PageSize \in 0 .. PageSize - 1
    BY PageSizeAssumption, ModBounds
  <1> QED
    BY <1>1, PageSizeAssumption DEF AlignSize

\* What the encoder returns is Failed or a jump of one of the three sizes.
LEMMA FillJumpType ==
    ASSUME NEW room \in Int, NEW src \in Int, NEW dst \in Int
    PROVE  LET code == FillJumpCode(room, src, dst)
           IN  \/ code = Failed
               \/ code \in [size : {JumpShortSize, JumpNearSize, JumpFarSize},
                            kind : {"rel", "abs"}, value : Int]
  <1>1. \A half \in Nat \ {0}, v \in Int : SignExtended(half, v) \in Int
    BY ModBounds DEF SignExtended
  <1> QED
    BY <1>1, HalfAssumption
       DEF FillJumpCode, JumpShort, JumpNear, JumpFar, JumpShortSize, JumpNearSize,
           JumpFarSize

----------------------------------------------------------------------------
(* The initial state *)

LEMMA InitIInv == Init => IInv
  <1> SUFFICES ASSUME Init PROVE IInv
    OBVIOUS
  <1> USE DEF Init
  <1>1. ArgsOK
    BY DEF ArgsOK
  <1>2. TypeOK
    BY DEF TypeOK, Failed
  <1> QED
    BY <1>1, <1>2
       DEF IInv, Sized, Reserved, Fresh, RoomForTheRest, SlotsServe, SlotsReach,
           RedirectSound

----------------------------------------------------------------------------
(* One step.  Returning an error or stuttering changes nothing the invariant *)
(* speaks of but pc and ret.                                                  *)

LEMMA ReturnStep ==
    ASSUME IInv, NEW code \in {"NOFUNCSIZE", "NOMEM", "UNKNOWN", "SMALLFUNC"},
           Return(code),
           redirect' \in [size : {-1, JumpShortSize, JumpNearSize, JumpFarSize},
                          kind : {"none", "rel", "abs"}, value : Int]
    PROVE  IInv'
  <1>1. ArgsOK'
    BY DEF IInv, Return, args, ArgsOK
  <1>2. TypeOK'
    BY DEF IInv, Return, args, TypeOK
  <1>3. SlotsReach' /\ SlotsServe'
    BY DEF IInv, Return, args, SlotsReach, SlotsServe, DstOf, Trampoline
  <1> QED
    BY <1>1, <1>2, <1>3
       DEF IInv, Return, Sized, Reserved, Fresh, RoomForTheRest, RedirectSound

LEMMA StutterStep == IInv /\ UNCHANGED vars => IInv'
  BY DEF IInv, vars, ArgsOK, TypeOK, Sized, Reserved, Fresh, RoomForTheRest,
         SlotsServe, SlotsReach, RedirectSound, Here, DstOf, Trampoline

LEMMA SizeTargetStep == IInv /\ SizeTarget => IInv'
  <1> SUFFICES ASSUME IInv, SizeTarget PROVE IInv'
    OBVIOUS
  <1>1. CASE fn.size = NoSize
    BY <1>1, ReturnStep DEF SizeTarget, IInv, TypeOK
  <1>2. CASE fn.size # NoSize
    <2> USE <1>2 DEF SizeTarget
    <2>1. ArgsOK' /\ fn.size \in Nat
      BY ArgTypes DEF IInv, args, ArgsOK
    <2>2. TypeOK'
      BY DEF IInv, args, TypeOK
    <2>3. SlotsReach' /\ SlotsServe'
      BY DEF IInv, args, SlotsReach, SlotsServe, DstOf, Trampoline
    <2> QED
      BY <2>1, <2>2, <2>3
         DEF IInv, args, Sized, Reserved, Fresh, RoomForTheRest, RedirectSound
  <1> QED
    BY <1>1, <1>2

LEMMA AllocStep == IInv /\ Alloc => IInv'
  <1> SUFFICES ASSUME IInv, Alloc PROVE IInv'
    OBVIOUS
  <1> USE DEF Alloc
  <1> DEFINE need == CalcTrampolineSize(fn)
  <1>1. fn.size \in Nat /\ HandleSize \in Nat
    BY TrampolineAssumption DEF IInv, Sized
  <1>2. need \in Nat
    <2>1. Cardinality(JumpsFrom(fn, 1)) \in Nat
      BY ArgTypes, JumpsFinite DEF IInv
    <2> QED
      BY <1>1, <2>1 DEF CalcTrampolineSize, JumpFarSize
  <1>3. cap' \in Nat /\ cap' >= need
    <2>1. /\ AlignSize(HandleSize + need) \in Int
          /\ AlignSize(HandleSize + need) >= HandleSize + need
      BY <1>1, <1>2, AlignSizeUp
    <2>2. cap' = AlignSize(HandleSize + need) - HandleSize
      OBVIOUS
    <2> HIDE DEF need
    <2> QED
      BY <1>1, <1>2, <2>1, <2>2
  <1>4. ArgsOK'
    BY DEF IInv, args, ArgsOK
  <1>5. TypeOK'
    BY <1>3 DEF IInv, args, TypeOK
  <1>6. Reserved'
    BY <1>3 DEF Reserved, args, CalcTrampolineSize, JumpsFrom, IsJump
  <1>7. SlotsReach' /\ SlotsServe'
    BY DEF IInv, Fresh, args, SlotsReach, SlotsServe
  <1> QED
    BY <1>4, <1>5, <1>6, <1>7
       DEF IInv, args, Sized, Fresh, RoomForTheRest, RedirectSound

LEMMA FillRedirectStep == IInv /\ FillRedirect => IInv'
  <1> SUFFICES ASSUME IInv, FillRedirect PROVE IInv'
    OBVIOUS
  <1>1. /\ layout.target \in Int /\ layout.detour \in Int
        /\ redirect' = FillJumpCode(JumpFarSize, layout.target, layout.detour)
        /\ JumpFarSize \in Nat
    BY ArgTypes DEF IInv, FillRedirect, JumpFarSize
  <1>2. redirect' \in [size : {-1, JumpShortSize, JumpNearSize, JumpFarSize},
                       kind : {"none", "rel", "abs"}, value : Int]
    BY <1>1, FillJumpType DEF Failed, JumpFarSize
  <1>3. CASE redirect'.size < 0
    BY <1>2, <1>3, ReturnStep DEF FillRedirect
  <1>4. CASE ~(redirect'.size < 0) /\ redirect'.size > fn.size
    BY <1>2, <1>4, ReturnStep DEF FillRedirect
  <1>5. CASE ~(redirect'.size < 0) /\ ~(redirect'.size > fn.size)
    <2>1. /\ pc = "redirect" /\ pc' = "patch" /\ trampSize' = fn.size
          /\ UNCHANGED <<fn, layout, ret, cap, pos, copy, slots>>
      BY <1>5 DEF FillRedirect, args
    <2>2. fn.size \in Nat /\ fn.insns \in Seq(Insn)
      BY <2>1, ArgTypes DEF IInv, Sized
    <2>3. ArgsOK' /\ TypeOK' /\ Sized' /\ Reserved' /\ Fresh'
      BY <1>2, <2>1, <2>2 DEF IInv, ArgsOK, TypeOK, Sized, Reserved, Fresh
    <2>4. cap >= fn.size + JumpFarSize * Cardinality(JumpsFrom(fn, 1))
      BY <2>1 DEF IInv, Reserved, CalcTrampolineSize
    <2>5. copy = <<>> /\ slots = <<>>
      BY <2>1 DEF IInv, Fresh
    <2>6. RoomForTheRest'
      BY <2>1, <2>4, <2>5 DEF RoomForTheRest, Here
    <2>7. SlotsReach' /\ SlotsServe'
      <3>1. cap \in Nat /\ cap >= fn.size
        <4>1. Cardinality(JumpsFrom(fn, 1)) \in Nat
          BY <2>2, JumpsFinite
        <4>2. cap \in Nat
          BY DEF IInv, TypeOK
        <4> QED
          BY <2>2, <2>4, <4>1, <4>2 DEF JumpFarSize
      <3> QED
        BY <3>1, <2>1, <2>2, <2>5 DEF SlotsReach, SlotsServe
    <2>8. RedirectSound'
      <3>1. redirect'.size \in 1 .. fn.size
        BY <1>2, <1>5, <2>2 DEF JumpShortSize, JumpNearSize, JumpFarSize
      <3>2. layout.detour - layout.target \notin Edges
                => Lands(redirect', layout.target) = layout.detour
        <4>1. LET code == FillJumpCode(JumpFarSize, layout.target, layout.detour)
              IN  code.size > 0 /\ layout.detour - layout.target \notin Edges
                     => Lands(code, layout.target) = layout.detour
          BY <1>1, FillJumpReaches
        <4>2. redirect'.size > 0
          BY <2>2, <3>1
        <4> QED
          BY <1>1, <4>1, <4>2
      <3> QED
        BY <2>1, <3>1, <3>2 DEF RedirectSound
    <2> QED
      BY <2>3, <2>6, <2>7, <2>8 DEF IInv
  <1> QED
    BY <1>3, <1>4, <1>5

\* An instruction that needs no forward slot uses none of the reserved room.
LEMMA VisitStep ==
    ASSUME IInv, Decoded, NEW patched \in BOOLEAN, NEW disp \in Int,
           Visit(patched, disp), UNCHANGED <<trampSize, slots>>
    PROVE  IInv'
  <1>1. /\ UNCHANGED <<fn, layout, pc, ret, redirect, cap, trampSize, slots>>
        /\ pc = "patch"
    BY DEF Visit, args, Decoded
  <1>2. /\ fn.insns \in Seq(Insn)
        /\ copy \in Seq(Visited)
        /\ Here \in 1 .. Len(fn.insns)
        /\ pos \in Nat /\ trampSize \in Nat /\ cap \in Nat
    BY ArgTypes DEF IInv, TypeOK, Decoded, Here
  <1>3. Current \in Insn
    BY <1>2 DEF Current
  <1>4. /\ copy' \in Seq(Visited)
        /\ Len(copy') = Len(copy) + 1
        /\ \A i \in DOMAIN copy : i \in DOMAIN copy' /\ copy'[i] = copy[i]
        /\ pos' \in Nat
    <2> DEFINE e == [at |-> pos, insn |-> Current, patched |-> patched, disp |-> disp]
    <2>1. copy' = Append(copy, e) /\ pos' = pos + Current.len
      BY DEF Visit
    <2>2. e \in Visited
      BY <1>2, <1>3 DEF Visited
    <2>3. Current.len \in Nat
      BY <1>3 DEF Insn
    <2> HIDE DEF e
    <2> QED
      BY <1>2, <2>1, <2>2, <2>3
  <1>5. ArgsOK' /\ TypeOK'
    BY <1>1, <1>4 DEF IInv, ArgsOK, TypeOK
  <1>6. RoomForTheRest'
    <2>1. Here' = Here + 1
      <3>1. Len(copy) \in Nat
        BY <1>2
      <3> QED
        BY <3>1, <1>4 DEF Here
    <2>3. /\ Cardinality(JumpsFrom(fn, Here)) \in Nat
          /\ Cardinality(JumpsFrom(fn, Here + 1)) \in Nat
      <3>1. Here \in Nat /\ Here + 1 \in Nat
        BY <1>2
      <3> QED
        BY <1>2, <3>1, JumpsFinite
    <2>2. Cardinality(JumpsFrom(fn, Here)) >= Cardinality(JumpsFrom(fn, Here + 1))
      <3>1. Cardinality(JumpsFrom(fn, Here)) =
              Cardinality(JumpsFrom(fn, Here + 1)) + (IF IsJump(fn.insns[Here]) THEN 1 ELSE 0)
        BY <1>2, JumpsStep
      <3> QED
        BY <2>3, <3>1
    <2>4. trampSize + JumpFarSize * Cardinality(JumpsFrom(fn, Here)) <= cap
      BY <1>1 DEF IInv, RoomForTheRest
    <2>5. trampSize + JumpFarSize * Cardinality(JumpsFrom(fn, Here + 1)) <= cap
      BY <1>2, <2>2, <2>3, <2>4 DEF JumpFarSize
    <2> QED
      BY <1>1, <2>1, <2>5 DEF RoomForTheRest
  <1>7. SlotsServe' /\ SlotsReach'
    BY <1>1, <1>4 DEF IInv, SlotsServe, SlotsReach, DstOf, Trampoline
  <1> QED
    BY <1>1, <1>5, <1>6, <1>7 DEF IInv, Sized, Reserved, Fresh, RedirectSound

\* The loop decodes an instruction of the function.
LEMMA CurrentType == IInv /\ Decoded => Current \in Insn /\ Here \in 1 .. Len(fn.insns)
  <1> SUFFICES ASSUME IInv, Decoded
               PROVE  Current \in Insn /\ Here \in 1 .. Len(fn.insns)
    OBVIOUS
  <1>1. fn.insns \in Seq(Insn) /\ copy \in Seq(Visited)
    BY ArgTypes DEF IInv, TypeOK
  <1>2. Here \in 1 .. Len(fn.insns)
    BY <1>1 DEF Decoded, Here
  <1> QED
    BY <1>1, <1>2 DEF Current

\* What an operand holds is a number.
LEMMA StoredType ==
    ASSUME NEW width, NEW v \in Int
    PROVE  SignExtended(HalfOf(width), v) \in Int
  <1> \A half \in Nat \ {0} : SignExtended(half, v) \in Int
    BY ModBounds DEF SignExtended
  <1>1. HalfOf(width) \in Nat \ {0}
    <2>1. /\ Half8 \in Nat \ {0} /\ Half16 \in Nat \ {0}
          /\ Half32 \in Nat \ {0}
      BY HalfAssumption DEF JumpNearSize
    <2>2. CASE width = 8
      BY <2>1, <2>2 DEF HalfOf
    <2>3. CASE width = 16
      BY <2>1, <2>3 DEF HalfOf
    <2>4. CASE width # 8 /\ width # 16
      BY <2>1, <2>4 DEF HalfOf
    <2> QED
      BY <2>2, <2>3, <2>4
  <1> QED
    BY <1>1

LEMMA OverwriteStep == IInv /\ Overwrite => IInv'
  <1> SUFFICES ASSUME IInv, Overwrite PROVE IInv'
    OBVIOUS
  <1>1. CASE Current.width \in {8, 16, 32}
    <2>1. AddrDiff \in Int
      <3>1. pos \in Int /\ Current.len \in Int /\ Current.disp \in Int
        BY CurrentType DEF IInv, TypeOK, Overwrite, Escapes, Insn
      <3>2. Trampoline \in Int /\ layout.target \in Int
        BY ArgTypes DEF IInv
      <3> QED
        BY <3>1, <3>2 DEF AddrDiff, DstAddr
    <2>2. SignExtended(HalfOf(Current.width), AddrDiff) \in Int
      BY <2>1, StoredType
    <2> QED
      BY <1>1, <2>2, VisitStep DEF Overwrite, Escapes, OverwriteOperand
  <1>2. CASE Current.width \notin {8, 16, 32}
    BY <1>2, ReturnStep DEF Overwrite, OverwriteOperand, IInv, TypeOK
  <1> QED
    BY <1>1, <1>2

LEMMA LeaveStep == IInv /\ (LeaveAlone \/ KeepInBody) => IInv'
  <1>1. ASSUME IInv, Decoded PROVE Current.disp \in Int
    BY <1>1, CurrentType DEF Insn
  <1> QED
    BY <1>1, VisitStep DEF LeaveAlone, KeepInBody

LEMMA TooFarStep == IInv /\ TooFar => IInv'
  BY ReturnStep DEF TooFar, IInv, TypeOK

\* What was used grows by n, and still fits.
LEMMA Grows ==
    ASSUME NEW size \in Nat, NEW used \in Nat, NEW room \in Nat, NEW n \in Nat,
           size <= used, used <= room, n <= room - used
    PROVE  /\ used + n \in Nat /\ used + n <= room
           /\ size <= used + n /\ used <= used + n
  OBVIOUS

\* A forward slot that fits leaves the trampoline within its bounds.
LEMMA SlotFits ==
    ASSUME IInv, Decoded, NEW n \in Nat, n <= cap - trampSize
    PROVE  /\ trampSize + n \in Nat /\ trampSize + n <= cap
           /\ fn.size <= trampSize + n /\ trampSize <= trampSize + n
  <1>1. pc = "patch" /\ fn.size \in Nat
    BY DEF IInv, Sized, Decoded
  <1>2. /\ cap \in Nat /\ trampSize \in Nat
        /\ fn.size <= trampSize /\ trampSize <= cap
    BY <1>1 DEF IInv, TypeOK, SlotsReach
  <1> QED
    BY <1>1, <1>2, Grows

\* A sequence with an element more.
LEMMA Appended ==
    ASSUME NEW S, NEW q \in Seq(S), NEW e \in S
    PROVE  /\ Append(q, e) \in Seq(S) /\ Len(Append(q, e)) = Len(q) + 1
           /\ DOMAIN Append(q, e) = DOMAIN q \cup {Len(q) + 1}
           /\ DOMAIN q = 1 .. Len(q) /\ Len(q) \in Nat
           /\ \A k \in DOMAIN q : k \in DOMAIN Append(q, e) /\ Append(q, e)[k] = q[k]
           /\ Append(q, e)[Len(q) + 1] = e
  OBVIOUS

\* Appending a forward slot spends at most the far jump that was reserved for
\* this very branch, and leaves the other slots where they are.
LEMMA SlotStep ==
    ASSUME IInv, Decoded, IsJump(Current), NEW s \in Slot, NEW e \in Visited,
           s.at = trampSize, s.dst = DstAddr, s.branch = Here,
           e.at = pos, e.insn = Current,
           0 < s.code.size, s.code.size <= JumpFarSize, s.code.size <= cap - trampSize,
           s.dst - (Trampoline + s.at) \notin Edges
              => Lands(s.code, Trampoline + s.at) = s.dst,
           slots' = Append(slots, s), trampSize' = trampSize + s.code.size,
           copy' = Append(copy, e), pos' = pos + Current.len,
           UNCHANGED <<fn, layout, pc, ret, redirect, cap>>
    PROVE  IInv'
  <1>1. /\ pc = "patch" /\ fn.size \in Nat /\ fn.insns \in Seq(Insn)
        /\ Current.len \in Nat
        /\ Here \in 1 .. Len(fn.insns) /\ Here = Len(copy) + 1
    <2>1. pc = "patch" /\ fn.size \in Nat /\ fn.insns \in Seq(Insn)
      BY ArgTypes DEF IInv, Sized, Decoded
    <2>2. Current \in Insn /\ Here \in 1 .. Len(fn.insns)
      BY CurrentType
    <2>3. Current.len \in Nat
      BY <2>2, InsnType
    <2> QED
      BY <2>1, <2>2, <2>3 DEF Here
  <1>2. /\ cap \in Nat /\ trampSize \in Nat /\ pos \in Nat
        /\ copy \in Seq(Visited) /\ slots \in Seq(Slot)
        /\ fn.size <= trampSize /\ trampSize <= cap
        /\ s.code.size \in Nat
    BY <1>1 DEF IInv, TypeOK, SlotsReach, Slot
  <1>3. /\ copy' \in Seq(Visited)
        /\ Len(copy') = Len(copy) + 1
        /\ \A i \in DOMAIN copy : i \in DOMAIN copy' /\ copy'[i] = copy[i]
        /\ Here \in DOMAIN copy' /\ copy'[Here] = e
    <2>1. e \in Visited /\ copy \in Seq(Visited) /\ Here = Len(copy) + 1
      BY <1>1, <1>2
    <2>2. /\ copy' \in Seq(Visited) /\ Len(copy') = Len(copy) + 1
          /\ \A i \in DOMAIN copy : i \in DOMAIN copy' /\ copy'[i] = copy[i]
      BY <2>1, Appended
    <2>3. Len(copy) + 1 \in DOMAIN copy' /\ copy'[Len(copy) + 1] = e
      BY <2>1, Appended
    <2> QED
      BY <2>1, <2>2, <2>3
  <1>4. /\ slots' \in Seq(Slot)
        /\ DOMAIN slots' = DOMAIN slots \cup {Len(slots) + 1}
        /\ DOMAIN slots = 1 .. Len(slots) /\ Len(slots) \in Nat
        /\ \A k \in DOMAIN slots : slots'[k] = slots[k]
        /\ slots'[Len(slots) + 1] = s
    <2>1. s \in Slot /\ slots \in Seq(Slot)
      BY <1>2
    <2>2. /\ slots' \in Seq(Slot)
          /\ DOMAIN slots' = DOMAIN slots \cup {Len(slots) + 1}
          /\ DOMAIN slots = 1 .. Len(slots) /\ Len(slots) \in Nat
      BY <2>1, Appended
    <2>3. /\ \A k \in DOMAIN slots : slots'[k] = slots[k]
          /\ slots'[Len(slots) + 1] = s
      BY <2>1, Appended
    <2> QED
      BY <2>2, <2>3
  <1>5. /\ trampSize' \in Nat /\ trampSize' <= cap /\ fn.size <= trampSize'
        /\ trampSize <= trampSize' /\ pos' \in Nat
    <2>1. pos' \in Nat
      BY <1>1, <1>2, SMTT(30)
    <2>2. /\ trampSize + s.code.size \in Nat /\ trampSize + s.code.size <= cap
          /\ fn.size <= trampSize + s.code.size /\ trampSize <= trampSize + s.code.size
      BY <1>2, SlotFits, Zenon
    <2> QED
      BY <2>1, <2>2, Zenon
  <1>6. ArgsOK' /\ TypeOK'
    BY <1>3, <1>4, <1>5 DEF IInv, ArgsOK, TypeOK
  <1>7. RoomForTheRest'
    <2>1. Here' = Here + 1 /\ Here + 1 \in Nat /\ Here \in Nat
      BY <1>1, <1>2, <1>3, SMTT(30) DEF Here
    <2>2. /\ Cardinality(JumpsFrom(fn, Here)) \in Nat
          /\ Cardinality(JumpsFrom(fn, Here + 1)) \in Nat
      BY <1>1, <2>1, JumpsFinite
    <2>3. Cardinality(JumpsFrom(fn, Here)) = Cardinality(JumpsFrom(fn, Here + 1)) + 1
      BY <1>1, JumpsStep DEF Current
    <2>4. trampSize + JumpFarSize * Cardinality(JumpsFrom(fn, Here)) <= cap
      BY <1>1 DEF IInv, RoomForTheRest
    <2>5. trampSize' + JumpFarSize * Cardinality(JumpsFrom(fn, Here + 1)) <= cap
      <3>1. trampSize + s.code.size + JumpFarSize * Cardinality(JumpsFrom(fn, Here + 1)) <= cap
        BY <1>2, <2>2, <2>3, <2>4, Spend
      <3> QED
        BY <3>1
    <2> QED
      BY <2>1, <2>5 DEF RoomForTheRest
  <1>8. SlotsServe'
    BY <1>3, <1>4 DEF IInv, SlotsServe
  <1>9. SlotsReach'
    <2>1. ASSUME NEW i \in DOMAIN copy PROVE DstOf(i)' = DstOf(i)
      BY <1>3 DEF DstOf
    <2>2. ASSUME NEW i, i = Here PROVE DstOf(i)' = DstAddr
      BY <1>3, <2>2 DEF DstOf, DstAddr
    <2>3. Trampoline' = Trampoline
      BY DEF Trampoline
    <2>4. ASSUME NEW k \in DOMAIN slots
          PROVE  /\ slots[k].at >= fn.size
                 /\ slots[k].at + slots[k].code.size <= trampSize
                 /\ \A l \in 1 .. k - 1 : slots[l].at + slots[l].code.size <= slots[k].at
                 /\ slots[k].branch \in DOMAIN copy
                 /\ slots[k].dst = DstOf(slots[k].branch)
                 /\ slots[k].dst - (Trampoline + slots[k].at) \notin Edges
                      => Lands(slots[k].code, Trampoline + slots[k].at) = slots[k].dst
                 /\ slots[k].at \in Nat /\ slots[k].code.size \in Nat
      <3>1. slots[k] \in Slot
        BY <1>2
      <3>2. SlotsReach /\ SlotsServe
        BY DEF IInv
      <3> QED
        BY <3>1, <3>2, SlotType DEF SlotsReach, SlotsServe
    <2>5. ASSUME NEW k \in DOMAIN slots'
          PROVE  /\ slots'[k].at >= fn.size
                 /\ slots'[k].at + slots'[k].code.size <= trampSize'
                 /\ \A l \in 1 .. k - 1 :
                       slots'[l].at + slots'[l].code.size <= slots'[k].at
                 /\ slots'[k].dst = DstOf(slots[k].branch)'
                 /\ slots'[k].dst - (Trampoline + slots'[k].at) \notin Edges
                      => Lands(slots'[k].code, Trampoline + slots'[k].at) = slots'[k].dst
      <3>1. CASE k \in DOMAIN slots
        <4>1. slots'[k] = slots[k] /\ \A l \in 1 .. k - 1 : slots'[l] = slots[l]
          BY <1>4, <3>1
        <4>2. slots[k].at + slots[k].code.size <= trampSize'
          <5>1. /\ slots[k].at + slots[k].code.size <= trampSize
                /\ slots[k].at + slots[k].code.size \in Nat
            BY <2>4, <3>1
          <5> QED
            BY <1>2, <1>5, <5>1
        <4> QED
          BY <2>1, <2>4, <3>1, <4>1, <4>2
      <3>2. CASE k = Len(slots) + 1
        <4>1. /\ slots'[k] = s
              /\ \A l \in 1 .. k - 1 : l \in DOMAIN slots /\ slots'[l] = slots[l]
          BY <1>4, <3>2
        <4>2. s.at >= fn.size /\ s.at + s.code.size <= trampSize'
          BY <1>1, <1>2
        <4>3. \A l \in 1 .. k - 1 : slots'[l].at + slots'[l].code.size <= s.at
          BY <2>4, <4>1
        <4>4. \A i : i = s.branch => DstOf(i)' = s.dst
          BY <2>2
        <4> QED
          BY <4>1, <4>2, <4>3, <4>4
      <3> QED
        BY <1>4, <3>1, <3>2
    <2> QED
      BY <1>5, <2>3, <2>5 DEF SlotsReach
  <1> QED
    BY <1>1, <1>6, <1>7, <1>8, <1>9 DEF IInv, Sized, Reserved, Fresh, RedirectSound

LEMMA ForwardStep == IInv /\ Forward => IInv'
  <1> SUFFICES ASSUME IInv, Forward PROVE IInv'
    OBVIOUS
  <1> DEFINE code == FillJumpCode(cap - trampSize, Trampoline + trampSize, DstAddr)
             s == [at |-> trampSize, code |-> code, dst |-> DstAddr, branch |-> Here]
             disp == SignExtended(HalfOf(Current.width), ForwardDiff)
             e == [at |-> pos, insn |-> Current, patched |-> TRUE, disp |-> disp]
  <1>1. /\ Decoded /\ IsJump(Current)
        /\ layout.target \in Int /\ Trampoline \in Int
        /\ cap \in Nat /\ trampSize \in Nat /\ pos \in Nat
        /\ trampSize <= cap
    BY ArgTypes DEF IInv, TypeOK, SlotsReach, Forward, Escapes, Decoded, IsJump
  <1>2. Current \in Insn /\ Here \in Nat
    BY <1>1, CurrentType
  <1>3. /\ DstAddr \in Int /\ disp \in Int
        /\ cap - trampSize \in Nat /\ Trampoline + trampSize \in Int
    <2>1. DstAddr \in Int
      BY <1>1, <1>2 DEF DstAddr, Insn
    <2>2. ForwardDiff \in Int
      BY <1>1 DEF ForwardDiff
    <2> QED
      BY <1>1, <2>1, <2>2, StoredType
  <1>4. CASE code.size < 0
    BY <1>4, ReturnStep DEF Forward, IInv, TypeOK
  <1>5. CASE ~(code.size < 0)
    <2>1. /\ slots' = Append(slots, s)
          /\ trampSize' = trampSize + s.code.size
          /\ copy' = Append(copy, e)
          /\ pos' = pos + Current.len
          /\ UNCHANGED <<fn, layout, pc, ret, redirect, cap>>
      BY <1>5 DEF Forward, Visit, args
    <2>2. code \in [size : {JumpShortSize, JumpNearSize, JumpFarSize},
                    kind : {"rel", "abs"}, value : Int]
      BY <1>3, <1>5, FillJumpType DEF Failed
    <2>3. code.size \in Nat /\ 0 < code.size /\ code.size <= JumpFarSize
      BY <2>2 DEF JumpShortSize, JumpNearSize, JumpFarSize
    <2>4. /\ code.size <= cap - trampSize
          /\ DstAddr - (Trampoline + trampSize) \notin Edges
                => Lands(code, Trampoline + trampSize) = DstAddr
      BY <1>3, <2>3, FillJumpReaches
    <2>5. s \in Slot /\ e \in Visited
      BY <1>1, <1>2, <1>3, <2>2, <2>3 DEF Slot, Visited
    <2>6. /\ s.at = trampSize /\ s.dst = DstAddr /\ s.branch = Here /\ s.code = code
          /\ e.at = pos /\ e.insn = Current
      OBVIOUS
    <2> HIDE DEF s, e, code, disp
    <2> QED
      BY <1>1, <2>1, <2>3, <2>4, <2>5, <2>6, SlotStep
  <1> QED
    BY <1>4, <1>5

LEMMA NextIInv == IInv /\ [Next]_vars => IInv'
  <1>1. IInv /\ AllocFails => IInv'
    BY ReturnStep DEF AllocFails, IInv, TypeOK
  <1>2. IInv /\ Finish => IInv'
    BY DEF Finish, args, IInv, ArgsOK, TypeOK, Sized, Reserved, Fresh, RoomForTheRest,
           SlotsServe, SlotsReach, RedirectSound, DstOf, Trampoline
  <1> QED
    BY <1>1, <1>2, StutterStep, SizeTargetStep, AllocStep, FillRedirectStep, LeaveStep,
       OverwriteStep, ForwardStep, TooFarStep DEF Next

----------------------------------------------------------------------------
(***************************************************************************)
(* Why a function is refused.  The encoder never fails for want of room:    *)
(* FillRedirect gives it the room of a far jump, and so does Forward, by    *)
(* RoomForTheRest.  What is left of the paths that return UNKNOWN are the   *)
(* branches no operand of their width can reach.                            *)
(***************************************************************************)

\* uhook_x86_64_inject stops at its first error
StopsAtError == ret # "none" => pc = "failed"

UInv == StopsAtError /\ UnknownOnlyIfUnreachable

\* The loop has room for a far jump whenever it is at one of the jumps.
LEMMA RoomForThis ==
    ASSUME IInv, Decoded, IsJump(Current)
    PROVE  cap - trampSize \in Nat /\ cap - trampSize >= JumpFarSize
  <1>1. /\ fn.insns \in Seq(Insn) /\ Here \in 1 .. Len(fn.insns)
        /\ cap \in Nat /\ trampSize \in Nat /\ pc = "patch"
    BY ArgTypes, CurrentType DEF IInv, TypeOK, Decoded
  <1>2. /\ Cardinality(JumpsFrom(fn, Here + 1)) \in Nat
        /\ Cardinality(JumpsFrom(fn, Here)) = Cardinality(JumpsFrom(fn, Here + 1)) + 1
    <2>1. Here + 1 \in Nat
      BY <1>1
    <2>2. Cardinality(JumpsFrom(fn, Here + 1)) \in Nat
      BY <1>1, <2>1, JumpsFinite
    <2>3. IsJump(fn.insns[Here])
      BY DEF Current
    <2> QED
      BY <1>1, <2>2, <2>3, JumpsStep
  <1>3. trampSize + JumpFarSize * Cardinality(JumpsFrom(fn, Here)) <= cap
    BY <1>1 DEF IInv, RoomForTheRest
  <1>4. trampSize + JumpFarSize + JumpFarSize * Cardinality(JumpsFrom(fn, Here + 1)) <= cap
    BY <1>1, <1>2, <1>3, Spend DEF JumpFarSize
  <1> QED
    BY <1>1, <1>2, <1>4 DEF JumpFarSize

\* An error that says nothing of a branch.
LEMMA OtherErrorUInv ==
    ASSUME UInv, NEW code \in {"NOFUNCSIZE", "NOMEM", "SMALLFUNC"}, Return(code)
    PROVE  UInv'
  BY DEF UInv, Return, StopsAtError, UnknownOnlyIfUnreachable

\* UNKNOWN, returned at a branch that cannot be rewritten.
LEMMA UnreachableUInv ==
    ASSUME Escapes, Return("UNKNOWN"),
           \/ Current.width = 64
           \/ /\ MinAddrWidth(AddrDiff) > Current.width
              /\ MinAddrWidth(ForwardDiff) > Current.width
    PROVE  UInv'
  <1>1. /\ Current' = Current /\ DstAddr' = DstAddr
        /\ AddrDiff' = AddrDiff /\ ForwardDiff' = ForwardDiff
        /\ DstInBody' = DstInBody /\ ret' = "UNKNOWN" /\ pc' = "failed"
    BY DEF Return, args, Current, Here, DstAddr, AddrDiff, ForwardDiff, DstInBody,
           Trampoline
  <1> QED
    BY <1>1 DEF Escapes, UInv, StopsAtError, UnknownOnlyIfUnreachable

\* A step that goes on has no error to explain.
LEMMA GoesOnUInv ==
    ASSUME UInv, pc # "failed", ret' = ret
    PROVE  UInv'
  BY DEF UInv, StopsAtError, UnknownOnlyIfUnreachable

LEMMA InitUInv == Init => UInv
  BY DEF Init, UInv, StopsAtError, UnknownOnlyIfUnreachable

LEMMA FillRedirectUInv == IInv /\ UInv /\ FillRedirect => UInv'
  <1> SUFFICES ASSUME IInv, UInv, FillRedirect PROVE UInv'
    OBVIOUS
  <1>1. redirect'.size \in 2 .. JumpFarSize
    <2>1. layout.target \in Int /\ layout.detour \in Int /\ JumpFarSize \in Nat
      BY ArgTypes DEF IInv, JumpFarSize
    <2>2. redirect' = FillJumpCode(JumpFarSize, layout.target, layout.detour)
      BY DEF FillRedirect
    <2>3. LET code == FillJumpCode(JumpFarSize, layout.target, layout.detour)
          IN  JumpFarSize >= JumpFarSize => code.size \in 2 .. JumpFarSize
      BY <2>1, FillJumpReaches
    <2> QED
      BY <2>1, <2>2, <2>3
  <1>2. ~(redirect'.size < 0)
    BY <1>1 DEF JumpFarSize
  <1>3. CASE redirect'.size > fn.size
    BY <1>2, <1>3, OtherErrorUInv DEF FillRedirect
  <1>4. CASE ~(redirect'.size > fn.size)
    BY <1>2, <1>4, GoesOnUInv DEF FillRedirect
  <1> QED
    BY <1>3, <1>4

LEMMA OverwriteUInv == IInv /\ UInv /\ Overwrite => UInv'
  <1> SUFFICES ASSUME IInv, UInv, Overwrite PROVE UInv'
    OBVIOUS
  <1>1. CASE Current.width \in {8, 16, 32}
    BY <1>1, GoesOnUInv DEF Overwrite, OverwriteOperand, Visit, Escapes, Decoded
  <1>2. CASE Current.width \notin {8, 16, 32}
    <2>1. Current.width = 64
      BY <1>2, CurrentType DEF Overwrite, Escapes, Insn
    <2> QED
      BY <1>2, <2>1, UnreachableUInv DEF Overwrite, OverwriteOperand
  <1> QED
    BY <1>1, <1>2

LEMMA ForwardUInv == IInv /\ UInv /\ Forward => UInv'
  <1> SUFFICES ASSUME IInv, UInv, Forward PROVE UInv'
    OBVIOUS
  <1> DEFINE code == FillJumpCode(cap - trampSize, Trampoline + trampSize, DstAddr)
  <1>1. Decoded /\ IsJump(Current)
    BY DEF Forward, Escapes, IsJump
  <1>2. ~(code.size < 0)
    <2>1. /\ cap - trampSize \in Nat /\ cap - trampSize >= JumpFarSize
      BY <1>1, RoomForThis
    <2>2. Trampoline + trampSize \in Int /\ DstAddr \in Int
      <3>1. /\ Trampoline \in Int /\ layout.target \in Int
            /\ trampSize \in Int /\ pos \in Int
        BY ArgTypes DEF IInv, TypeOK
      <3>2. Current.len \in Int /\ Current.disp \in Int
        BY <1>1, CurrentType, InsnType
      <3> QED
        BY <3>1, <3>2 DEF DstAddr
    <2>3. code.size \in 2 .. JumpFarSize
      BY <2>1, <2>2, FillJumpReaches
    <2> QED
      BY <2>3 DEF JumpFarSize
  <1>3. ret' = ret
    BY <1>2 DEF Forward, Visit
  <1> QED
    BY <1>1, <1>3, GoesOnUInv DEF Decoded

LEMMA NextUInv == IInv /\ UInv /\ [Next]_vars => UInv'
  <1> SUFFICES ASSUME IInv, UInv, [Next]_vars PROVE UInv'
    OBVIOUS
  <1>1. CASE SizeTarget
    BY <1>1, OtherErrorUInv, GoesOnUInv DEF SizeTarget
  <1>2. CASE Alloc
    BY <1>2, GoesOnUInv DEF Alloc
  <1>3. CASE AllocFails
    BY <1>3, OtherErrorUInv DEF AllocFails
  <1>4. CASE LeaveAlone \/ KeepInBody
    BY <1>4, GoesOnUInv DEF LeaveAlone, KeepInBody, Visit, Decoded
  <1>5. CASE TooFar
    BY <1>5, UnreachableUInv DEF TooFar
  <1>6. CASE Finish
    BY <1>6, GoesOnUInv DEF Finish
  <1>7. CASE UNCHANGED vars
    BY <1>7 DEF vars, UInv, StopsAtError, UnknownOnlyIfUnreachable, Current, Here,
                DstAddr, AddrDiff, ForwardDiff, DstInBody, Trampoline
  <1> QED
    BY <1>1, <1>2, <1>3, <1>4, <1>5, <1>6, <1>7, FillRedirectUInv, OverwriteUInv,
       ForwardUInv DEF Next

----------------------------------------------------------------------------
(***************************************************************************)
(* What the rewritten operands say.  A branch is rewritten either to go to  *)
(* its destination itself, and then no slot serves it, or to go to the slot *)
(* that names it.                                                           *)
(***************************************************************************)

\* The operand of a branch no slot serves is the distance to its destination
DirectExact ==
    \A i \in Branches :
        copy[i].patched /\ (\A k \in DOMAIN slots : slots[k].branch # i)
            => copy[i].disp = DstOf(i) - (Trampoline + copy[i].at)

\* The operand of a branch some slot serves is the distance to that slot
ForwardExact ==
    \A k \in DOMAIN slots :
        copy[slots[k].branch].disp = slots[k].at - copy[slots[k].branch].at

OInv == DirectExact /\ ForwardExact

\* What fits in an operand is read back as it was written.
LEMMA OperandFits ==
    ASSUME NEW width \in {8, 16, 32}, NEW v \in Int, MinAddrWidth(v) <= width
    PROVE  SignExtended(HalfOf(width), v) = v
  <1> USE HalfAssumption
  <1>1. CASE width = 8
    <2>1. Is8bitSize(v)
      BY <1>1 DEF MinAddrWidth
    <2>2. -Half8 <= v /\ v <= Half8 - 1 /\ Half8 \in Nat \ {0}
      BY <2>1 DEF Is8bitSize, JumpNearSize
    <2> QED
      BY <1>1, <2>2, SignExtendedFits DEF HalfOf
  <1>2. CASE width = 16
    <2>1. Is8bitSize(v) \/ Is16bitSize(v)
      BY <1>2 DEF MinAddrWidth
    <2>2. -Half16 <= v /\ v <= Half16 - 1 /\ Half16 \in Nat \ {0}
      BY <2>1 DEF Is8bitSize, Is16bitSize, JumpNearSize
    <2> QED
      BY <1>2, <2>2, SignExtendedFits DEF HalfOf
  <1>3. CASE width = 32
    <2>1. Is8bitSize(v) \/ Is16bitSize(v) \/ Is32bitSize(v)
      BY <1>3 DEF MinAddrWidth
    <2>2. -Half32 <= v /\ v <= Half32 - 1 /\ Half32 \in Nat \ {0}
      BY <2>1 DEF Is8bitSize, Is16bitSize, Is32bitSize, JumpNearSize
    <2> QED
      BY <1>3, <2>2, SignExtendedFits DEF HalfOf
  <1> QED
    BY <1>1, <1>2, <1>3

\* The two parts together are the property.
LEMMA OInvExact == OInv => OperandExact
  <1> SUFFICES ASSUME OInv, NEW i \in Branches, copy[i].patched
               PROVE  LET mine == {k \in DOMAIN slots : slots[k].branch = i}
                      IN  copy[i].disp =
                            IF mine = {} THEN DstOf(i) - (Trampoline + copy[i].at)
                            ELSE slots[CHOOSE k \in mine : TRUE].at - copy[i].at
    BY DEF OperandExact
  <1> DEFINE mine == {k \in DOMAIN slots : slots[k].branch = i}
  <1>1. CASE mine = {}
    BY <1>1 DEF OInv, DirectExact
  <1>2. CASE mine # {}
    <2> DEFINE k == CHOOSE k \in mine : TRUE
    <2>1. k \in mine
      BY <1>2
    <2> HIDE DEF k
    <2>2. k \in DOMAIN slots /\ slots[k].branch = i
      BY <2>1
    <2>3. copy[i].disp = slots[k].at - copy[i].at
      BY <2>2 DEF OInv, ForwardExact
    <2> QED
      BY <1>2, <2>3 DEF k
  <1> QED
    BY <1>1, <1>2

\* Whatever leaves the copy and the slots alone leaves the operands alone.
LEMMA SameCodeOInv ==
    ASSUME OInv, UNCHANGED <<fn, layout, copy, slots>>
    PROVE  OInv'
  BY DEF OInv, DirectExact, ForwardExact, Branches, DstOf, Trampoline

\* The loop appends to the copy and changes nothing in it.
LEMMA VisitAppends ==
    ASSUME IInv, Decoded, NEW patched \in BOOLEAN, NEW disp \in Int,
           Visit(patched, disp)
    PROVE  /\ DOMAIN copy' = DOMAIN copy \cup {Here}
           /\ Here \notin DOMAIN copy
           /\ \A i \in DOMAIN copy : copy'[i] = copy[i]
           /\ copy'[Here] = [at |-> pos, insn |-> Current, patched |-> patched,
                             disp |-> disp]
           /\ UNCHANGED <<fn, layout>>
           /\ Trampoline' = Trampoline
  <1>1. copy \in Seq(Visited)
    BY DEF IInv, TypeOK
  <1> DEFINE e == [at |-> pos, insn |-> Current, patched |-> patched, disp |-> disp]
  <1>2. copy' = Append(copy, e) /\ UNCHANGED <<fn, layout>>
    BY DEF Visit, args
  <1> HIDE DEF e
  <1>3. /\ DOMAIN copy' = DOMAIN copy \cup {Here}
        /\ Here \notin DOMAIN copy
        /\ \A i \in DOMAIN copy : copy'[i] = copy[i]
        /\ copy'[Here] = e
    BY <1>1, <1>2 DEF Here
  <1> QED
    BY <1>2, <1>3 DEF e, Trampoline

\* An instruction that is left alone, or rewritten to go to its destination.
LEMMA VisitOInv ==
    ASSUME IInv, OInv, Decoded, NEW patched \in BOOLEAN, NEW disp \in Int,
           Visit(patched, disp), UNCHANGED slots,
           patched => disp = AddrDiff
    PROVE  OInv'
  <1>1. /\ DOMAIN copy' = DOMAIN copy \cup {Here}
        /\ Here \notin DOMAIN copy
        /\ \A i \in DOMAIN copy : copy'[i] = copy[i]
        /\ copy'[Here] = [at |-> pos, insn |-> Current, patched |-> patched,
                          disp |-> disp]
        /\ UNCHANGED <<fn, layout>>
        /\ Trampoline' = Trampoline
    BY VisitAppends
  <1>2. \A k \in DOMAIN slots : slots[k].branch \in DOMAIN copy
    BY DEF IInv, SlotsServe
  <1>3. ASSUME NEW i \in Branches', copy'[i].patched,
               \A k \in DOMAIN slots : slots[k].branch # i
        PROVE  copy'[i].disp = DstOf(i)' - (Trampoline + copy'[i].at)
    <2>1. CASE i \in DOMAIN copy
      <3>1. copy'[i] = copy[i] /\ DstOf(i)' = DstOf(i) /\ i \in Branches
        BY <1>1, <1>3, <2>1 DEF DstOf, Branches
      <3> QED
        BY <1>3, <3>1 DEF OInv, DirectExact
    <2>2. CASE i = Here
      <3>1. /\ copy'[i].at = pos /\ copy'[i].insn = Current
            /\ copy'[i].disp = disp /\ patched
        BY <1>1, <1>3, <2>2
      <3>2. DstOf(i)' = DstAddr
        BY <1>1, <3>1 DEF DstOf, DstAddr
      <3> QED
        BY <3>1, <3>2 DEF AddrDiff
    <2> QED
      BY <1>1, <1>3, <2>1, <2>2 DEF Branches
  <1>4. DirectExact'
    BY <1>1, <1>3 DEF DirectExact
  <1>5. ForwardExact'
    BY <1>1, <1>2 DEF OInv, ForwardExact
  <1> QED
    BY <1>4, <1>5 DEF OInv

LEMMA OverwriteOInv == IInv /\ OInv /\ Overwrite => OInv'
  <1> SUFFICES ASSUME IInv, OInv, Overwrite PROVE OInv'
    OBVIOUS
  <1>1. CASE Current.width \in {8, 16, 32}
    <2>1. AddrDiff \in Int
      <3>1. pos \in Int /\ Current.len \in Int /\ Current.disp \in Int
        BY CurrentType DEF IInv, TypeOK, Overwrite, Escapes, Insn
      <3>2. Trampoline \in Int /\ layout.target \in Int
        BY ArgTypes DEF IInv
      <3> QED
        BY <3>1, <3>2 DEF AddrDiff, DstAddr
    <2>2. SignExtended(HalfOf(Current.width), AddrDiff) = AddrDiff
      BY <1>1, <2>1, OperandFits DEF Overwrite
    <2>3. Visit(TRUE, AddrDiff)
      BY <1>1, <2>2 DEF Overwrite, OverwriteOperand
    <2> QED
      BY <2>1, <2>3, VisitOInv DEF Overwrite, Escapes
  <1>2. CASE Current.width \notin {8, 16, 32}
    BY <1>2, SameCodeOInv DEF Overwrite, OverwriteOperand, Return, args
  <1> QED
    BY <1>1, <1>2

LEMMA LeaveOInv == IInv /\ OInv /\ (LeaveAlone \/ KeepInBody) => OInv'
  <1>1. ASSUME IInv, Decoded PROVE Current.disp \in Int
    BY <1>1, CurrentType DEF Insn
  <1> QED
    BY <1>1, VisitOInv DEF LeaveAlone, KeepInBody

\* The branch goes to the slot appended for it, and to no other.
LEMMA ForwardOInv == IInv /\ OInv /\ Forward => OInv'
  <1> SUFFICES ASSUME IInv, OInv, Forward PROVE OInv'
    OBVIOUS
  <1> DEFINE code == FillJumpCode(cap - trampSize, Trampoline + trampSize, DstAddr)
             s == [at |-> trampSize, code |-> code, dst |-> DstAddr, branch |-> Here]
  <1>1. CASE code.size < 0
    BY <1>1, SameCodeOInv DEF Forward, Return, args
  <1>2. CASE ~(code.size < 0)
    <2>1. Decoded /\ Current \in Insn /\ trampSize \in Nat /\ pos \in Nat
      BY CurrentType DEF Forward, Escapes, IInv, TypeOK
    <2>2. ForwardDiff \in Int /\ ForwardDiff = trampSize - pos
      BY <2>1 DEF ForwardDiff
    <2>3. Current.width \in {8, 16, 32}
      <3>1. /\ MinAddrWidth(AddrDiff) > Current.width
            /\ MinAddrWidth(AddrDiff) \in {8, 16, 32, 64}
        BY DEF Forward, MinAddrWidth
      <3> QED
        BY <2>1, <3>1 DEF Insn
    <2>4. SignExtended(HalfOf(Current.width), ForwardDiff) = ForwardDiff
      BY <2>2, <2>3, OperandFits DEF Forward
    <2>5. Visit(TRUE, ForwardDiff) /\ slots' = Append(slots, s)
      BY <1>2, <2>4 DEF Forward
    <2>6. /\ DOMAIN copy' = DOMAIN copy \cup {Here}
          /\ Here \notin DOMAIN copy
          /\ \A i \in DOMAIN copy : copy'[i] = copy[i]
          /\ copy'[Here].disp = ForwardDiff /\ copy'[Here].at = pos
          /\ UNCHANGED <<fn, layout>>
          /\ Trampoline' = Trampoline
      <3>1. copy'[Here] = [at |-> pos, insn |-> Current, patched |-> TRUE,
                           disp |-> ForwardDiff]
        BY <2>1, <2>2, <2>5, VisitAppends
      <3>2. /\ DOMAIN copy' = DOMAIN copy \cup {Here}
            /\ Here \notin DOMAIN copy
            /\ \A i \in DOMAIN copy : copy'[i] = copy[i]
        BY <2>1, <2>2, <2>5, VisitAppends
      <3>3. UNCHANGED <<fn, layout>> /\ Trampoline' = Trampoline
        BY <2>5 DEF Visit, args, Trampoline
      <3> QED
        BY <3>1, <3>2, <3>3
    <2>7. s.branch = Here /\ s.at = trampSize
      OBVIOUS
    <2>8. PICK last \in Nat :
              /\ DOMAIN slots' = DOMAIN slots \cup {last}
              /\ slots'[last] = s
              /\ \A k \in DOMAIN slots : slots'[k] = slots[k]
      <3>1. slots \in Seq(Slot)
        BY DEF IInv, TypeOK
      <3> HIDE DEF s
      <3>2. /\ Len(slots) + 1 \in Nat
            /\ DOMAIN slots' = DOMAIN slots \cup {Len(slots) + 1}
            /\ slots'[Len(slots) + 1] = s
            /\ \A k \in DOMAIN slots : slots'[k] = slots[k]
        BY <2>5, <3>1
      <3> QED
        BY <3>2
    <2> HIDE DEF s
    <2>9. \A k \in DOMAIN slots : slots[k].branch \in DOMAIN copy
      BY DEF IInv, SlotsServe
    <2>10. DirectExact'
      <3> SUFFICES ASSUME NEW i \in Branches', copy'[i].patched,
                          \A k \in DOMAIN slots' : slots'[k].branch # i
                   PROVE  copy'[i].disp = DstOf(i)' - (Trampoline' + copy'[i].at)
        BY DEF DirectExact
      <3>1. i # Here
        BY <2>7, <2>8
      <3>2. i \in DOMAIN copy
        BY <2>6, <3>1 DEF Branches
      <3>3. copy'[i] = copy[i] /\ DstOf(i)' = DstOf(i) /\ i \in Branches
        BY <2>6, <3>2 DEF DstOf, Branches
      <3>4. \A k \in DOMAIN slots : slots[k].branch # i
        BY <2>8
      <3> QED
        BY <2>6, <3>3, <3>4 DEF OInv, DirectExact
    <2>11. ForwardExact'
      <3> SUFFICES ASSUME NEW k \in DOMAIN slots'
                   PROVE  copy'[slots'[k].branch].disp
                             = slots'[k].at - copy'[slots'[k].branch].at
        BY DEF ForwardExact
      <3>1. CASE k \in DOMAIN slots
        BY <2>6, <2>8, <2>9, <3>1 DEF OInv, ForwardExact
      <3>2. CASE k = last
        BY <2>2, <2>6, <2>7, <2>8, <3>2
      <3> QED
        BY <2>8, <3>1, <3>2
    <2> QED
      BY <2>10, <2>11 DEF OInv
  <1> QED
    BY <1>1, <1>2

LEMMA InitOInv == Init => OInv
  BY DEF Init, OInv, DirectExact, ForwardExact, Branches

LEMMA NextOInv == IInv /\ OInv /\ [Next]_vars => OInv'
  <1> SUFFICES ASSUME IInv, OInv, [Next]_vars PROVE OInv'
    OBVIOUS
  <1>1. CASE SizeTarget \/ Alloc \/ AllocFails \/ FillRedirect \/ TooFar \/ Finish
    <2>1. UNCHANGED <<fn, layout, copy, slots>>
      BY <1>1 DEF SizeTarget, Alloc, AllocFails, FillRedirect, TooFar, Finish, Return, args
    <2> QED
      BY <2>1, SameCodeOInv
  <1>2. CASE UNCHANGED vars
    BY <1>2, SameCodeOInv DEF vars
  <1> QED
    BY <1>1, <1>2, LeaveOInv, OverwriteOInv, ForwardOInv DEF Next

----------------------------------------------------------------------------
(* The theorems *)

\* Every state of every preparation satisfies the inductive invariant.
THEOREM TrampolineInvariant == Spec => []IInv
  BY InitIInv, NextIInv, PTL DEF Spec

\* The variables of the preparation keep their types.
THEOREM TrampolineTypes == Spec => []TypeOK
  <1>1. IInv => TypeOK
    BY DEF IInv
  <1> QED
    BY <1>1, TrampolineInvariant, PTL

\* The room reserved by _x86_64_calc_trampoline_size is enough for every
\* function, whatever its branches and wherever its handle is allocated.
THEOREM TrampolineRoom == Spec => []RoomForTheRest
  <1>1. IInv => RoomForTheRest
    BY DEF IInv
  <1> QED
    BY <1>1, TrampolineInvariant, PTL

\* Forward slots stay in the allocation, apart from the copied body and from
\* each other, and reach their destinations off the Edges.
THEOREM TrampolineSlots == Spec => []SlotsReach
  <1>1. IInv => SlotsReach
    BY DEF IInv
  <1> QED
    BY <1>1, TrampolineInvariant, PTL

\* A finished trampoline comes with a redirect code that fits in the target and
\* leads to the detour off the Edges.
THEOREM TrampolineRedirect == Spec => []RedirectSound
  <1>1. IInv => RedirectSound
    BY DEF IInv
  <1> QED
    BY <1>1, TrampolineInvariant, PTL

\* UNKNOWN is returned only at a branch that leaves the body and that no
\* operand of its width can take to its destination or to a forward slot: for
\* every function and layout, the room for the slots is never what runs out.
THEOREM TrampolineUnknown == Spec => []UnknownOnlyIfUnreachable
  <1>1. Init => IInv /\ UInv
    BY InitIInv, InitUInv
  <1>2. IInv /\ UInv /\ [Next]_vars => (IInv /\ UInv)'
    BY NextIInv, NextUInv
  <1>3. IInv /\ UInv => UnknownOnlyIfUnreachable
    BY DEF UInv
  <1> QED
    BY <1>1, <1>2, <1>3, PTL DEF Spec

\* Every operand the loop rewrites is, read back by the processor, the distance
\* to the branch's own destination or to the slot made for it.
THEOREM TrampolineOperands == Spec => []OperandExact
  <1>1. Init => IInv /\ OInv
    BY InitIInv, InitOInv
  <1>2. IInv /\ OInv /\ [Next]_vars => (IInv /\ OInv)'
    BY NextIInv, NextOInv
  <1>3. IInv /\ OInv => OperandExact
    BY OInvExact
  <1> QED
    BY <1>1, <1>2, <1>3, PTL DEF Spec
=============================================================================
