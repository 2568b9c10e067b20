--------------------------- MODULE X86Trampoline ---------------------------
(***************************************************************************)
(* What uhook_x86_64_inject prepares before it touches the target: the      *)
(* redirect code, and the trampoline, a copy of the target function whose   *)
(* relative branches are patched so that the copy can run elsewhere.        *)
(*                                                                         *)
(* A function is the sequence of instructions the decoder finds in it and   *)
(* the size its ELF symbol gives; bytes after the last decodable            *)
(* instruction stay as they are.  What the properties tell apart of an      *)
(* instruction is its length and, for a relative branch, the width of its   *)
(* operand and its displacement.                                            *)
(***************************************************************************)
EXTENDS X86Jump, OsPages, Sequences, FiniteSets

CONSTANTS
    Funcs,       \* the functions that may be hooked
    Layouts,     \* where target, detour and allocated handle may lie
    HandleSize   \* sizeof(x86_64_trampoline_t), its flexible array excluded

NoSize == -1  \* elf_get_function_size found no symbol

\* "rel": jcc, jmp or call with a relative operand; "indirect": jmp or call
\* through a register, memory or far pointer; "plain": everything else.
\* 64 is an operand size no relative branch is rewritten with.
Insn == [kind : {"rel", "indirect", "plain"}, len : 1 .. 15,
         width : {8, 16, 32, 64}, disp : Int]

ASSUME TrampolineAssumption ==
    /\ \A f \in Funcs : f.insns \in Seq(Insn) /\ f.size \in Nat \cup {NoSize}
    /\ Layouts \subseteq [target : Int, handle : Int, detour : Int]
    /\ HandleSize \in Nat

VARIABLES
    fn, layout,  \* the arguments: the target function, and the addresses
    pc,          \* next step of uhook_x86_64_inject
    ret,         \* its return value, "none" while it runs
    redirect,    \* redirect_opcode and redirect_size
    cap,         \* trampoline_cap
    trampSize,   \* trampoline_size: the copy, then the forward slots
    pos,         \* pos_insn
    copy,        \* the instructions of the trampoline visited so far
    slots        \* the forward instructions behind the copy

args == <<fn, layout>>
vars == <<fn, layout, pc, ret, redirect, cap, trampSize, pos, copy, slots>>

Trampoline == layout.handle + HandleSize

IsJump(insn) == insn.kind \in {"rel", "indirect"}

\* The jumps among the instructions of f from the i-th on
JumpsFrom(f, i) == {j \in i .. Len(f.insns) : IsJump(f.insns[j])}

\* Mutants: a slot is counted as a near jump; slots are not counted
CalcNearSlots(f) == f.size + JumpNearSize * Cardinality(JumpsFrom(f, 1))
CalcNoSlots(f)   == f.size

\* _x86_64_calc_trampoline_size
CalcTrampolineSize(f) == f.size + JumpFarSize * Cardinality(JumpsFrom(f, 1))

Init ==
    /\ fn \in Funcs
    /\ layout \in Layouts
    /\ pc = "start"
    /\ ret = "none"
    /\ redirect = Failed
    /\ cap = 0 /\ trampSize = 0 /\ pos = 0
    /\ copy = <<>> /\ slots = <<>>

\* Every error path frees the handle and returns before the target is touched
Return(code) ==
    /\ pc' = "failed"
    /\ ret' = code
    /\ UNCHANGED <<args, cap, trampSize, pos, copy, slots>>

SizeTarget ==
    /\ pc = "start"
    /\ IF fn.size = NoSize
       THEN Return("NOFUNCSIZE") /\ UNCHANGED redirect
       ELSE /\ pc' = "alloc"
            /\ UNCHANGED <<args, ret, redirect, cap, trampSize, pos, copy, slots>>

\* Mutant: the handle in front of the trampoline is forgotten
AllocTrampolineOnly ==
    /\ pc = "alloc"
    /\ pc' = "redirect"
    /\ cap' = AlignSize(CalcTrampolineSize(fn)) - HandleSize
    /\ UNCHANGED <<args, ret, redirect, trampSize, pos, copy, slots>>

\* _alloc_execute_memory of whole pages
Alloc ==
    /\ pc = "alloc"
    /\ pc' = "redirect"
    /\ cap' = AlignSize(HandleSize + CalcTrampolineSize(fn)) - HandleSize
    /\ UNCHANGED <<args, ret, redirect, trampSize, pos, copy, slots>>

AllocFails ==
    /\ pc = "alloc"
    /\ Return("NOMEM")
    /\ UNCHANGED redirect

\* Mutant: the size of the target is not checked
FillRedirectAnyway ==
    /\ pc = "redirect"
    /\ redirect' = FillJumpCode(JumpFarSize, layout.target, layout.detour)
    /\ pc' = "patch"
    /\ trampSize' = fn.size
    /\ UNCHANGED <<args, ret, cap, pos, copy, slots>>

\* The redirect code, then the copies into backup_opcode and trampoline
FillRedirect ==
    /\ pc = "redirect"
    /\ redirect' = FillJumpCode(JumpFarSize, layout.target, layout.detour)
    /\ IF redirect'.size < 0 THEN Return("UNKNOWN")
       ELSE IF redirect'.size > fn.size THEN Return("SMALLFUNC")
       ELSE /\ pc' = "patch"
            /\ trampSize' = fn.size
            /\ UNCHANGED <<args, ret, cap, pos, copy, slots>>

(***************************************************************************)
(* _x86_64_generate_trampoline_opcode: one step per decoded instruction.    *)
(***************************************************************************)
Here == Len(copy) + 1
Current == fn.insns[Here]

Decoded == pc = "patch" /\ Here <= Len(fn.insns)

\* External: ZydisCalcAbsoluteAddress at the instruction's original place
DstAddr == layout.target + pos + Current.len + Current.disp

DstInBody ==
    /\ layout.target <= DstAddr
    /\ DstAddr <= layout.target + fn.size

AddrDiff    == DstAddr - (Trampoline + pos)
ForwardDiff == trampSize - pos

\* The instruction stands in the copy with operand disp; patched is what
\* _x86_64_patch_instruction returns.  The loop moves on.
Visit(patched, disp) ==
    /\ copy' = Append(copy, [at |-> pos, insn |-> Current,
                             patched |-> patched, disp |-> disp])
    /\ pos' = pos + Current.len
    /\ UNCHANGED <<args, pc, ret, redirect, cap>>

HalfOf(width) == CASE width = 8 -> Half8 [] width = 16 -> Half16 [] OTHER -> Half32

\* _86_64_overwrite_jmp_operand
OverwriteOperand(diff) ==
    IF Current.width \in {8, 16, 32}
    THEN Visit(TRUE, SignExtended(HalfOf(Current.width), diff))
    ELSE Return("UNKNOWN") /\ UNCHANGED redirect

LeaveAlone ==
    /\ Decoded
    /\ Current.kind # "rel"
    /\ Visit(FALSE, Current.disp)
    /\ UNCHANGED <<trampSize, slots>>

KeepInBody ==
    /\ Decoded
    /\ Current.kind = "rel" /\ DstInBody
    /\ Visit(FALSE, Current.disp)
    /\ UNCHANGED <<trampSize, slots>>

Escapes == Decoded /\ Current.kind = "rel" /\ ~DstInBody

Overwrite ==
    /\ Escapes
    /\ MinAddrWidth(AddrDiff) <= Current.width
    /\ OverwriteOperand(AddrDiff)
    /\ UNCHANGED <<trampSize, slots>>

\* Mutant of Forward: the jump of the slot is computed from the trampoline
ForwardFromStart ==
    /\ Escapes
    /\ MinAddrWidth(AddrDiff) > Current.width
    /\ MinAddrWidth(ForwardDiff) <= Current.width
    /\ LET code == FillJumpCode(cap - trampSize, Trampoline, DstAddr)
       IN  IF code.size < 0
           THEN Return("UNKNOWN") /\ UNCHANGED redirect
           ELSE /\ slots' = Append(slots,
                        [at |-> trampSize, code |-> code, dst |-> DstAddr,
                         branch |-> Here])
                /\ trampSize' = trampSize + code.size
                /\ Visit(TRUE, SignExtended(HalfOf(Current.width), ForwardDiff))

\* The operand is too narrow for the distance: branch to a slot behind the
\* copy, which jumps the rest of the way.  No operand of 64 bits comes here.
Forward ==
    /\ Escapes
    /\ MinAddrWidth(AddrDiff) > Current.width
    /\ MinAddrWidth(ForwardDiff) <= Current.width
    /\ LET code == FillJumpCode(cap - trampSize, Trampoline + trampSize, DstAddr)
       IN  IF code.size < 0
           THEN Return("UNKNOWN") /\ UNCHANGED redirect
           ELSE /\ slots' = Append(slots,
                        [at |-> trampSize, code |-> code, dst |-> DstAddr,
                         branch |-> Here])
                /\ trampSize' = trampSize + code.size
                /\ Visit(TRUE, SignExtended(HalfOf(Current.width), ForwardDiff))

TooFar ==
    /\ Escapes
    /\ MinAddrWidth(AddrDiff) > Current.width
    /\ MinAddrWidth(ForwardDiff) > Current.width
    /\ Return("UNKNOWN")
    /\ UNCHANGED redirect

\* The decoder stops: the code can be installed
Finish ==
    /\ pc = "patch" /\ Here > Len(fn.insns)
    /\ pc' = "ready"
    /\ UNCHANGED <<args, ret, redirect, cap, trampSize, pos, copy, slots>>

Next ==
    \/ SizeTarget \/ Alloc \/ AllocFails \/ FillRedirect
    \/ LeaveAlone \/ KeepInBody \/ Overwrite \/ Forward \/ TooFar
    \/ Finish

Spec == Init /\ [][Next]_vars

----------------------------------------------------------------------------
(* Properties *)

Visited == [at : Nat, insn : Insn, patched : BOOLEAN, disp : Int]
Slot == [at : Nat, code : [size : Nat, kind : {"rel", "abs"}, value : Int],
         dst : Int, branch : Nat]

TypeOK ==
    /\ pc \in {"start", "alloc", "redirect", "patch", "ready", "failed"}
    /\ ret \in {"none", "NOFUNCSIZE", "NOMEM", "UNKNOWN", "SMALLFUNC"}
    /\ redirect \in [size : {-1, JumpShortSize, JumpNearSize, JumpFarSize},
                     kind : {"none", "rel", "abs"}, value : Int]
    /\ cap \in Nat /\ trampSize \in Nat /\ pos \in Nat
    /\ copy \in Seq(Visited)
    /\ slots \in Seq(Slot)

Branches == {i \in DOMAIN copy : copy[i].insn.kind = "rel"}

\* Where the branch goes in the target function
DstOf(i) == layout.target + copy[i].at + copy[i].insn.len + copy[i].insn.disp

\* Where the branch of the copy gets to, through a forward slot if it meets one
RunsTo(i) ==
    LET next == copy[i].at + copy[i].insn.len + copy[i].disp
        met  == {k \in DOMAIN slots : slots[k].at = next}
    IN  IF met = {} THEN Trampoline + next
        ELSE Lands(slots[CHOOSE k \in met : TRUE].code, Trampoline + next)

\* _x86_64_calc_trampoline_size reserves enough: whatever has been patched so
\* far, there is room left for a far jump for every jump not visited yet, so
\* no forward slot is ever written beyond the allocation.
RoomForTheRest ==
    pc = "patch" =>
        trampSize + JumpFarSize * Cardinality(JumpsFrom(fn, Here)) <= cap

\* The only function that is refused while it is being patched is one with a
\* branch that leaves the body and that cannot be rewritten in its width: the
\* space reserved for the forward slots is never what runs out.
UnknownOnlyIfUnreachable ==
    ret = "UNKNOWN" =>
        /\ Current.kind = "rel" /\ ~DstInBody
        /\ \/ Current.width = 64
           \/ /\ MinAddrWidth(AddrDiff) > Current.width
              /\ MinAddrWidth(ForwardDiff) > Current.width

\* No rewritten operand is truncated: read back by the processor it is the
\* distance fix_jcc computed, from the branch to its destination or to the
\* forward slot made for it.
OperandExact ==
    \A i \in Branches : copy[i].patched =>
        LET mine == {k \in DOMAIN slots : slots[k].branch = i}
        IN  copy[i].disp =
                IF mine = {} THEN DstOf(i) - (Trampoline + copy[i].at)
                ELSE slots[CHOOSE k \in mine : TRUE].at - copy[i].at

\* Forward slots lie behind the copied body, one after the other, inside the
\* allocation, and each reaches the destination of the branch it serves unless
\* its distance is one of the Edges of the jump encoder.
SlotsReach ==
    /\ pc \in {"patch", "ready"} => fn.size <= trampSize /\ trampSize <= cap
    /\ \A k \in DOMAIN slots :
        LET s == slots[k]
        IN  /\ s.at >= fn.size
            /\ s.at + s.code.size <= trampSize
            /\ \A l \in 1 .. k - 1 : slots[l].at + slots[l].code.size <= s.at
            /\ s.dst = DstOf(s.branch)
            /\ s.dst - (Trampoline + s.at) \notin Edges
                  => Lands(s.code, Trampoline + s.at) = s.dst

\* A trampoline is finished only if its redirect code fits in the target and,
\* off the Edges, leads to the detour: installing it overwrites no neighbour.
RedirectSound ==
    pc \in {"patch", "ready"} =>
        /\ redirect.size \in 1 .. fn.size
        /\ layout.detour - layout.target \notin Edges
              => Lands(redirect, layout.target) = layout.detour

\* uhook.h:29 says of token.fcall "Original function": every branch that was
\* patched gets, from the copy, where it goes in the original.
CallableAsOriginal ==
    pc = "ready" =>
        \A i \in Branches : copy[i].patched => RunsTo(i) = DstOf(i)

=============================================================================
