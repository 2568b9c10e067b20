------------------------------ MODULE ArmHook ------------------------------
(***************************************************************************)
(* The inline hook on 32-bit ARM, src/src/arch/arm.c: one hook put on one   *)
(* function and taken off again.                                            *)
(*                                                                         *)
(* Memory is made of 4-byte words and addresses count words.  The three     *)
(* arrays of arm_trampoline_t lie one behind the other, and the code reads  *)
(* one through the name of another, so they are one function here:          *)
(* redirect_opcode is at 0 and 1, backup_opcode at 2 and 3, wrap_opcode at  *)
(* 4 .. 11.                                                                 *)
(***************************************************************************)
EXTENDS Integers, Sequences

CONSTANTS
    Functions,  \* the first words of the functions that may be hooked
    Layouts,    \* where target, detour and the allocated handle may lie
    Half24      \* 2^23: a branch has a signed offset of 24 bits

\* A word of a function, see Word below; a branch has an offset of 24 bits
Code == [op : {"branch", "bxlr", "plain"}, arg : Nat, low : {"none", "byte", "half"}]

\* Three words is the most the code saves or restores
ASSUME ArmAssumption ==
    /\ Half24 \in Nat /\ Half24 > 4
    /\ \A f \in Functions :
        /\ f \in Seq(Code) /\ Len(f) >= 3
        /\ f[1].op = "branch" => f[1].arg < 2 * Half24
    /\ Layouts \subseteq [target : Int, detour : Int, handle : Int]

VARIABLES
    fn, layout,
    pc,      \* "start", "modify", "hooked", "off" or "failed"
    handle,  \* the words of the arm_trampoline_t
    code     \* the first words of the target

vars == <<fn, layout, pc, handle, code>>

\* A word: a branch with the field of its offset (b, bl, blx, beq, bne), bx lr,
\* ldr pc, [pc, #-4], the address in the word behind that, or another one.
\* low: how much of its low end is zero, nothing, one byte or two.
Word(op, arg, low) == [op |-> op, arg |-> arg, low |-> low]
Zero == Word("zero", 0, "half")
Branch(field) == Word("branch", field, "none")
LdrPc == Word("ldrpc", 0, "none")
Address(to) == Word("address", to, "none")

\* The low bytes of a word in a word that was zero
Part(w, bytes) ==
    IF w.low = "half" \/ (bytes = 1 /\ w.low = "byte") THEN Zero
    ELSE Word("part", 0, w.low)

\* Where in wrap_opcode the EXT space starts; mutant: so late that it overflows
ExtPosLast == 7
ExtPos == 4

Wrap == 4                  \* where wrap_opcode starts in the handle
At(i) == layout.handle + i \* the address of a word of the handle

\* count words of the handle from the i-th on are copied over dst
CopyWords(dst, i, count) ==
    [k \in DOMAIN dst |-> IF k <= count THEN handle[i + k - 1] ELSE dst[k]]

----------------------------------------------------------------------------
(* _arm_fill_jump_code *)

Near(diff) == -Half24 <= diff /\ diff < Half24

\* The offset of a branch counts from two words behind it.  Mutant: from it.
FieldFromBranch(diff) == diff % (2 * Half24)
Field(diff) == (diff - 2) % (2 * Half24)

FarJump(dst) == <<LdrPc, Address(dst)>>
FillJumpCode(src, dst) ==
    IF Near(dst - src) THEN <<Branch(Field(dst - src))>> ELSE FarJump(dst)

\* _arm_get_opcode_size reads redirect_opcode[7], which is wrap_opcode[3]
OpcodeSize(hd) == IF hd[7] = Zero THEN 1 ELSE 2

\* redirect_opcode[2] is backup_opcode[0]
UndoWords(hd) == IF hd[2] # Zero THEN 3 ELSE 1

----------------------------------------------------------------------------
(* _arm_init_trampoline *)

\* The words of seq are stored from the i-th on, be it beyond the handle
Put(hd, i, seq) ==
    [k \in DOMAIN hd \cup i .. i + Len(seq) - 1 |->
        IF k \in i .. i + Len(seq) - 1 THEN seq[k - i + 1] ELSE hd[k]]

\* The memcpy into backup_opcode takes the number of words as bytes
Redirected ==
    LET jump == FillJumpCode(layout.target, layout.detour)
        zeroed == [k \in 0 .. 11 |-> Zero]
    IN  [Put(zeroed, 0, jump) EXCEPT ![2] = Part(fn[1], Len(jump))]

\* _arm_try_convert_branch_insn: the offset is taken as it is, without sign.
\* Mutant: the pipeline offset of two words is forgotten.
BranchTargetAt(w)  == layout.target + w.arg
BranchTarget(w) == layout.target + w.arg + 2

\* _arm_generate_trampoline_opcode: OpcodeSize is 1, one word is wrapped.
\* Mutant: goes back to the word the jump overwrote.
WrappedToStart(hd) ==
    LET first == Put(hd, Wrap, <<fn[1]>>)
    IN  Put(first, Wrap + 1, FillJumpCode(At(Wrap + 1), layout.target))
Wrapped(hd) ==
    LET w == fn[1]
        first == IF w.op = "branch"
                 THEN Put(Put(hd, Wrap, <<Branch(Field(ExtPos))>>),
                          Wrap + ExtPos, FarJump(BranchTarget(w)))
                 ELSE Put(hd, Wrap, <<w>>)
    IN  IF w.op = "bxlr" THEN hd
        ELSE Put(first, Wrap + 1, FillJumpCode(At(Wrap + 1), layout.target + 1))

----------------------------------------------------------------------------

Init ==
    /\ fn \in Functions
    /\ layout \in Layouts
    /\ pc = "start"
    /\ handle = [k \in 0 .. 11 |-> Zero]
    /\ code = fn

\* The result of _arm_init_trampoline is not looked at
Prepare ==
    /\ pc = "start"
    /\ handle' = Wrapped(Redirected)
    /\ pc' = "modify"
    /\ UNCHANGED <<fn, layout, code>>

AllocFails ==
    /\ pc = "start"
    /\ pc' = "failed"
    /\ UNCHANGED <<fn, layout, handle, code>>

DoInject ==
    /\ pc = "modify"
    /\ code' = CopyWords(code, 0, OpcodeSize(handle))
    /\ pc' = "hooked"
    /\ UNCHANGED <<fn, layout, handle>>

\* _system_modify_opcode returns -1
ModifyFails ==
    /\ pc = "modify"
    /\ pc' = "failed"
    /\ UNCHANGED <<fn, layout, handle, code>>

\* The result of _system_modify_opcode is compared with > 0: a failure to make
\* the code writable is not seen
UndoInject ==
    /\ pc = "hooked"
    /\ \/ code' = CopyWords(code, 2, UndoWords(handle))
       \/ UNCHANGED code
    /\ pc' = "off"
    /\ UNCHANGED <<fn, layout, handle>>

Next == Prepare \/ AllocFails \/ DoInject \/ ModifyFails \/ UndoInject

Spec == Init /\ [][Next]_vars

----------------------------------------------------------------------------
(* Properties *)

TypeOK ==
    /\ pc \in {"start", "modify", "hooked", "off", "failed"}
    /\ DOMAIN handle = 0 .. 11
    /\ Len(code) = Len(fn)

\* External: where the processor goes from a jump at address a, of which w is
\* the first word and next the one behind it
Lands(a, w, next) ==
    IF w.op = "branch" THEN a + 2 + (((w.arg + Half24) % (2 * Half24)) - Half24)
    ELSE IF w.op = "ldrpc" /\ next.op = "address" THEN next.arg
    ELSE -1

\* The distances whose offset overflows once two words have been subtracted
Edge(diff) == diff \in {-Half24, -Half24 + 1}

\* A near hook leads to the detour, off the edges of the branch range.
NearHookReaches ==
    LET diff == layout.detour - layout.target
    IN  pc = "hooked" /\ Near(diff) /\ ~Edge(diff)
            => Lands(layout.target, code[1], code[2]) = layout.detour

\* The wrapped code goes on in the target behind the word that was overwritten,
\* also when its first word is a branch that is not taken.
WrapGoesOn ==
    LET diff == layout.target + 1 - At(Wrap + 1)
    IN  pc = "hooked" /\ fn[1].op # "bxlr" /\ ~Edge(diff)
            => /\ Lands(At(Wrap + 1), handle[Wrap + 1], handle[Wrap + 2]) = layout.target + 1
               /\ fn[2] = code[2]

\* A forward branch in the first word gets, through the EXT space, where it goes
\* in the original; the jump back in front of the EXT space has left it alone.
ForwardBranchKept ==
    pc = "hooked" /\ fn[1].op = "branch" /\ fn[1].arg < Half24 =>
        LET ext == Lands(At(Wrap), handle[Wrap], handle[Wrap + 1]) - layout.handle
        IN  /\ ext \in 0 .. 10
            /\ Lands(At(ext), handle[ext], handle[ext + 1])
                  = Lands(layout.target, fn[1], fn[2])
=============================================================================
