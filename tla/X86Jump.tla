------------------------------ MODULE X86Jump ------------------------------
(***************************************************************************)
(* The jump encoder of src/src/arch/x86_64.c: how the hook and the forward  *)
(* slots of a trampoline say "go to that address".                          *)
(*                                                                         *)
(* An encoded jump is a record: the bytes it takes and either a relative    *)
(* displacement, as the C conversions to uint8_t / uint32_t leave it and    *)
(* the processor sign-extends it, or an absolute address.  Half8, Half16    *)
(* and Half32 stand for 2^7, 2^15 and 2^31, so that TLC can work with       *)
(* address spaces of a few dozen bytes; opcode sizes are the real ones.     *)
(***************************************************************************)
EXTENDS Integers

CONSTANTS Half8, Half16, Half32

JumpShortSize == 2   \* eb rel8
JumpNearSize  == 5   \* e9 rel32
JumpFarSize   == 14  \* ff 25 00 00 00 00, then the 64-bit address

ASSUME HalfAssumption ==
    /\ Half8 \in Nat /\ Half16 \in Nat /\ Half32 \in Nat
    /\ JumpNearSize < Half8
    /\ Half8 < Half16
    /\ Half16 < Half32

\* Mutant of Is8bitSize: what fits without a sign is taken to fit
Is8bitUnsigned(diff) == -Half8 <= diff /\ diff <= 2 * Half8 - 1

Is8bitSize(diff)  == -Half8 <= diff /\ diff <= Half8 - 1
Is16bitSize(diff) == -Half16 <= diff /\ diff <= Half16 - 1
Is32bitSize(diff) == -Half32 <= diff /\ diff <= Half32 - 1

\* Stored in an operand of that width and sign-extended by the processor
SignExtended(half, value) == ((value + half) % (2 * half)) - half

Failed == [size |-> -1, kind |-> "none", value |-> 0]

JumpShort(room, diff) ==
    IF room < JumpShortSize THEN Failed
    ELSE [size |-> JumpShortSize, kind |-> "rel",
          value |-> SignExtended(Half8, diff - JumpShortSize)]

JumpNear(room, diff) ==
    IF room < JumpNearSize THEN Failed
    ELSE [size |-> JumpNearSize, kind |-> "rel",
          value |-> SignExtended(Half32, diff - JumpNearSize)]

JumpFar(room, dst) ==
    IF room < JumpFarSize THEN Failed
    ELSE [size |-> JumpFarSize, kind |-> "abs", value |-> dst]

FillJumpCode(room, src, dst) ==
    LET diff == dst - src
    IN  IF Is8bitSize(diff) THEN JumpShort(room, diff)
        ELSE IF Is32bitSize(diff) THEN JumpNear(room, diff)
        ELSE JumpFar(room, dst)

\* The narrowest operand that can hold diff
MinAddrWidth(diff) ==
    IF Is8bitSize(diff) THEN 8
    ELSE IF Is16bitSize(diff) THEN 16
    ELSE IF Is32bitSize(diff) THEN 32
    ELSE 64

\* External: where the processor goes when it runs the jump found at src
Lands(code, src) ==
    IF code.kind = "rel" THEN src + code.size + code.value ELSE code.value

\* The distances at which the displacement no longer fits once the length of
\* the jump itself has been subtracted from it: the width test of
\* FillJumpCode looks at the distance, the encoders store distance - length.
Edges == (-Half8 .. -Half8 + JumpShortSize - 1)
            \cup (-Half32 .. -Half32 + JumpNearSize - 1)
=============================================================================
