-------------------------- MODULE MCX86Trampoline --------------------------
(* Every function of up to two instructions of a small set, and of three of *)
(* its core, at every layout of a small address space.  With Half8 = 16,    *)
(* Half16 = 48 and Half32 = 128 the branches reach, with every width, the   *)
(* body, its end and its neighbours, and the trampoline lies near, farther  *)
(* or too far.                                                              *)
EXTENDS X86Trampoline

Rel(len, width, disp) ==
    [kind |-> "rel", len |-> len, width |-> width, disp |-> disp]
Other(kind, len) == [kind |-> kind, len |-> len, width |-> 32, disp |-> 0]

Kit ==
    {Rel(2, 8, d) : d \in {-16, -2, 0, 3, 15}}         \* jcc rel8, jmp rel8
      \cup {Rel(4, 16, d) : d \in {-40, 2}}            \* jcc rel16
      \cup {Rel(5, 32, d) : d \in {-30, 0, 100}}       \* jmp rel32, call rel32
      \cup {Rel(5, 64, -30)}                           \* an unsupported operand
      \cup {Other("indirect", 2), Other("plain", 15)}

Core == {Rel(2, 8, -16), Rel(2, 8, 3), Rel(5, 32, -30), Rel(5, 32, 100),
         Other("indirect", 2)}

Bodies == {<<>>} \cup [1 .. 1 -> Kit] \cup [1 .. 2 -> Kit] \cup [1 .. 3 -> Core]

RECURSIVE LenOf(_)
LenOf(insns) == IF insns = <<>> THEN 0
                ELSE Head(insns).len + LenOf(Tail(insns))

\* Bytes after the last instruction: none, or some the decoder rejects
MCFuncs ==
    {[insns |-> s, size |-> LenOf(s) + tail] :
        s \in Bodies, tail \in {0, 3}}
      \cup {[insns |-> <<>>, size |-> NoSize]}

\* The target at 256; its handle before it, after it or far away; a detour
\* within 2^7, at the edge of 2^7, within 2^31 and beyond
MCLayouts == [target : {256}, handle : {128, 288, 512}, detour : {240, 244, 226, 1000}]
=============================================================================
