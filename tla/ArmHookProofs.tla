--------------------------- MODULE ArmHookProofs ---------------------------
(***************************************************************************)
(* The hook on ARM, for every function, every layout and every range of a   *)
(* branch: what a near hook installs leads to the detour, and the wrapped   *)
(* code goes on behind the word the hook overwrote.                         *)
(*                                                                         *)
(* The argument is a computation: the words the three arrays hold once      *)
(* _arm_init_trampoline has returned (lemma Prepared), kept by the later    *)
(* steps (AInv), and the arithmetic of the offset of a branch (OffsetRead). *)
(***************************************************************************)
EXTENDS ArmHook, SequenceTheorems, TLAPS

----------------------------------------------------------------------------
(* The offset of a branch *)

\* A number below the modulus is its own remainder.
LEMMA OwnRemainder ==
    ASSUME NEW m \in Nat \ {0}, NEW a \in 0 .. m - 1
    PROVE  a % m = a
  BY SMT

\* An offset that fits in 24 bits is read back, with its sign, as it was
\* written.
LEMMA SignedOffset ==
    ASSUME NEW half \in Nat \ {0}, NEW v \in Int, -half <= v, v < half
    PROVE  (((v % (2 * half)) + half) % (2 * half)) - half = v
  <1> DEFINE m == 2 * half
  <1>1. m \in Nat \ {0}
    OBVIOUS
  <1>2. \A a \in 0 .. m - 1 : a % m = a
    BY <1>1, OwnRemainder
  <1>3. \A a \in 0 .. m - 1 : (a + m) % m = a
    BY <1>1, SMT
  <1>4. \A a \in 0 .. m - 1 : (a - m) % m = a
    BY <1>1, SMT
  <1>5. CASE v >= 0
    <2>1. v % m = v
      BY <1>2, <1>5
    <2>2. (v + half) % m = v + half
      BY <1>2, <1>5
    <2> QED
      BY <2>1, <2>2
  <1>6. CASE v < 0
    <2>1. v % m = v + m
      <3>1. v + m \in 0 .. m - 1 /\ (v + m) - m = v
        BY <1>6
      <3> QED
        BY <1>4, <3>1
    <2>2. (v + m + half) % m = v + half
      <3>1. v + half \in 0 .. m - 1 /\ v + m + half = (v + half) + m
        BY <1>6
      <3> QED
        BY <1>3, <3>1
    <2> QED
      BY <2>1, <2>2
  <1> QED
    BY <1>5, <1>6

\* Off the edges of its range a branch lands where _arm_fill_jump_code_near
\* means it to.
LEMMA OffsetRead ==
    ASSUME NEW a \in Int, NEW diff \in Int, Near(diff), ~Edge(diff), NEW next
    PROVE  Lands(a, Branch(Field(diff)), next) = a + diff
  <1>1. Half24 \in Nat \ {0} /\ diff - 2 \in Int
    BY ArmAssumption
  <1>2. -Half24 <= diff - 2 /\ diff - 2 < Half24
    BY <1>1 DEF Near, Edge
  <1>3. (((Field(diff) + Half24) % (2 * Half24)) - Half24) = diff - 2
    BY <1>1, <1>2, SignedOffset DEF Field
  <1>4. Lands(a, Branch(Field(diff)), next)
            = a + 2 + (((Field(diff) + Half24) % (2 * Half24)) - Half24)
    BY DEF Lands, Branch, Word
  <1> QED
    BY <1>3, <1>4

\* A far jump lands at the address behind it.
LEMMA FarRead ==
    ASSUME NEW a, NEW to
    PROVE  Lands(a, LdrPc, Address(to)) = to
  BY DEF Lands, LdrPc, Address, Word

----------------------------------------------------------------------------
(* The words of the handle *)

\* One word stored in the handle.
LEMMA PutOne ==
    ASSUME NEW hd, DOMAIN hd = 0 .. 11, NEW i \in 0 .. 11, NEW a
    PROVE  Put(hd, i, <<a>>) = [k \in 0 .. 11 |-> IF k = i THEN a ELSE hd[k]]
  <1>1. DOMAIN hd \cup i .. i + Len(<<a>>) - 1 = 0 .. 11 /\ Len(<<a>>) = 1
    OBVIOUS
  <1>2. \A k \in 0 .. 11 : k \in i .. i + 1 - 1 <=> k = i
    OBVIOUS
  <1>3. <<a>>[1] = a /\ \A k : k = i => k - i + 1 = 1
    OBVIOUS
  <1> QED
    BY <1>1, <1>2, <1>3 DEF Put

\* Two words stored in the handle.
LEMMA PutTwo ==
    ASSUME NEW hd, DOMAIN hd = 0 .. 11, NEW i \in 0 .. 10, NEW a, NEW b
    PROVE  Put(hd, i, <<a, b>>) =
             [k \in 0 .. 11 |-> IF k = i THEN a ELSE IF k = i + 1 THEN b ELSE hd[k]]
  <1>1. DOMAIN hd \cup i .. i + Len(<<a, b>>) - 1 = 0 .. 11 /\ Len(<<a, b>>) = 2
    OBVIOUS
  <1>2. \A k \in 0 .. 11 : k \in i .. i + 2 - 1 <=> (k = i \/ k = i + 1)
    OBVIOUS
  <1>3. /\ <<a, b>>[1] = a /\ <<a, b>>[2] = b
        /\ \A k \in Int : (k = i => k - i + 1 = 1) /\ (k = i + 1 => k - i + 1 = 2)
    OBVIOUS
  <1> QED
    BY <1>1, <1>2, <1>3 DEF Put

\* to is hd with the jump from src to dst stored at i: its words, and nothing
\* changed around them
JumpStored(to, hd, i, src, dst) ==
    /\ DOMAIN to = 0 .. 11
    /\ \A k \in 0 .. 11 : k # i /\ k # i + 1 => to[k] = hd[k]
    /\ Near(dst - src) => to[i] = Branch(Field(dst - src))
    /\ ~Near(dst - src) => to[i] = LdrPc /\ to[i + 1] = Address(dst)

\* _arm_fill_jump_code stores a jump.
LEMMA PutJump ==
    ASSUME NEW hd, DOMAIN hd = 0 .. 11, NEW i \in 0 .. 10, NEW src \in Int, NEW dst \in Int
    PROVE  JumpStored(Put(hd, i, FillJumpCode(src, dst)), hd, i, src, dst)
  <1>1. CASE Near(dst - src)
    <2>1. FillJumpCode(src, dst) = <<Branch(Field(dst - src))>>
      BY <1>1 DEF FillJumpCode
    <2>2. Put(hd, i, <<Branch(Field(dst - src))>>)
             = [k \in 0 .. 11 |-> IF k = i THEN Branch(Field(dst - src)) ELSE hd[k]]
      BY PutOne
    <2> QED
      BY <1>1, <2>1, <2>2 DEF JumpStored
  <1>2. CASE ~Near(dst - src)
    <2>1. FillJumpCode(src, dst) = <<LdrPc, Address(dst)>>
      BY <1>2 DEF FillJumpCode, FarJump
    <2>2. Put(hd, i, <<LdrPc, Address(dst)>>)
             = [k \in 0 .. 11 |-> IF k = i THEN LdrPc
                                  ELSE IF k = i + 1 THEN Address(dst) ELSE hd[k]]
      BY PutTwo
    <2> QED
      BY <1>2, <2>1, <2>2 DEF JumpStored
  <1> QED
    BY <1>1, <1>2

ArgsOK == fn \in Functions /\ layout \in Layouts

\* The addresses are numbers, and the function has the words the code looks at.
LEMMA ArgTypes ==
    ASSUME ArgsOK
    PROVE  /\ layout.target \in Int /\ layout.detour \in Int /\ layout.handle \in Int
           /\ fn \in Seq(Code) /\ Len(fn) >= 3 /\ DOMAIN fn = 1 .. Len(fn)
           /\ fn[1] \in Code
           /\ fn[1].op = "branch" => fn[1].arg \in 0 .. (2 * Half24) - 1
  <1>1. layout \in [target : Int, detour : Int, handle : Int]
    BY ArmAssumption DEF ArgsOK
  <1>2. /\ fn \in Seq(Code) /\ Len(fn) >= 3
        /\ fn[1].op = "branch" => fn[1].arg < 2 * Half24
    BY ArmAssumption DEF ArgsOK
  <1>3. DOMAIN fn = 1 .. Len(fn) /\ fn[1] \in Code
    BY <1>2
  <1>4. fn[1].arg \in Nat /\ Half24 \in Nat
    BY <1>3, ArmAssumption DEF Code
  <1> QED
    BY <1>1, <1>2, <1>3, <1>4

\* What _arm_init_trampoline leaves in the handle when the hook is near or far:
\* the redirect code, and 0 in the word that _arm_get_opcode_size reads.
LEMMA RedirectedWords ==
    ASSUME ArgsOK
    PROVE  LET diff == layout.detour - layout.target
           IN  /\ DOMAIN Redirected = 0 .. 11
               /\ Redirected[7] = Zero
               /\ Near(diff) => Redirected[0] = Branch(Field(diff))
  <1> DEFINE zeroed == [k \in 0 .. 11 |-> Zero]
             hd == Put(zeroed, 0, FillJumpCode(layout.target, layout.detour))
             diff == layout.detour - layout.target
  <1>1. layout.target \in Int /\ layout.detour \in Int
    BY ArgTypes
  <1>2. /\ DOMAIN hd = 0 .. 11
        /\ \A k \in 0 .. 11 : k # 0 /\ k # 0 + 1 => hd[k] = zeroed[k]
        /\ Near(diff) => hd[0] = Branch(Field(diff))
    <2>1. DOMAIN zeroed = 0 .. 11 /\ 0 \in 0 .. 10
      OBVIOUS
    <2> HIDE DEF zeroed
    <2>2. JumpStored(hd, zeroed, 0, layout.target, layout.detour)
      BY <1>1, <2>1, PutJump
    <2> HIDE DEF hd
    <2> QED
      BY <2>2 DEF JumpStored
  <1>3. zeroed[7] = Zero
    OBVIOUS
  <1>4. hd[7] = Zero
    BY <1>2, <1>3
  <1>5. \E p : Redirected = [hd EXCEPT ![2] = p]
    BY DEF Redirected
  <1> HIDE DEF hd
  <1> QED
    BY <1>2, <1>4, <1>5

\* What _arm_init_trampoline leaves in the handle.
LEMMA Prepared ==
    ASSUME ArgsOK
    PROVE  LET hd   == Wrapped(Redirected)
               diff == layout.detour - layout.target
               back == layout.target + 1
               gap  == back - At(Wrap + 1)
           IN  /\ DOMAIN hd = 0 .. 11
               /\ hd[7] = Zero
               /\ Near(diff) => hd[0] = Branch(Field(diff))
               /\ fn[1].op # "bxlr" /\ Near(gap) => hd[5] = Branch(Field(gap))
               /\ fn[1].op # "bxlr" /\ ~Near(gap) => hd[5] = LdrPc /\ hd[6] = Address(back)
               /\ fn[1].op = "branch" =>
                    /\ hd[4] = Branch(Field(4))
                    /\ hd[8] = LdrPc /\ hd[9] = Address(BranchTarget(fn[1]))
  <1> DEFINE r == Redirected
             w == fn[1]
             one == Put(r, Wrap, <<Branch(Field(ExtPos))>>)
             ext == Put(one, Wrap + ExtPos, FarJump(BranchTarget(w)))
             first == IF w.op = "branch" THEN ext ELSE Put(r, Wrap, <<w>>)
             back == layout.target + 1
             from == At(Wrap + 1)
             hd == Put(first, Wrap + 1, FillJumpCode(from, back))
             diff == layout.detour - layout.target
  <1>1. back \in Int /\ from \in Int
    BY ArgTypes DEF At, Wrap
  <1>2. /\ DOMAIN r = 0 .. 11
        /\ r[7] = Zero
        /\ Near(diff) => r[0] = Branch(Field(diff))
    BY RedirectedWords
  <1>3. CASE w.op = "bxlr"
    <2>1. Wrapped(Redirected) = Redirected
      BY <1>3 DEF Wrapped
    <2> QED
      BY <1>2, <1>3, <2>1
  <1>4. CASE w.op # "bxlr"
    <2>1. Wrapped(Redirected) = hd
      BY <1>4 DEF Wrapped
    <2> HIDE DEF r
    <2>2. /\ DOMAIN first = 0 .. 11
          /\ first[7] = r[7] /\ first[0] = r[0]
          /\ w.op = "branch" => /\ first[4] = Branch(Field(4))
                                /\ first[8] = LdrPc
                                /\ first[9] = Address(BranchTarget(w))
      <3>1. CASE w.op = "branch"
        <4>1. one = [k \in 0 .. 11 |-> IF k = 4 THEN Branch(Field(4)) ELSE r[k]]
          BY <1>2, PutOne DEF Wrap, ExtPos
        <4>2. DOMAIN one = 0 .. 11
          BY <4>1
        <4> HIDE DEF one
        <4>3. ext = [k \in 0 .. 11 |-> IF k = 8 THEN LdrPc
                        ELSE IF k = 9 THEN Address(BranchTarget(w)) ELSE one[k]]
          BY <4>2, PutTwo DEF Wrap, ExtPos, FarJump
        <4>4. first = ext
          BY <3>1
        <4> HIDE DEF ext, first
        <4> QED
          BY <4>1, <4>3, <4>4
      <3>2. CASE w.op # "branch"
        <4>1. Put(r, Wrap, <<w>>) = [k \in 0 .. 11 |-> IF k = 4 THEN w ELSE r[k]]
          BY <1>2, PutOne DEF Wrap
        <4> QED
          BY <3>2, <4>1
      <3> QED
        BY <3>1, <3>2
    <2> HIDE DEF first, from, back
    <2>3. /\ DOMAIN hd = 0 .. 11
          /\ \A k \in 0 .. 11 : k # 5 /\ k # 6 => hd[k] = first[k]
          /\ Near(back - from) => hd[5] = Branch(Field(back - from))
          /\ ~Near(back - from) => hd[5] = LdrPc /\ hd[6] = Address(back)
      <3>1. Wrap + 1 = 5 /\ 5 \in 0 .. 10 /\ 5 + 1 = 6
        BY DEF Wrap
      <3>2. hd = Put(first, 5, FillJumpCode(from, back))
        BY <3>1
      <3>3. JumpStored(hd, first, 5, from, back)
        BY <1>1, <2>2, <3>1, <3>2, PutJump
      <3> HIDE DEF hd
      <3> QED
        BY <3>1, <3>3 DEF JumpStored
    <2> HIDE DEF hd
    <2>4. /\ hd[7] = first[7] /\ hd[0] = first[0] /\ hd[4] = first[4]
          /\ hd[8] = first[8] /\ hd[9] = first[9]
      BY <2>3
    <2> QED
      BY <1>2, <2>1, <2>2, <2>3, <2>4 DEF from, back
  <1> QED
    BY <1>3, <1>4

----------------------------------------------------------------------------
(* The inductive invariant *)

\* From Prepare on, until uninject frees it, the handle is the prepared one
HandlePrepared == pc \in {"modify", "hooked", "off"} => handle = Wrapped(Redirected)

HandleShape == DOMAIN handle = 0 .. 11

\* The target is as it was until its first word is overwritten, and then that
\* is the only one
CodeShape == code \in Seq({code[k] : k \in DOMAIN code}) /\ Len(code) = Len(fn)
FirstWordOnly ==
    /\ pc \in {"start", "modify"} => code = fn
    /\ pc = "hooked" => code[1] = handle[0] /\ code[2] = fn[2]

Steps == pc \in {"start", "modify", "hooked", "off", "failed"}

AInv == ArgsOK /\ Steps /\ HandleShape /\ HandlePrepared /\ CodeShape /\ FirstWordOnly

\* Copying words over the code leaves its length alone.
LEMMA CopyKeepsLength ==
    ASSUME NEW S, NEW dst \in Seq(S), NEW i, NEW count
    PROVE  /\ CopyWords(dst, i, count)
                 \in Seq({CopyWords(dst, i, count)[k] : k \in DOMAIN CopyWords(dst, i, count)})
           /\ Len(CopyWords(dst, i, count)) = Len(dst)
  <1> DEFINE new == CopyWords(dst, i, count)
             T == {new[k] : k \in DOMAIN new}
             n == Len(dst)
  <1>1. n \in Nat /\ DOMAIN dst = 1 .. n
    OBVIOUS
  <1>2. new = [k \in 1 .. n |-> new[k]]
    BY <1>1 DEF CopyWords
  <1>3. \A k \in 1 .. n : new[k] \in T
    BY <1>1 DEF CopyWords
  <1> HIDE DEF new, n, T
  <1>7. new \in [1 .. n -> T]
    BY <1>2, <1>3
  <1>4. new \in Seq(T)
    BY <1>1, <1>7, SeqDef
  <1>5. DOMAIN new = 1 .. n /\ DOMAIN new = 1 .. Len(new) /\ Len(new) \in Nat
    BY <1>4, <1>7, LenProperties
  <1>6. Len(new) = n
    BY <1>1, <1>5
  <1> QED
    BY <1>4, <1>6 DEF new, n, T

LEMMA InitAInv == Init => AInv
  <1> SUFFICES ASSUME Init PROVE AInv
    OBVIOUS
  <1>1. ArgsOK
    BY DEF Init, ArgsOK
  <1>2. CodeShape
    <2>1. fn \in Seq(Code) /\ code = fn
      BY <1>1, ArgTypes DEF Init
    <2>2. fn \in [1 .. Len(fn) -> {fn[k] : k \in DOMAIN fn}] /\ Len(fn) \in Nat
      BY <2>1
    <2>3. fn \in Seq({fn[k] : k \in DOMAIN fn})
      BY <2>2, SeqDef
    <2> QED
      BY <2>1, <2>3 DEF CodeShape
  <1> QED
    BY <1>1, <1>2 DEF Init, AInv, Steps, HandleShape, HandlePrepared, FirstWordOnly

\* The prepared handle is a function of the arguments, which never change.
LEMMA SameArgs ==
    ASSUME UNCHANGED <<fn, layout>>
    PROVE  /\ (Wrapped(Redirected))' = Wrapped(Redirected)
           /\ ArgsOK' = ArgsOK
  BY DEF Wrapped, Redirected, At, BranchTarget, ArgsOK

LEMMA DoInjectAInv == AInv /\ DoInject => AInv'
  <1> SUFFICES ASSUME AInv, DoInject PROVE AInv'
    OBVIOUS
  <1>1. /\ UNCHANGED <<fn, layout, handle>> /\ pc = "modify" /\ pc' = "hooked"
        /\ code' = CopyWords(code, 0, OpcodeSize(handle))
    BY DEF DoInject
  <1>2. ArgsOK' /\ HandleShape' /\ HandlePrepared' /\ Steps'
    BY <1>1, SameArgs DEF AInv, HandleShape, HandlePrepared, Steps
  <1>3. OpcodeSize(handle) = 1
    BY <1>1, Prepared DEF AInv, HandlePrepared, OpcodeSize
  <1>4. CodeShape'
    <2>1. PICK S : S = {code[k] : k \in DOMAIN code}
      OBVIOUS
    <2>2. code \in Seq(S) /\ Len(code) = Len(fn)
      BY <2>1 DEF AInv, CodeShape
    <2> QED
      BY <1>1, <2>2, CopyKeepsLength DEF CodeShape
  <1>5. code'[1] = handle[0] /\ code'[2] = fn[2]
    <2>1. code = fn /\ 1 \in DOMAIN code /\ 2 \in DOMAIN code
      BY <1>1, ArgTypes DEF AInv, FirstWordOnly
    <2> QED
      BY <1>1, <1>3, <2>1 DEF CopyWords
  <1> QED
    BY <1>1, <1>2, <1>4, <1>5 DEF AInv, FirstWordOnly

LEMMA UndoInjectAInv == AInv /\ UndoInject => AInv'
  <1> SUFFICES ASSUME AInv, UndoInject PROVE AInv'
    OBVIOUS
  <1>1. /\ UNCHANGED <<fn, layout, handle>> /\ pc = "hooked" /\ pc' = "off"
        /\ code' = CopyWords(code, 2, UndoWords(handle)) \/ code' = code
    BY DEF UndoInject
  <1>2. ArgsOK' /\ HandleShape' /\ HandlePrepared' /\ Steps'
    BY <1>1, SameArgs DEF AInv, HandleShape, HandlePrepared, Steps
  <1>3. CodeShape'
    <2>1. PICK S : S = {code[k] : k \in DOMAIN code}
      OBVIOUS
    <2>2. code \in Seq(S) /\ Len(code) = Len(fn)
      BY <2>1 DEF AInv, CodeShape
    <2>3. CASE code' = code
      BY <1>1, <2>3 DEF AInv, CodeShape
    <2>4. CASE code' = CopyWords(code, 2, UndoWords(handle))
      <3>1. PICK new : new = CopyWords(code, 2, UndoWords(handle))
        OBVIOUS
      <3>2. new \in Seq({new[k] : k \in DOMAIN new}) /\ Len(new) = Len(code)
        BY <2>2, <3>1, CopyKeepsLength
      <3>3. code' = new /\ fn' = fn
        BY <1>1, <2>4, <3>1
      <3> QED
        BY <2>2, <3>2, <3>3 DEF CodeShape
    <2> QED
      BY <1>1, <2>3, <2>4
  <1> QED
    BY <1>1, <1>2, <1>3 DEF AInv, FirstWordOnly

LEMMA NextAInv == AInv /\ [Next]_vars => AInv'
  <1> SUFFICES ASSUME AInv, [Next]_vars PROVE AInv'
    OBVIOUS
  <1>1. CASE Prepare
    <2>1. /\ UNCHANGED <<fn, layout, code>> /\ pc = "start" /\ pc' = "modify"
          /\ handle' = Wrapped(Redirected)
      BY <1>1 DEF Prepare
    <2>2. DOMAIN Wrapped(Redirected) = 0 .. 11
      BY Prepared DEF AInv
    <2> QED
      BY <2>1, <2>2, SameArgs
         DEF AInv, Steps, HandleShape, HandlePrepared, CodeShape, FirstWordOnly
  <1>2. CASE AllocFails \/ ModifyFails
    BY <1>2, SameArgs DEF AllocFails, ModifyFails, AInv, Steps, HandleShape,
                          HandlePrepared, CodeShape, FirstWordOnly
  <1>3. CASE UNCHANGED vars
    BY <1>3, SameArgs DEF vars, AInv, Steps, HandleShape, HandlePrepared, CodeShape,
                          FirstWordOnly
  <1> QED
    BY <1>1, <1>2, <1>3, DoInjectAInv, UndoInjectAInv DEF Next

\* Every state of every ARM hook satisfies the inductive invariant.
THEOREM ArmInvariant == Spec => []AInv
  BY InitAInv, NextAInv, PTL DEF Spec

----------------------------------------------------------------------------
(* The theorems *)

\* The variables of the hook keep their types.
THEOREM ArmTypes == Spec => []TypeOK
  <1>1. AInv => TypeOK
    BY DEF AInv, TypeOK, Steps, HandleShape, CodeShape
  <1> QED
    BY <1>1, ArmInvariant, PTL

\* Off the edges of the branch range, a near hook leads to the detour whatever
\* the function, the layout and the range of a branch are.
THEOREM ArmNearHook == Spec => []NearHookReaches
  <1>1. AInv => NearHookReaches
    <2> DEFINE diff == layout.detour - layout.target
    <2> SUFFICES ASSUME AInv, pc = "hooked", Near(diff), ~Edge(diff)
                 PROVE  Lands(layout.target, code[1], code[2]) = layout.detour
      BY DEF NearHookReaches
    <2>1. code[1] = Branch(Field(diff))
      BY Prepared DEF AInv, HandlePrepared, FirstWordOnly
    <2>2. layout.target \in Int /\ layout.detour \in Int
      BY ArgTypes DEF AInv
    <2>3. Lands(layout.target, Branch(Field(diff)), code[2]) = layout.target + diff
      BY <2>2, OffsetRead
    <2> QED
      BY <2>1, <2>2, <2>3
  <1> QED
    BY <1>1, ArmInvariant, PTL

\* The jump at the end of the wrapped code, near or far.
LEMMA WrapLandsBack ==
    ASSUME AInv, pc = "hooked", fn[1].op # "bxlr",
           ~Edge(layout.target + 1 - At(Wrap + 1))
    PROVE  Lands(At(Wrap + 1), handle[Wrap + 1], handle[Wrap + 2]) = layout.target + 1
  <1> DEFINE back == layout.target + 1
             from == At(Wrap + 1)
             diff == back - from
  <1>1. back \in Int /\ from \in Int /\ Wrap + 1 = 5 /\ Wrap + 2 = 6
    BY ArgTypes DEF AInv, At, Wrap
  <1>2. /\ Near(diff) => handle[5] = Branch(Field(diff))
        /\ ~Near(diff) => handle[5] = LdrPc /\ handle[6] = Address(back)
    BY Prepared DEF AInv, HandlePrepared
  <1>3. ~Edge(diff)
    <2>0. layout.target \in Int
      BY ArgTypes DEF AInv
    <2>1. layout.target + 1 - from = diff
      BY <1>1, <2>0 DEF back
    <2> QED
      BY <2>1 DEF from
  <1> HIDE DEF back, from
  <1>4. CASE Near(diff)
    <2>1. Lands(from, Branch(Field(diff)), handle[6]) = from + diff
      BY <1>1, <1>3, <1>4, OffsetRead
    <2>2. from + diff = back
      BY <1>1
    <2> QED
      BY <1>1, <1>2, <1>4, <2>1, <2>2 DEF back, from
  <1>5. CASE ~Near(diff)
    BY <1>1, <1>2, <1>5, FarRead DEF back, from
  <1> QED
    BY <1>4, <1>5

\* The wrapped code goes on behind the overwritten word, near or far.
THEOREM ArmWrapGoesOn == Spec => []WrapGoesOn
  <1>1. AInv => WrapGoesOn
    BY WrapLandsBack DEF WrapGoesOn, AInv, FirstWordOnly
  <1> QED
    BY <1>1, ArmInvariant, PTL

\* A forward branch in the first word still gets where it goes in the original:
\* the jump back, written last, never reaches the EXT space.
THEOREM ArmForwardBranch == Spec => []ForwardBranchKept
  <1>1. AInv => ForwardBranchKept
    <2> DEFINE ext == Lands(At(Wrap), handle[Wrap], handle[Wrap + 1]) - layout.handle
    <2> SUFFICES ASSUME AInv, pc = "hooked", fn[1].op = "branch", fn[1].arg < Half24
                 PROVE  /\ ext \in 0 .. 10
                        /\ Lands(At(ext), handle[ext], handle[ext + 1])
                              = Lands(layout.target, fn[1], fn[2])
      BY DEF ForwardBranchKept
    <2>1. /\ handle[4] = Branch(Field(4))
          /\ handle[8] = LdrPc /\ handle[9] = Address(BranchTarget(fn[1]))
      BY Prepared DEF AInv, HandlePrepared
    <2>2. /\ layout.handle \in Int /\ layout.target \in Int
          /\ fn[1].arg \in Nat /\ Half24 \in Nat /\ Half24 > 4
      BY ArgTypes, ArmAssumption DEF AInv
    <2>3. ext = 8
      <3>1. At(4) \in Int /\ Near(4) /\ ~Edge(4)
        BY <2>2 DEF At, Near, Edge
      <3>2. Lands(At(4), Branch(Field(4)), handle[5]) = At(4) + 4
        BY <3>1, OffsetRead
      <3> QED
        BY <2>1, <2>2, <3>2 DEF At, Wrap
    <2>4. Lands(At(8), handle[8], handle[9]) = layout.target + fn[1].arg + 2
      BY <2>1, FarRead DEF BranchTarget
    <2>5. Lands(layout.target, fn[1], fn[2]) = layout.target + 2 + fn[1].arg
      <3>1. (((fn[1].arg % (2 * Half24)) + Half24) % (2 * Half24)) - Half24 = fn[1].arg
        BY <2>2, SignedOffset
      <3>2. fn[1].arg % (2 * Half24) = fn[1].arg
        <4>1. 2 * Half24 \in Nat \ {0} /\ fn[1].arg \in 0 .. (2 * Half24) - 1
          BY <2>2
        <4> QED
          BY <4>1, OwnRemainder
      <3> QED
        BY <3>1, <3>2 DEF Lands
    <2> HIDE DEF ext
    <2> QED
      BY <2>2, <2>3, <2>4, <2>5
  <1> QED
    BY <1>1, ArmInvariant, PTL
=============================================================================
