-------------------------- MODULE InlineHookProofs --------------------------
(***************************************************************************)
(* For every number of threads, targets, detours, tokens and handles and    *)
(* every placement of the targets, whichever steps fail and in whatever     *)
(* order hooks come off: the types, and that no handle leaks or is freed    *)
(* twice.  If the caller lets no two calls in flight share a page of code,  *)
(* a callback only ever writes to writable pages; if mprotect does not fail *)
(* when it puts the protection back, code at rest is write-protected.       *)
(*                                                                         *)
(* For callers that take hooks on one function off newest first, and a      *)
(* system that lets them (the first mprotect of an uninject does not fail): *)
(* the images of a target form an unbroken stack, whatever calls on other   *)
(* targets go on beside, so that the original code comes back, and          *)
(* InlineHook implements HookStack.  Pages may be shared between calls in   *)
(* flight.                                                                 *)
(***************************************************************************)
EXTENDS InlineHook, FiniteSetTheorems, SequenceTheorems, TLAPS

-----------------------------------------------------------------------------
(* The pages: _system_modify_opcode changes the protection of exactly the    *)
(* pages that hold a byte of its region.                                     *)

\* Division with remainder by a positive number.
LEMMA DivMod ==
    ASSUME NEW a \in Nat, NEW p \in Nat, p > 0
    PROVE  /\ a \div p \in Nat
           /\ a % p \in Nat
           /\ a % p < p
           /\ a = p * (a \div p) + (a % p)
<1>1. a \div p \in Nat  BY SMT
<1>2. a % p \in Nat /\ a % p < p  BY SMT
<1>3. a = p * (a \div p) + (a % p)  BY Z3
<1> QED  BY <1>1, <1>2, <1>3

\* A multiple of p strictly between -p and p is 0.
LEMMA SmallMultiple ==
    ASSUME NEW p \in Nat, p > 0, NEW d \in Int, -p < p * d, p * d < p
    PROVE  d = 0
<1>1. CASE d >= 1
  <2>1. p * d >= p  BY <1>1
  <2> QED  BY <2>1
<1>2. CASE d <= -1
  <2>1. p * d <= -p  BY <1>2
  <2> QED  BY <2>1
<1> QED  BY <1>1, <1>2

\* Quotient and remainder are unique.
LEMMA Unique ==
    ASSUME NEW p \in Nat, p > 0, NEW q \in Nat, NEW s \in Nat, s < p,
           NEW a \in Nat, a = p * q + s
    PROVE  a % p = s
<1> DEFINE d == a \div p
           m == a % p
<1>1. d \in Nat /\ m \in Nat /\ m < p /\ a = p * d + m  BY DivMod
<1> HIDE DEF d, m
<1>2. p * (d - q) = s - m
  <2>1. p * d + m = p * q + s  BY <1>1
  <2>2. p * (d - q) = p * d - p * q  BY <1>1
  <2>3. p * d \in Int /\ p * q \in Int  BY <1>1
  <2> QED  BY <2>1, <2>2, <2>3, <1>1
<1>3. d - q = 0
  <2>1. d - q \in Int  BY <1>1
  <2>2. -p < s - m /\ s - m < p  BY <1>1
  <2> QED  BY <1>2, <2>1, <2>2, SmallMultiple
<1>4. m = s  BY <1>1, <1>2, <1>3
<1> QED  BY <1>4 DEF m
\* The pages whose protection is changed, one mprotect of n_page pages from the
\* page of the first byte on, are the pages that hold a byte of the region: none
\* is missed where the region crosses into a next page, none is touched beyond.
THEOREM PagesExact ==
    ASSUME NEW addr \in Nat, NEW size \in Nat, size > 0
    PROVE  Pages(addr, size) = {PageOf(addr + o) : o \in 0 .. size - 1}
<1> USE PageSizeAssumption
<1> DEFINE P == PageSize
           r == addr % P
           b == PageOf(addr)
           q == addr \div P
           last == r + size - 1
           n == last \div P
<1>1. P \in Nat /\ P > 0  OBVIOUS
<1>2. q \in Nat /\ r \in Nat /\ r < P /\ addr = P * q + r  BY <1>1, DivMod
<1>3. b = P * q
  <2>1. P * q \in Nat  BY <1>1, <1>2
  <2>2. b = addr - r  BY DEF PageOf
  <2> HIDE DEF q, r, b
  <2> QED  BY <2>1, <2>2, <1>2
<1>4. last \in Nat  BY <1>2
<1>5. n \in Nat /\ last % P \in Nat /\ last % P < P /\ last = P * n + (last % P)
  BY <1>1, <1>4, DivMod
<1>6. NumPages(addr, size) = n + 1
  <2>1. addr + size - PageOf(addr) - 1 = last
    <3>1. b = addr - r  BY DEF PageOf
    <3>2. b \in Int  BY <3>1, <1>2
    <3> HIDE DEF r, b
    <3>3. addr + size - b - 1 = last  BY <3>1, <1>2
    <3> QED  BY <3>3 DEF b
  <2> QED  BY <2>1 DEF NumPages
<1>7. Pages(addr, size) = {b + P * i : i \in 0 .. n}
  <2>1. NumPages(addr, size) - 1 = n  BY <1>5, <1>6
  <2> QED  BY <2>1 DEF Pages
<1>7a. b \in Nat  BY <1>1, <1>2, <1>3
<1> HIDE DEF b, q, r, n, last
\* The page of a byte of the region
<1>8. ASSUME NEW o \in Nat
      PROVE  /\ (r + o) \div P \in Nat
             /\ PageOf(addr + o) = b + P * ((r + o) \div P)
  <2> DEFINE i == (r + o) \div P
             s == (r + o) % P
  <2>1. r + o \in Nat  BY <1>2
  <2>2. i \in Nat /\ s \in Nat /\ s < P /\ r + o = P * i + s  BY <1>1, <2>1, DivMod
  <2> HIDE DEF i, s
  <2>3. q + i \in Nat /\ P * (q + i) = P * q + P * i /\ P * q \in Nat /\ P * i \in Nat
    BY <1>1, <1>2, <2>2
  <2>4. addr + o = P * (q + i) + s  BY <1>2, <2>2, <2>3
  <2> DEFINE a == addr + o
             x == P * (q + i)
  <2>5. a \in Nat /\ x \in Nat  BY <2>3
  <2>6. a % P = s
    <3> DEFINE k == q + i
    <3>1. k \in Nat /\ a = P * k + s  BY <2>3, <2>4
    <3> HIDE DEF a, k
    <3> QED  BY <1>1, <2>2, <2>5, <3>1, Unique
  <2>7. PageOf(a) = x
    <3>1. PageOf(a) = a - s  BY <2>6 DEF PageOf
    <3> HIDE DEF a, x
    <3>2. a = x + s  BY <2>4 DEF a, x
    <3> QED  BY <2>2, <2>5, <3>1, <3>2
  <2> QED  BY <2>2, <2>3, <2>7, <1>3 DEF i
<1>9. ASSUME NEW o \in 0 .. size - 1
      PROVE  PageOf(addr + o) \in {b + P * i : i \in 0 .. n}
  <2> DEFINE i == (r + o) \div P
             s == (r + o) % P
  <2>1. r + o \in Nat /\ r + o <= last /\ o \in Nat  BY <1>2 DEF last
  <2>2. i \in Nat /\ s \in Nat /\ s < P /\ r + o = P * i + s  BY <1>1, <2>1, DivMod
  <2>3. PageOf(addr + o) = b + P * i  BY <1>8
  <2> HIDE DEF i, s
  <2>4. i <= n
    <3> SUFFICES ASSUME i >= n + 1  PROVE FALSE  BY <2>2, <1>5
    <3>1. P * i >= P * (n + 1)  BY <1>1, <1>5, <2>2
    <3>2. P * (n + 1) = P * n + P  BY <1>1, <1>5
    <3>3. P * n \in Nat /\ P * i \in Nat  BY <1>1, <1>5, <2>2
    <3> QED  BY <3>1, <3>2, <3>3, <2>1, <2>2, <1>5, <1>4, <1>1
  <2> QED  BY <2>2, <2>3, <2>4, <1>5
<1>10. ASSUME NEW i \in 0 .. n
       PROVE  \E o \in 0 .. size - 1 : PageOf(addr + o) = b + P * i
  <2>1. CASE i = 0
    <3>1. r + 0 = r /\ r \div P = 0
      <4>1. r \div P \in Nat /\ r = P * (r \div P) + (r % P) /\ r % P \in Nat
        BY <1>1, <1>2, DivMod
      <4>2. -P < P * (r \div P) /\ P * (r \div P) < P
        <5>1. P * (r \div P) \in Nat  BY <1>1, <4>1
        <5> QED  BY <5>1, <4>1, <1>1, <1>2
      <4> QED  BY <4>1, <4>2, <1>1, <1>2, SmallMultiple
    <3>2. PageOf(addr + 0) = b + P * ((r + 0) \div P)  BY <1>8
    <3> QED  BY <2>1, <3>1, <3>2
  <2>2. CASE i >= 1
    <3> DEFINE o == P * i - r
    <3>1. P * i \in Nat /\ P * i >= P  BY <1>1, <1>5, <2>2
    <3>2. P * i <= P * n /\ P * n \in Nat  BY <1>1, <1>5
    <3>3. o \in 0 .. size - 1
      <4>1. P * n <= last  BY <3>2, <1>4, <1>5
      <4> QED  BY <4>1, <3>1, <3>2, <1>1, <1>2 DEF last
    <3>4. addr + o = P * (q + i)
      <4>1. P * (q + i) = P * q + P * i /\ P * q \in Nat  BY <1>1, <1>2, <1>5
      <4> QED  BY <4>1, <3>1, <1>2
    <3> HIDE DEF o
    <3>5. (addr + o) % P = 0
      <4>1. q + i \in Nat /\ addr + o \in Nat /\ addr + o = P * (q + i) + 0
        BY <1>2, <1>5, <3>3, <3>4
      <4> QED  BY <4>1, <1>1, Unique
    <3>6. PageOf(addr + o) = addr + o  BY <3>5, <3>3 DEF PageOf
    <3>7. P * (q + i) = b + P * i  BY <1>1, <1>2, <1>3, <1>5
    <3> QED  BY <3>3, <3>4, <3>6, <3>7
  <2> QED  BY <2>1, <2>2, <1>5
<1>11. {b + P * i : i \in 0 .. n} = {PageOf(addr + o) : o \in 0 .. size - 1}
  <2> DEFINE X == {b + P * i : i \in 0 .. n}
             Y == {PageOf(addr + o) : o \in 0 .. size - 1}
  <2>1. Y \subseteq X  BY <1>9
  <2>2. X \subseteq Y  BY <1>10
  <2> QED  BY <2>1, <2>2
<1> QED  BY <1>7, <1>11

-----------------------------------------------------------------------------
(* The types *)

\* Image and Hooked stay closed below: what is copied is of no concern to the
\* types but through these lemmas.
LEMMA OverwriteType ==
    ASSUME NEW dst \in Image, NEW src \in Image, NEW size
    PROVE  Overwrite(dst, src, size) \in Image
  BY DEF Overwrite, Image

LEMMA ImageTypes ==
    /\ OriginalImage \in Image
    /\ \A d \in Detour : JumpTo(d) \in Image
    /\ [o \in Offsets |-> Int3] \in Image
  BY DEF OriginalImage, JumpTo, Image, Owner

LEMMA WithoutType ==
    ASSUME NEW hooks \in Seq(Hooked), NEW h
    PROVE  Without(hooks, h) \in Seq(Hooked)
<1> DEFINE its == {i \in 1 .. Len(hooks) : hooks[i].h = h}
           i == CHOOSE j \in its : TRUE
           rest == [j \in 1 .. Len(hooks) - 1 |-> IF j < i THEN hooks[j] ELSE hooks[j + 1]]
<1>1. CASE its = {}
  BY <1>1 DEF Without
<1>2. CASE its # {}
  <2>1. Without(hooks, h) = rest  BY <1>2 DEF Without
  <2>2. i \in 1 .. Len(hooks)  BY <1>2
  <2> HIDE DEF i
  <2>3. Len(hooks) \in Nat /\ Len(hooks) - 1 \in Nat  BY <2>2
  <2>4. \A j \in 1 .. Len(hooks) - 1 :
           (IF j < i THEN hooks[j] ELSE hooks[j + 1]) \in Hooked  BY <2>2, <2>3
  <2>5. rest \in [1 .. Len(hooks) - 1 -> Hooked]  BY <2>4
  <2> HIDE DEF rest
  <2>6. rest \in Seq(Hooked)  BY <2>3, <2>5
  <2> QED  BY <2>1, <2>6
<1> QED  BY <1>1, <1>2

\* The region a call changes lies in the pages of its target and holds the page
\* of every byte of the jump.
LEMMA RegionPages ==
    ASSUME NEW rec \in HandleRec
    PROVE  LET R == Pages(Addr[rec.target], rec.size)
           IN  /\ R \subseteq TargetPages(rec.target)
               /\ \A o \in 0 .. rec.size - 1 : PageOf(Addr[rec.target] + o) \in R
<1>1. rec.target \in Target /\ rec.size \in {2, 5, 14}  BY DEF HandleRec
<1>2. Addr[rec.target] \in Nat  BY <1>1, InlineAssumption
<1>3. rec.size \in Nat /\ rec.size > 0 /\ 0 .. rec.size - 1 \subseteq Offsets
  BY <1>1 DEF Offsets, OpcodeSize
<1>4. Pages(Addr[rec.target], rec.size)
         = {PageOf(Addr[rec.target] + o) : o \in 0 .. rec.size - 1}
  BY <1>2, <1>3, PagesExact
<1> QED  BY <1>3, <1>4 DEF TargetPages

----------------------------------------------------------------------------
(* The inductive invariant *)

Busy(th) == pc[th] # "idle"

\* A call has a handle from its Prepare on, an uninject that of its token
Calls ==
    \A th \in Thread :
        /\ ~Busy(th) => mine[th] = NoHandle
        /\ Busy(th) => req[th] \in Request
        /\ pc[th] = "prepare" => req[th].op = "inject" /\ mine[th] = NoHandle
        /\ pc[th] \in {"unprotect", "write", "reprotect"} => mine[th] \in Handle
        /\ Busy(th) /\ req[th].op = "inject" => token[req[th].token] = NoHandle
        /\ Busy(th) /\ req[th].op = "uninject" =>
              mine[th] \in Handle /\ token[req[th].token] = mine[th]

\* A handle in use is allocated, and made for the target of the call
Allocated ==
    /\ \A k \in Token : token[k] # NoHandle => handle[token[k]] \in HandleRec
    /\ \A th \in Thread : mine[th] # NoHandle =>
          handle[mine[th]] \in HandleRec /\ handle[mine[th]].target = req[th].target

\* No two tokens have one handle, no call makes a handle some token has
Owners ==
    /\ \A k, l \in Token : k # l /\ token[k] # NoHandle => token[k] # token[l]
    /\ \A th \in Thread : Busy(th) /\ req[th].op = "inject" /\ mine[th] # NoHandle =>
          \A k \in Token : token[k] # mine[th]
    /\ \A th, u \in Thread : th # u /\ mine[th] # NoHandle => mine[th] # mine[u]

\* What MayCall keeps between the calls in flight
Apart ==
    \A th, u \in Thread : th # u /\ Busy(th) /\ Busy(u) =>
        /\ req[th].token # req[u].token
        /\ req[th].target # req[u].target
        /\ Serial = "page" => ~SharePage(req[th].target, req[u].target)

IInv == TypeOK /\ Calls /\ Allocated /\ Owners /\ Apart

LEMMA InitIInv == Init => IInv
<1> SUFFICES ASSUME Init PROVE IInv  OBVIOUS
<1> USE InlineAssumption, ImageTypes
<1>1. TypeOK  BY DEF Init, TypeOK
<1>2. Calls  BY DEF Init, Calls, Busy
<1>3. Allocated  BY DEF Init, Allocated
<1>4. Owners  BY DEF Init, Owners, Busy
<1>5. Apart  BY DEF Init, Apart, Busy
<1> QED  BY <1>1, <1>2, <1>3, <1>4, <1>5 DEF IInv

LEMMA BeginInjectStep ==
    ASSUME IInv, NEW th \in Thread, NEW k \in Token, NEW t \in Target, NEW d \in Detour,
           BeginInject(th, k, t, d)
    PROVE  IInv'
<1> USE DEF IInv, BeginInject
<1>1. TypeOK'  BY DEF TypeOK, Request
<1>2. Calls'  BY DEF Calls, Busy, TypeOK, Request
<1>3. Allocated'  BY DEF Allocated, Calls, Busy, TypeOK
<1>4. Owners'  BY DEF Owners, Calls, Busy, TypeOK
<1>5. Apart'  BY DEF Apart, MayCall, InFlight, Busy, SharePage, TypeOK
<1> QED  BY <1>1, <1>2, <1>3, <1>4, <1>5

LEMMA BeginUninjectStep ==
    ASSUME IInv, NEW th \in Thread, NEW k \in Token, BeginUninject(th, k)
    PROVE  IInv'
<1> USE DEF IInv
<1> DEFINE h == token[k]
           t == handle[h].target
           d == handle[h].detour
           r == [op |-> "uninject", token |-> k, target |-> t, detour |-> d]
<1>1. /\ pc[th] = "idle" /\ h \in Handle /\ h # NoHandle /\ MayCall(k, t)
      /\ mine' = [mine EXCEPT ![th] = h] /\ req' = [req EXCEPT ![th] = r]
      /\ pc' = [pc EXCEPT ![th] = "unprotect"]
      /\ UNCHANGED <<code, prot, handle, token, nest>>
  BY DEF BeginUninject, TypeOK
<1>2. handle[h] \in HandleRec /\ t \in Target /\ d \in Detour
  BY <1>1 DEF Allocated, HandleRec
<1> HIDE DEF h, t, d
<1>3. TypeOK'  BY <1>1, <1>2 DEF TypeOK, Request
<1>4. Calls'  BY <1>1, <1>2 DEF Calls, Busy, TypeOK, Request, h
<1>5. Allocated'  BY <1>1, <1>2 DEF Allocated, Calls, Busy, TypeOK, t
<1>6. Owners'
  <2>1. \A u \in Thread : u # th /\ mine[u] # NoHandle => mine[u] # h
    <3> SUFFICES ASSUME NEW u \in Thread, u # th, mine[u] # NoHandle, mine[u] = h
                 PROVE  FALSE
      OBVIOUS
    <3>1. Busy(u) /\ req[u] \in Request  BY DEF Calls
    <3>2. u \in InFlight  BY <3>1 DEF InFlight, Busy
    <3>3. req[u].token # k  BY <3>2, <1>1 DEF MayCall
    <3>4. CASE req[u].op = "inject"  BY <3>1, <3>4 DEF Owners, h
    <3>5. CASE req[u].op = "uninject"
      <4>1. token[req[u].token] = token[k]  BY <3>1, <3>5 DEF Calls, h
      <4> QED  BY <4>1, <3>1, <3>3, <1>1 DEF Owners, Request, h
    <3> QED  BY <3>1, <3>4, <3>5 DEF Request
  <2> QED  BY <1>1, <2>1 DEF Owners, Calls, Busy, TypeOK
<1>7. Apart'  BY <1>1 DEF Apart, MayCall, InFlight, Busy, SharePage, TypeOK
<1> QED  BY <1>3, <1>4, <1>5, <1>6, <1>7

LEMMA PrepareStep ==
    ASSUME IInv, NEW th \in Thread, Prepare(th)
    PROVE  IInv'
<1> USE DEF IInv
<1> DEFINE t == req[th].target
           d == req[th].detour
           rec == NewHandle(t, d)
<1>1. PICK h \in Handle :
         /\ handle[h] = Free
         /\ handle' = [handle EXCEPT ![h] = rec]
         /\ mine' = [mine EXCEPT ![th] = h]
  BY DEF Prepare
<1>2. /\ pc[th] = "prepare" /\ pc' = [pc EXCEPT ![th] = "unprotect"]
      /\ UNCHANGED <<code, prot, token, req, nest>>
  BY DEF Prepare
<1>3. /\ t \in Target /\ d \in Detour /\ req[th] \in Request
      /\ req[th].op = "inject" /\ mine[th] = NoHandle
  BY <1>2 DEF Calls, Busy, Request
<1>4. rec \in HandleRec /\ rec.target = t
  <2>1. RedirectSize[t][d] \in {2, 5, 14}  BY <1>3, InlineAssumption
  <2>2. code[t] \in Image  BY <1>3 DEF TypeOK
  <2>3. Backup(code[t], RedirectSize[t][d]) \in Image
    BY <2>2, ImageTypes, OverwriteType DEF Backup
  <2> QED  BY <1>3, <2>1, <2>2, <2>3 DEF NewHandle, HandleRec
<1>5. h # NoHandle /\ Free \notin HandleRec  BY InlineAssumption
<1> HIDE DEF t, d, rec
<1>6. TypeOK'  BY <1>1, <1>2, <1>4 DEF TypeOK
<1>7. Calls'  BY <1>1, <1>2, <1>3, <1>5 DEF Calls, Busy, TypeOK
<1>8. Allocated'  BY <1>1, <1>2, <1>4, <1>5 DEF Allocated, TypeOK, t
<1>9. Owners'
  <2>1. \A k \in Token : token[k] # h  BY <1>1, <1>5 DEF Allocated
  <2>2. \A u \in Thread : mine[u] # h  BY <1>1, <1>5 DEF Allocated
  <2> QED  BY <1>1, <1>2, <2>1, <2>2 DEF Owners, Busy, TypeOK
<1>10. Apart'  BY <1>2 DEF Apart, Busy, SharePage, TypeOK
<1> QED  BY <1>6, <1>7, <1>8, <1>9, <1>10

\* Steps of a call that change neither who owns what nor which calls are in
\* flight leave four of the five parts alone.
LEMMA QuietStep ==
    ASSUME IInv, NEW th \in Thread, NEW step \in {"write", "reprotect", "return"},
           pc[th] \in {"unprotect", "write", "reprotect"} \/
              (pc[th] = "prepare" /\ step = "return"),
           pc' = [pc EXCEPT ![th] = step],
           UNCHANGED <<handle, token, req, mine>>
    PROVE  Calls' /\ Allocated' /\ Owners' /\ Apart'
<1> USE DEF IInv
<1>1. Busy(th) /\ \A u \in Thread : Busy(u)' <=> Busy(u)  BY DEF Busy, TypeOK
<1>2. Calls'  BY <1>1 DEF Calls, Busy, TypeOK
<1>3. Allocated'  BY DEF Allocated
<1>4. Owners'  BY <1>1 DEF Owners
<1>5. Apart'  BY <1>1 DEF Apart, SharePage
<1> QED  BY <1>2, <1>3, <1>4, <1>5

LEMMA ProtectType ==
    ASSUME TypeOK, NEW th \in Thread, NEW mode \in {"RX", "RWX"}, Protect(th, mode)
    PROVE  prot' \in [AllPages -> {"RX", "RWX"}]
  BY DEF TypeOK, Protect

LEMMA QuietSteps ==
    ASSUME IInv, NEW th \in Thread,
           \/ PrepareFails(th) \/ Unprotect(th) \/ DoInject(th) \/ UndoInject(th)
           \/ Reprotect(th) \/ ReprotectFails(th)
    PROVE  IInv'
<1> USE DEF IInv
<1>1. CASE PrepareFails(th)
  <2>1. TypeOK'  BY <1>1 DEF PrepareFails, TypeOK
  <2>2. Calls' /\ Allocated' /\ Owners' /\ Apart'  BY <1>1, QuietStep DEF PrepareFails
  <2> QED  BY <2>1, <2>2
<1>2. CASE Unprotect(th)
  <2>1. TypeOK'  BY <1>2, ProtectType DEF Unprotect, TypeOK
  <2>2. Calls' /\ Allocated' /\ Owners' /\ Apart'  BY <1>2, QuietStep DEF Unprotect
  <2> QED  BY <2>1, <2>2
<1>3. CASE Reprotect(th)
  <2>1. TypeOK'  BY <1>3, ProtectType DEF Reprotect, TypeOK
  <2>2. Calls' /\ Allocated' /\ Owners' /\ Apart'  BY <1>3, QuietStep DEF Reprotect
  <2> QED  BY <2>1, <2>2
<1>4. CASE ReprotectFails(th)
  <2>1. TypeOK'  BY <1>4 DEF ReprotectFails, TypeOK
  <2>2. Calls' /\ Allocated' /\ Owners' /\ Apart'  BY <1>4, QuietStep DEF ReprotectFails
  <2> QED  BY <2>1, <2>2
<1> DEFINE h == mine[th]
           rec == handle[h]
           t == rec.target
<1>5. pc[th] = "write" => h \in Handle /\ rec \in HandleRec /\ t \in Target
  BY InlineAssumption DEF Calls, Allocated, HandleRec
<1>6. CASE DoInject(th)
  <2> DEFINE new == Overwrite(code[t], JumpTo(rec.detour), rec.size)
             e == [h |-> h, under |-> code[t]]
  <2>1. /\ pc[th] = "write" /\ code' = [code EXCEPT ![t] = new]
        /\ nest' = [nest EXCEPT ![t] = Append(nest[t], e)]
        /\ pc' = [pc EXCEPT ![th] = "reprotect"]
        /\ UNCHANGED <<prot, handle, token, req, mine>>
    BY <1>6, <1>5 DEF DoInject, TypeOK
  <2>2. code[t] \in Image /\ nest[t] \in Seq(Hooked)  BY <1>5, <2>1 DEF TypeOK
  <2>3. new \in Image
    <3>1. rec.detour \in Detour  BY <1>5, <2>1 DEF HandleRec
    <3> QED  BY <2>2, <3>1, ImageTypes, OverwriteType
  <2>4. Append(nest[t], e) \in Seq(Hooked)
    <3>1. e \in Hooked  BY <1>5, <2>1, <2>2 DEF Hooked
    <3> QED  BY <2>2, <3>1
  <2> HIDE DEF new, e, h, rec, t
  <2>5. TypeOK'  BY <2>1, <2>3, <2>4 DEF TypeOK
  <2>6. Calls' /\ Allocated' /\ Owners' /\ Apart'  BY <2>1, QuietStep
  <2> QED  BY <2>5, <2>6
<1>7. CASE UndoInject(th)
  <2> DEFINE new == Undo(code[t], rec)
  <2>1. /\ pc[th] = "write" /\ code' = [code EXCEPT ![t] = new]
        /\ nest' = [nest EXCEPT ![t] = Without(nest[t], h)]
        /\ pc' = [pc EXCEPT ![th] = "reprotect"]
        /\ UNCHANGED <<prot, handle, token, req, mine>>
    BY <1>7, <1>5 DEF UndoInject, TypeOK
  <2>2. code[t] \in Image /\ nest[t] \in Seq(Hooked)  BY <1>5, <2>1 DEF TypeOK
  <2>3. new \in Image
    <3>1. rec.backup \in Image  BY <1>5, <2>1 DEF HandleRec
    <3> QED  BY <2>2, <3>1, OverwriteType DEF Undo
  <2>4. Without(nest[t], h) \in Seq(Hooked)  BY <2>2, WithoutType
  <2> HIDE DEF new, h, rec, t
  <2>5. TypeOK'  BY <2>1, <2>3, <2>4 DEF TypeOK
  <2>6. Calls' /\ Allocated' /\ Owners' /\ Apart'  BY <2>1, QuietStep
  <2> QED  BY <2>5, <2>6
<1> QED  BY <1>1, <1>2, <1>3, <1>4, <1>6, <1>7

LEMMA UnprotectFailsStep ==
    ASSUME IInv, NEW th \in Thread, UnprotectFails(th)
    PROVE  IInv'
<1> USE DEF IInv
<1> DEFINE h == mine[th]
           t == req[th].target
<1>1. /\ pc[th] = "unprotect" /\ h \in Handle /\ h # NoHandle
      /\ req[th] \in Request /\ t \in Target /\ Busy(th)
  BY InlineAssumption DEF UnprotectFails, Calls, Busy, Request
<1>2. CASE req[th].op = "inject" /\ DropHandle(th) /\ UNCHANGED nest
  <2>1. /\ handle' = [handle EXCEPT ![h] = Free] /\ mine' = [mine EXCEPT ![th] = NoHandle]
        /\ pc' = [pc EXCEPT ![th] = "return"]
        /\ UNCHANGED <<code, prot, token, req, nest>>
    BY <1>2 DEF UnprotectFails, DropHandle
  <2>2. \A k \in Token : token[k] # h  BY <1>1, <1>2 DEF Owners
  <2>3. \A u \in Thread : u # th => mine[u] # h  BY <1>1 DEF Owners
  <2> HIDE DEF h
  <2>4. TypeOK'  BY <2>1 DEF TypeOK
  <2>5. Calls'  BY <1>1, <1>2, <2>1 DEF Calls, Busy, TypeOK
  <2>6. Allocated'
    <3>1. \A k \in Token : token[k] # NoHandle => handle'[token[k]] = handle[token[k]]
      BY <2>1, <2>2 DEF TypeOK
    <3>2. \A u \in Thread : mine'[u] # NoHandle =>
             u # th /\ mine'[u] = mine[u] /\ handle'[mine[u]] = handle[mine[u]]
      BY <2>1, <2>3 DEF TypeOK
    <3> QED  BY <2>1, <3>1, <3>2 DEF Allocated
  <2>7. Owners'  BY <1>1, <2>1 DEF Owners, Busy, TypeOK
  <2>8. Apart'  BY <1>1, <2>1 DEF Apart, Busy, SharePage, TypeOK
  <2> QED  BY <2>4, <2>5, <2>6, <2>7, <2>8
<1>3. CASE req[th].op = "uninject" /\ UNCHANGED <<handle, mine>>
           /\ nest' = [nest EXCEPT ![t] = Without(@, h)]
           /\ pc' = [pc EXCEPT ![th] = "return"]
  <2>1. UNCHANGED <<code, prot, token, req, handle, mine>>  BY <1>3 DEF UnprotectFails
  <2>2. Without(nest[t], h) \in Seq(Hooked)  BY <1>1, WithoutType DEF TypeOK
  <2>3. TypeOK'  BY <1>1, <1>3, <2>1, <2>2 DEF TypeOK
  <2>4. Calls' /\ Allocated' /\ Owners' /\ Apart'  BY <1>1, <1>3, <2>1, QuietStep
  <2> QED  BY <2>3, <2>4
<1> QED  BY <1>2, <1>3 DEF UnprotectFails

LEMMA ReturnInjectStep ==
    ASSUME IInv, NEW th \in Thread, ReturnInject(th)
    PROVE  IInv'
<1> USE DEF IInv
<1> DEFINE h == mine[th]
           k == req[th].token
<1>1. /\ pc[th] = "return" /\ Busy(th) /\ req[th].op = "inject" /\ k \in Token
      /\ token' = IF h = NoHandle THEN token ELSE [token EXCEPT ![k] = h]
      /\ pc' = [pc EXCEPT ![th] = "idle"]
      /\ req' = [req EXCEPT ![th] = NoRequest]
      /\ mine' = [mine EXCEPT ![th] = NoHandle]
      /\ UNCHANGED <<code, prot, handle, nest>>
  BY DEF ReturnInject, EndCall, Calls, Busy, Request
<1>2. h # NoHandle => handle[h] \in HandleRec /\ \A l \in Token : token[l] # h
  BY <1>1 DEF Allocated, Owners
<1>3. \A u \in Thread : u # th /\ Busy(u) => req[u].token # k
  BY <1>1 DEF Apart
<1>4. h \in Handle \cup {NoHandle} /\ token[k] = NoHandle
  BY <1>1 DEF TypeOK, Calls
<1>5. \A u \in Thread : u # th /\ h # NoHandle => mine[u] # h  BY DEF Owners
<1> HIDE DEF h, k
<1>6. TypeOK'  BY <1>1, <1>4 DEF TypeOK
<1>7. Calls'
  <2>1. \A u \in Thread : Busy(u)' <=> u # th /\ Busy(u)  BY <1>1 DEF Busy, TypeOK
  <2>2. \A u \in Thread : u # th =>
           pc'[u] = pc[u] /\ mine'[u] = mine[u] /\ req'[u] = req[u]
    BY <1>1 DEF TypeOK
  <2>3. \A u \in Thread : u # th /\ Busy(u) =>
           req[u].token \in Token /\ token'[req[u].token] = token[req[u].token]
    BY <1>1, <1>3 DEF TypeOK, Calls, Request
  <2>4. mine'[th] = NoHandle /\ pc'[th] = "idle"  BY <1>1 DEF TypeOK
  <2> QED  BY <2>1, <2>2, <2>3, <2>4 DEF Calls
<1>8. Allocated'  BY <1>1, <1>2 DEF Allocated, TypeOK
<1>9. Owners'  BY <1>1, <1>2, <1>5 DEF Owners, Busy, TypeOK
<1>10. Apart'  BY <1>1 DEF Apart, Busy, SharePage, TypeOK
<1> QED  BY <1>6, <1>7, <1>8, <1>9, <1>10

LEMMA ReturnUninjectStep ==
    ASSUME IInv, NEW th \in Thread, ReturnUninject(th)
    PROVE  IInv'
<1> USE DEF IInv
<1> DEFINE h == mine[th]
           k == req[th].token
<1>1. /\ pc[th] = "return" /\ Busy(th) /\ req[th].op = "uninject" /\ k \in Token
      /\ h \in Handle /\ token[k] = h /\ h # NoHandle
      /\ handle' = [handle EXCEPT ![h] = Free]
      /\ token' = [token EXCEPT ![k] = NoHandle]
      /\ pc' = [pc EXCEPT ![th] = "idle"]
      /\ req' = [req EXCEPT ![th] = NoRequest]
      /\ mine' = [mine EXCEPT ![th] = NoHandle]
      /\ UNCHANGED <<code, prot, nest>>
  BY InlineAssumption DEF ReturnUninject, EndCall, Calls, Busy, Request
<1>2. \A l \in Token : l # k => token[l] # h  BY <1>1 DEF Owners
<1>3. \A u \in Thread : u # th => mine[u] # h  BY <1>1 DEF Owners
<1>4. \A u \in Thread : u # th /\ Busy(u) => req[u].token # k
  BY <1>1 DEF Apart
<1> HIDE DEF h, k
<1>5. TypeOK'  BY <1>1 DEF TypeOK
<1>6. Calls'
  <2>1. \A u \in Thread : Busy(u)' <=> u # th /\ Busy(u)  BY <1>1 DEF Busy, TypeOK
  <2>2. \A u \in Thread : u # th =>
           pc'[u] = pc[u] /\ mine'[u] = mine[u] /\ req'[u] = req[u]
    BY <1>1 DEF TypeOK
  <2>3. \A u \in Thread : u # th /\ Busy(u) =>
           req[u].token \in Token /\ token'[req[u].token] = token[req[u].token]
    BY <1>1, <1>4 DEF TypeOK, Calls, Request
  <2>4. mine'[th] = NoHandle /\ pc'[th] = "idle"  BY <1>1 DEF TypeOK
  <2> QED  BY <2>1, <2>2, <2>3, <2>4 DEF Calls
<1>7. Allocated'
  <2>1. \A l \in Token : token'[l] # NoHandle =>
           token'[l] = token[l] /\ handle'[token[l]] = handle[token[l]]
    BY <1>1, <1>2 DEF TypeOK
  <2>2. \A u \in Thread : mine'[u] # NoHandle =>
           /\ mine'[u] = mine[u] /\ handle'[mine[u]] = handle[mine[u]]
           /\ req'[u] = req[u]
    BY <1>1, <1>3 DEF TypeOK
  <2> QED  BY <2>1, <2>2 DEF Allocated
<1>8. Owners'  BY <1>1 DEF Owners, Busy, TypeOK
<1>9. Apart'  BY <1>1 DEF Apart, Busy, SharePage, TypeOK
<1> QED  BY <1>5, <1>6, <1>7, <1>8, <1>9

LEMMA NextIInv == IInv /\ [Next]_vars => IInv'
<1> SUFFICES ASSUME IInv, [Next]_vars PROVE IInv'  OBVIOUS
<1>1. CASE UNCHANGED vars
  <2>1. TypeOK'  BY <1>1 DEF vars, IInv, TypeOK
  <2>2. Calls' /\ Allocated'  BY <1>1 DEF vars, IInv, Calls, Busy, Allocated
  <2>3. Owners' /\ Apart'  BY <1>1 DEF vars, IInv, Owners, Apart, Busy, SharePage
  <2> QED  BY <2>1, <2>2, <2>3 DEF IInv
<1>2. ASSUME NEW th \in Thread, Begin(th) PROVE IInv'
  BY <1>2, BeginInjectStep, BeginUninjectStep DEF Begin
<1>3. ASSUME NEW th \in Thread, Step(th) PROVE IInv'
  BY <1>3, PrepareStep, QuietSteps, UnprotectFailsStep, ReturnInjectStep,
     ReturnUninjectStep DEF Step
<1> QED  BY <1>1, <1>2, <1>3 DEF Next

THEOREM InlineInvariant == Spec => []IInv
  BY InitIInv, NextIInv, PTL DEF Spec

\* The variables of all calls keep their types.
THEOREM InlineTypes == Spec => []TypeOK
<1>1. IInv => TypeOK  BY DEF IInv
<1> QED  BY <1>1, InlineInvariant, PTL

----------------------------------------------------------------------------
(* The callback writes to writable pages *)

\* A step of th leaves the handle of every other call as it is.
LEMMA OthersKeep ==
    ASSUME IInv, NEW th \in Thread, NEW u \in Thread, u # th, mine[u] # NoHandle,
           Begin(th) \/ Step(th)
    PROVE  /\ mine'[u] = mine[u] /\ pc'[u] = pc[u] /\ req'[u] = req[u]
           /\ handle'[mine[u]] = handle[mine[u]]
<1> USE DEF IInv
<1>1. mine[u] \in Handle /\ handle[mine[u]] # Free /\ mine[u] # mine[th]
  BY InlineAssumption DEF TypeOK, Allocated, Owners
<1>2. CASE Begin(th)
  BY <1>1, <1>2 DEF Begin, BeginInject, BeginUninject, TypeOK
<1>3. CASE Prepare(th)
  BY <1>1, <1>3 DEF Prepare, TypeOK
<1>4. CASE UnprotectFails(th)
  BY <1>1, <1>4 DEF UnprotectFails, DropHandle, TypeOK
<1>5. CASE ReturnInject(th) \/ ReturnUninject(th)
  BY <1>1, <1>5 DEF ReturnInject, ReturnUninject, EndCall, TypeOK
<1>6. CASE PrepareFails(th) \/ Unprotect(th) \/ Reprotect(th) \/ ReprotectFails(th)
  BY <1>6 DEF PrepareFails, Unprotect, Reprotect, ReprotectFails, TypeOK
<1>7. CASE DoInject(th) \/ UndoInject(th)
  BY <1>7 DEF DoInject, UndoInject, TypeOK
<1> QED  BY <1>2, <1>3, <1>4, <1>5, <1>6, <1>7 DEF Step

\* A step of th leaves the pages of every other call as they are, or makes them
\* writable.
LEMMA OthersWritable ==
    ASSUME IInv, Serial = "page", NEW th \in Thread, Begin(th) \/ Step(th),
           NEW u \in Thread, u # th, pc[u] = "write",
           NEW p \in TargetPages(req[u].target), prot[p] = "RWX"
    PROVE  prot'[p] = "RWX"
<1> USE DEF IInv
<1>1. Busy(u) /\ req[u] \in Request /\ p \in AllPages
  BY DEF Busy, Calls, Request, AllPages
<1>2. CASE Unprotect(th)
  BY <1>1, <1>2 DEF Unprotect, Protect
<1>3. CASE Reprotect(th)
  <2>1. Busy(th) /\ mine[th] \in Handle /\ mine[th] # NoHandle
    BY <1>3, InlineAssumption DEF Reprotect, Busy, Calls
  <2>2. handle[mine[th]] \in HandleRec /\ handle[mine[th]].target = req[th].target
    BY <2>1 DEF Allocated
  <2>3. Region(th) \subseteq TargetPages(req[th].target)
    BY <2>2, RegionPages DEF Region
  <2>4. ~SharePage(req[th].target, req[u].target)  BY <1>1, <2>1 DEF Apart
  <2>5. p \notin Region(th)  BY <2>3, <2>4 DEF SharePage
  <2> QED  BY <1>1, <1>3, <2>5 DEF Reprotect, Protect
<1>4. CASE ~(Unprotect(th) \/ Reprotect(th))
  BY <1>4 DEF Step, Begin, BeginInject, BeginUninject, Prepare, PrepareFails,
     UnprotectFails, DoInject, UndoInject, ReprotectFails, ReturnInject,
     ReturnUninject, EndCall
<1> QED  BY <1>2, <1>3, <1>4

LEMMA CallbackStep ==
    ASSUME Serial = "page", IInv, CallbackWritable, [Next]_vars
    PROVE  CallbackWritable'
<1> USE DEF IInv
<1>1. CASE UNCHANGED vars
  BY <1>1 DEF vars, CallbackWritable, Writable
<1>2. ASSUME NEW th \in Thread, Begin(th) \/ Step(th)  PROVE CallbackWritable'
  <2> SUFFICES ASSUME NEW u \in Thread, pc'[u] = "write"  PROVE Writable(u)'
    BY DEF CallbackWritable
  <2>1. CASE u # th
    <3>1. pc[u] = "write"
      BY <1>2, <2>1 DEF Step, Begin, BeginInject, BeginUninject, Prepare, PrepareFails,
         Unprotect, UnprotectFails, DropHandle, DoInject, UndoInject, Reprotect,
         ReprotectFails, ReturnInject, ReturnUninject, EndCall, TypeOK
    <3>2. mine[u] \in Handle /\ mine[u] # NoHandle
      BY <3>1, InlineAssumption DEF Calls
    <3> DEFINE rec == handle[mine[u]]
    <3>3. rec \in HandleRec /\ rec.target = req[u].target  BY <3>2 DEF Allocated
    <3>4. \A o \in 0 .. rec.size - 1 :
             /\ PageOf(Addr[rec.target] + o) \in TargetPages(req[u].target)
             /\ prot[PageOf(Addr[rec.target] + o)] = "RWX"
      <4>1. Writable(u)  BY <3>1 DEF CallbackWritable
      <4> QED  BY <3>3, <4>1, RegionPages DEF Writable
    <3>5. \A o \in 0 .. rec.size - 1 : prot'[PageOf(Addr[rec.target] + o)] = "RWX"
      BY <1>2, <2>1, <3>1, <3>4, OthersWritable
    <3>6. mine'[u] = mine[u] /\ handle'[mine[u]] = rec
      BY <1>2, <2>1, <3>2, OthersKeep
    <3> QED  BY <3>5, <3>6 DEF Writable
  <2>2. CASE u = th
    <3>1. Unprotect(th)
      BY <1>2, <2>2 DEF Step, Begin, BeginInject, BeginUninject, Prepare, PrepareFails,
         Unprotect, UnprotectFails, DropHandle, DoInject, UndoInject, Reprotect,
         ReprotectFails, ReturnInject, ReturnUninject, EndCall, TypeOK
    <3>2. mine[th] \in Handle /\ mine[th] # NoHandle
      BY <3>1, InlineAssumption DEF Unprotect, Calls
    <3> DEFINE rec == handle[mine[th]]
    <3>3. rec \in HandleRec  BY <3>2 DEF Allocated
    <3>4. \A o \in 0 .. rec.size - 1 :
             /\ PageOf(Addr[rec.target] + o) \in Region(th)
             /\ PageOf(Addr[rec.target] + o) \in AllPages
      <4>1. rec.target \in Target  BY <3>3 DEF HandleRec
      <4>2. TargetPages(rec.target) \subseteq AllPages  BY <4>1 DEF AllPages
      <4> QED  BY <3>3, <4>2, RegionPages DEF Region
    <3>5. mine' = mine /\ handle' = handle
          /\ prot' = [p \in AllPages |-> IF p \in Region(th) THEN "RWX" ELSE prot[p]]
      BY <3>1 DEF Unprotect, Protect
    <3> QED  BY <2>2, <3>4, <3>5 DEF Writable
  <2> QED  BY <2>1, <2>2
<1> QED  BY <1>1, <1>2 DEF Next

\* If no two calls in flight share a page of code, the callback of
\* _system_modify_opcode finds every byte it writes writable: no fault of the
\* hooking thread, wherever targets lie and however the threads interleave.
THEOREM InlineCallbackWritable ==
    ASSUME Serial = "page"
    PROVE  Spec => []CallbackWritable
<1>1. Init => CallbackWritable  BY DEF Init, CallbackWritable
<1>2. IInv /\ CallbackWritable /\ [Next]_vars => CallbackWritable'  BY CallbackStep
<1> QED  BY <1>1, <1>2, InlineInvariant, PTL DEF Spec

----------------------------------------------------------------------------
(* Nothing leaks *)

\* Whoever looks for an allocated handle finds it in a token or in an inject.
Owned ==
    \A h \in Handle : handle[h] # Free =>
        \/ \E k \in Token : token[k] = h
        \/ \E th \in Thread : Busy(th) /\ req[th].op = "inject" /\ mine[th] = h

LEMMA OwnedStep ==
    ASSUME IInv, Owned, NEW th \in Thread, Begin(th) \/ Step(th)
    PROVE  Owned'
<1>1. TypeOK /\ Calls /\ Owners  BY DEF IInv
<1> SUFFICES ASSUME NEW h \in Handle, handle'[h] # Free
             PROVE  \/ \E k \in Token : token'[k] = h
                    \/ \E u \in Thread : Busy(u)' /\ req'[u].op = "inject" /\ mine'[u] = h
  BY DEF Owned
<1>2. h # NoHandle  BY InlineAssumption
<1>3. CASE Begin(th)
  <2>1. handle' = handle /\ token' = token /\ ~Busy(th)
    BY <1>3 DEF Begin, BeginInject, BeginUninject, Busy
  <2>2. \A u \in Thread : Busy(u) => Busy(u)' /\ req'[u] = req[u] /\ mine'[u] = mine[u]
    BY <1>1, <1>3, <2>1 DEF Begin, BeginInject, BeginUninject, Busy, TypeOK
  <2> QED  BY <2>1, <2>2 DEF Owned
<1>4. CASE Prepare(th)
  <2>1. PICK g \in Handle : /\ handle' = [handle EXCEPT ![g] = NewHandle(req[th].target, req[th].detour)]
                            /\ mine' = [mine EXCEPT ![th] = g]
    BY <1>4 DEF Prepare
  <2>2. /\ Busy(th) /\ req[th].op = "inject" /\ mine[th] = NoHandle
        /\ UNCHANGED <<token, req>> /\ pc' = [pc EXCEPT ![th] = "unprotect"]
    BY <1>1, <1>4 DEF Prepare, Calls, Busy
  <2>3. \A u \in Thread : Busy(u) => Busy(u)'  BY <1>1, <2>2 DEF Busy, TypeOK
  <2>4. CASE h = g
    <3>1. mine'[th] = h /\ Busy(th)'  BY <1>1, <2>1, <2>2, <2>4 DEF TypeOK, Busy
    <3> QED  BY <2>2, <3>1
  <2>5. CASE h # g
    <3>1. handle[h] # Free  BY <1>1, <2>1, <2>5 DEF TypeOK
    <3>2. \A u \in Thread : mine[u] = h => mine'[u] = h  BY <1>1, <1>2, <2>1, <2>2 DEF TypeOK
    <3> QED  BY <2>2, <2>3, <3>1, <3>2 DEF Owned
  <2> QED  BY <2>4, <2>5
<1>5. CASE \/ PrepareFails(th) \/ Unprotect(th) \/ DoInject(th) \/ UndoInject(th)
           \/ Reprotect(th) \/ ReprotectFails(th)
  <2>1. UNCHANGED <<handle, token, req, mine>>
    BY <1>5 DEF PrepareFails, Unprotect, DoInject, UndoInject, Reprotect, ReprotectFails
  <2>2. \A u \in Thread : Busy(u) => Busy(u)'
    BY <1>1, <1>5 DEF PrepareFails, Unprotect, DoInject, UndoInject, Reprotect,
       ReprotectFails, Busy, TypeOK
  <2> QED  BY <2>1, <2>2 DEF Owned
<1>6. CASE UnprotectFails(th)
  <2>1. /\ UNCHANGED <<token, req>> /\ Busy(th)
        /\ pc' = [pc EXCEPT ![th] = "return"]
        /\ \/ handle' = [handle EXCEPT ![mine[th]] = Free] /\ mine' = [mine EXCEPT ![th] = NoHandle]
           \/ UNCHANGED <<handle, mine>>
    BY <1>6 DEF UnprotectFails, DropHandle, Busy
  <2>2. \A u \in Thread : Busy(u) => Busy(u)'  BY <1>1, <2>1 DEF Busy, TypeOK
  <2>3. handle[h] # Free /\ \A u \in Thread : mine[u] = h => mine'[u] = h
    BY <1>1, <2>1 DEF TypeOK
  <2> QED  BY <2>1, <2>2, <2>3 DEF Owned
<1>7. CASE ReturnInject(th)
  <2> DEFINE k == req[th].token
  <2>1. /\ k \in Token /\ token[k] = NoHandle /\ handle' = handle
        /\ token' = IF mine[th] = NoHandle THEN token ELSE [token EXCEPT ![k] = mine[th]]
        /\ pc' = [pc EXCEPT ![th] = "idle"] /\ mine' = [mine EXCEPT ![th] = NoHandle]
        /\ req' = [req EXCEPT ![th] = NoRequest]
    BY <1>1, <1>7 DEF ReturnInject, EndCall, Calls, Busy, Request
  <2> HIDE DEF k
  <2>2. \A l \in Token : token[l] = h => token'[l] = h  BY <1>1, <1>2, <2>1 DEF TypeOK
  <2>3. mine[th] = h => token'[k] = h  BY <1>1, <1>2, <2>1 DEF TypeOK
  <2>4. \A u \in Thread : u # th /\ Busy(u) =>
           Busy(u)' /\ req'[u] = req[u] /\ mine'[u] = mine[u]
    BY <1>1, <2>1 DEF Busy, TypeOK
  <2> QED  BY <2>1, <2>2, <2>3, <2>4 DEF Owned
<1>8. CASE ReturnUninject(th)
  <2> DEFINE k == req[th].token
  <2>1. /\ k \in Token /\ token[k] = mine[th] /\ req[th].op = "uninject"
        /\ handle' = [handle EXCEPT ![mine[th]] = Free]
        /\ token' = [token EXCEPT ![k] = NoHandle]
        /\ pc' = [pc EXCEPT ![th] = "idle"] /\ mine' = [mine EXCEPT ![th] = NoHandle]
        /\ req' = [req EXCEPT ![th] = NoRequest]
    BY <1>1, <1>8 DEF ReturnUninject, EndCall, Calls, Busy, Request
  <2> HIDE DEF k
  <2>2. h # mine[th] /\ handle[h] # Free  BY <1>1, <2>1 DEF TypeOK
  <2>3. \A l \in Token : token[l] = h => token'[l] = h  BY <1>1, <2>1, <2>2 DEF TypeOK
  <2>4. \A u \in Thread : u # th /\ Busy(u) =>
           Busy(u)' /\ req'[u] = req[u] /\ mine'[u] = mine[u]
    BY <1>1, <2>1 DEF Busy, TypeOK
  <2> QED  BY <2>1, <2>2, <2>3, <2>4 DEF Owned
<1> QED  BY <1>3, <1>4, <1>5, <1>6, <1>7, <1>8 DEF Step

\* A set without two different elements is empty or has one.
LEMMA AtMostOne ==
    ASSUME NEW S, \A x, y \in S : x = y
    PROVE  IF S = {} THEN Cardinality(S) = 0 ELSE Cardinality(S) = 1
<1>1. CASE S = {}  BY <1>1, FS_EmptySet
<1>2. CASE S # {}
  <2>1. PICK x \in S : S = {x}  BY <1>2
  <2> QED  BY <1>2, <2>1, FS_Singleton
<1> QED  BY <1>1, <1>2

\* Every handle has one owner and no owner has a handle that was freed, whichever
\* steps fail and in whatever order hooks come off.
THEOREM InlineHandlesOwned == Spec => []HandlesOwned
<1>1. Init => Owned  BY DEF Init, Owned
<1>2. IInv /\ Owned /\ [Next]_vars => Owned'
  <2> SUFFICES ASSUME IInv, Owned, [Next]_vars PROVE Owned'  OBVIOUS
  <2>1. CASE UNCHANGED vars  BY <2>1 DEF vars, Owned, Busy
  <2> QED  BY <2>1, OwnedStep DEF Next
<1>3. IInv /\ Owned => HandlesOwned
  <2> SUFFICES ASSUME IInv, Owned, NEW h \in Handle
               PROVE  LET holders == {k \in Token : token[k] = h}
                          making == {th \in InFlight : req[th].op = "inject" /\ mine[th] = h}
                          ending == {th \in InFlight : req[th].op = "uninject" /\ mine[th] = h}
                      IN  /\ Cardinality(holders) + Cardinality(making) =
                                IF handle[h] = Free THEN 0 ELSE 1
                          /\ Cardinality(ending) <= Cardinality(holders)
    BY DEF HandlesOwned
  <2> DEFINE holders == {k \in Token : token[k] = h}
             making == {th \in InFlight : req[th].op = "inject" /\ mine[th] = h}
             ending == {th \in InFlight : req[th].op = "uninject" /\ mine[th] = h}
  <2>1. h # NoHandle  BY InlineAssumption
  <2>2. \A k, l \in holders : k = l  BY <2>1 DEF IInv, Owners
  <2>3. (\A t, u \in making : t = u) /\ (\A t, u \in ending : t = u)
    BY <2>1 DEF IInv, Owners, InFlight
  <2>4. holders = {} \/ making = {}  BY <2>1 DEF IInv, Owners, InFlight, Busy
  <2>5. handle[h] = Free => holders = {} /\ making = {}
    BY <2>1, InlineAssumption DEF IInv, Allocated, InFlight
  <2>6. handle[h] # Free => holders # {} \/ making # {}  BY DEF Owned, InFlight, Busy
  <2>7. ending # {} => holders # {}  BY DEF IInv, Calls, Request, InFlight, Busy
  <2> HIDE DEF holders, making, ending
  <2>8. /\ Cardinality(holders) = IF holders = {} THEN 0 ELSE 1
        /\ Cardinality(making) = IF making = {} THEN 0 ELSE 1
        /\ Cardinality(ending) = IF ending = {} THEN 0 ELSE 1
    BY <2>2, <2>3, AtMostOne
  <2>9. /\ Cardinality(holders) + Cardinality(making) = IF handle[h] = Free THEN 0 ELSE 1
        /\ Cardinality(ending) <= Cardinality(holders)
    BY <2>4, <2>5, <2>6, <2>7, <2>8
  <2> QED  BY <2>9 DEF holders, making, ending
<1> QED  BY <1>1, <1>2, <1>3, InlineInvariant, PTL DEF Spec

----------------------------------------------------------------------------
(* Write protection *)

\* Stronger than WriteProtectedAtRest: the call at work is one that has the page
\* in its region, and so will protect it.
Exposed ==
    \A p \in AllPages : prot[p] = "RWX" =>
        \E th \in Thread : pc[th] \in {"write", "reprotect"} /\ p \in Region(th)

LEMMA ExposedStep ==
    ASSUME "reprotect" \notin InjectFaults \cup UninjectFaults,
           IInv, Exposed, NEW th \in Thread, Begin(th) \/ Step(th)
    PROVE  Exposed'
<1>1. TypeOK /\ Calls  BY DEF IInv
<1> SUFFICES ASSUME NEW p \in AllPages, prot'[p] = "RWX"
             PROVE  \E u \in Thread : pc'[u] \in {"write", "reprotect"} /\ p \in Region(u)'
  BY DEF Exposed
<1>2. ASSUME NEW u \in Thread, u # th, pc[u] \in {"write", "reprotect"}, p \in Region(u)
      PROVE  pc'[u] \in {"write", "reprotect"} /\ p \in Region(u)'
  <2>1. mine[u] # NoHandle  BY <1>1, <1>2, InlineAssumption DEF Calls
  <2>2. pc'[u] = pc[u] /\ mine'[u] = mine[u] /\ handle'[mine[u]] = handle[mine[u]]
    BY <1>2, <2>1, OthersKeep
  <2> QED  BY <1>2, <2>2 DEF Region
<1>3. CASE Unprotect(th)
  <2>1. pc'[th] = "write" /\ Region(th)' = Region(th)
    BY <1>1, <1>3 DEF Unprotect, Region, TypeOK
  <2>2. p \in Region(th) \/ prot[p] = "RWX"  BY <1>3 DEF Unprotect, Protect
  <2>3. pc[th] = "unprotect"  BY <1>3 DEF Unprotect
  <2> QED  BY <1>2, <2>1, <2>2, <2>3 DEF Exposed
<1>4. CASE Reprotect(th)
  <2>1. p \notin Region(th) /\ prot[p] = "RWX"  BY <1>4 DEF Reprotect, Protect
  <2> QED  BY <1>2, <2>1 DEF Exposed
<1>5. CASE DoInject(th) \/ UndoInject(th)
  <2>1. pc'[th] = "reprotect" /\ Region(th)' = Region(th) /\ prot' = prot
    BY <1>1, <1>5 DEF DoInject, UndoInject, Region, TypeOK
  <2> QED  BY <1>2, <2>1 DEF Exposed
<1>6. CASE ReprotectFails(th)
  BY <1>6 DEF ReprotectFails, MayFail
<1>7. CASE ~(Unprotect(th) \/ Reprotect(th) \/ DoInject(th) \/ UndoInject(th) \/ ReprotectFails(th))
  <2>1. prot' = prot /\ pc[th] \notin {"write", "reprotect"}
    BY <1>1, <1>7 DEF Step, Begin, BeginInject, BeginUninject, Prepare, PrepareFails,
       UnprotectFails, DropHandle, ReturnInject, ReturnUninject, EndCall
  <2> QED  BY <1>2, <2>1 DEF Exposed
<1> QED  BY <1>3, <1>4, <1>5, <1>6, <1>7

\* Code is writable only while a call is writing to it, if mprotect always lets
\* it be write-protected again.
THEOREM InlineWriteProtectedAtRest ==
    ASSUME "reprotect" \notin InjectFaults \cup UninjectFaults
    PROVE  Spec => []WriteProtectedAtRest
<1>1. Init => Exposed  BY DEF Init, Exposed
<1>2. IInv /\ Exposed /\ [Next]_vars => Exposed'
  <2> SUFFICES ASSUME IInv, Exposed, [Next]_vars PROVE Exposed'  OBVIOUS
  <2>1. CASE UNCHANGED vars  BY <2>1 DEF vars, Exposed, Region
  <2> QED  BY <2>1, ExposedStep DEF Next
<1>3. IInv /\ Exposed => WriteProtectedAtRest
  <2> SUFFICES ASSUME IInv, Exposed, NEW p \in AllPages, prot[p] = "RWX"
               PROVE  \E th \in InFlight : /\ pc[th] \in {"write", "reprotect"}
                                           /\ p \in TargetPages(req[th].target)
    BY DEF WriteProtectedAtRest
  <2>1. PICK th \in Thread : pc[th] \in {"write", "reprotect"} /\ p \in Region(th)
    BY DEF Exposed
  <2>2. /\ handle[mine[th]] \in HandleRec /\ handle[mine[th]].target = req[th].target
    BY <2>1, InlineAssumption DEF IInv, Calls, Allocated
  <2>3. Region(th) \subseteq TargetPages(req[th].target)  BY <2>2, RegionPages DEF Region
  <2> QED  BY <2>1, <2>3 DEF InFlight
<1> QED  BY <1>1, <1>2, <1>3, InlineInvariant, PTL DEF Spec

-----------------------------------------------------------------------------
(* The stacks of hooks                                                       *)

Orderly == Lifo /\ "unprotect" \notin UninjectFaults

----------------------------------------------------------------------------
(* Images and stacks *)

\* Taking a jump off by the backup of what it was put on brings that back.
LEMMA UndoOverwrite ==
    ASSUME NEW image \in Image, NEW jump, NEW size
    PROVE  Overwrite(Overwrite(image, jump, size), Backup(image, size), size) = image
<1>1. image = [o \in Offsets |-> image[o]]  BY DEF Image
<1> QED  BY <1>1 DEF Overwrite, Backup

\* The hooks without the newest one.
LEMMA WithoutNewest ==
    ASSUME NEW hooks \in Seq(Hooked), hooks # <<>>,
           \A i, j \in 1 .. Len(hooks) : hooks[i].h = hooks[j].h => i = j
    PROVE  Without(hooks, hooks[Len(hooks)].h) = SubSeq(hooks, 1, Len(hooks) - 1)
<1> DEFINE n == Len(hooks)
           its == {i \in 1 .. n : hooks[i].h = hooks[n].h}
           i == CHOOSE j \in its : TRUE
           rest == [j \in 1 .. n - 1 |-> IF j < i THEN hooks[j] ELSE hooks[j + 1]]
<1>1. n \in Nat /\ n > 0  BY EmptySeq
<1>2. its = {n}  BY <1>1
<1>3. i = n /\ its # {}  BY <1>2
<1>4. Without(hooks, hooks[n].h) = rest  BY <1>3 DEF Without
<1>5. rest = [j \in 1 .. n - 1 |-> hooks[j]]  BY <1>1, <1>3
<1> HIDE DEF rest, i, its
<1>6. \A j \in 1 .. n - 1 : hooks[j] \in Hooked  BY <1>1
<1>7. rest \in Seq(Hooked) /\ Len(rest) = n - 1  BY <1>1, <1>5, <1>6
<1> HIDE DEF n
<1>8. /\ SubSeq(hooks, 1, n - 1) \in Seq(Hooked)
      /\ Len(SubSeq(hooks, 1, n - 1)) = n - 1
      /\ \A j \in 1 .. n - 1 : SubSeq(hooks, 1, n - 1)[j] = hooks[j]
  <2> DEFINE m == n - 1
  <2>1. m \in Nat  BY <1>1
  <2> HIDE DEF m
  <2>2. /\ SubSeq(hooks, 1, m) \in Seq(Hooked)
        /\ Len(SubSeq(hooks, 1, m)) = IF 1 <= m THEN m - 1 + 1 ELSE 0
        /\ \A j \in 1 .. m - 1 + 1 : SubSeq(hooks, 1, m)[j] = hooks[1 + j - 1]
    <3>1. \A j \in 1 .. m : hooks[j] \in Hooked  BY <1>6 DEF m
    <3> QED  BY <2>1, <3>1, SubSeqProperties
  <2>3. m - 1 + 1 = m /\ (1 <= m \/ m = 0)  BY <2>1
  <2>4. \A j \in 1 .. m : 1 + j - 1 = j  BY <2>1
  <2> QED  BY <2>2, <2>3, <2>4 DEF m
<1>9. rest = SubSeq(hooks, 1, n - 1)  BY <1>5, <1>7, <1>8, SeqEqual
<1> QED  BY <1>4, <1>9 DEF n

----------------------------------------------------------------------------
(* The invariant *)

On(h, t) == \E i \in 1 .. Len(nest[t]) : nest[t][i].h = h

\* The handle of a hook is there, and keeps what the hook found
HooksMade ==
    \A t \in Target : \A i \in 1 .. Len(nest[t]) :
        LET e == nest[t][i]
        IN  /\ handle[e.h] \in HandleRec /\ handle[e.h].target = t
            /\ handle[e.h].backup = Backup(e.under, handle[e.h].size)

HookedOnce ==
    \A t \in Target : \A i, j \in 1 .. Len(nest[t]) :
        nest[t][i].h = nest[t][j].h => i = j

\* A hook on a target is in a token or about to be
HooksHeld ==
    \A t \in Target : \A i \in 1 .. Len(nest[t]) :
        \/ \E k \in Token : token[k] = nest[t][i].h
        \/ \E th \in Thread : /\ Busy(th) /\ req[th].op = "inject"
                              /\ mine[th] = nest[t][i].h

\* Until an inject writes, what it has saved is still the code; until an
\* uninject writes, its hook is still the newest.
CallReady(th) ==
    LET h == mine[th]
        t == req[th].target
    IN  /\ pc[th] \in {"unprotect", "write"} /\ req[th].op = "inject" =>
              /\ ~On(h, t)
              /\ handle[h].backup = Backup(code[t], handle[h].size)
        /\ pc[th] \in {"unprotect", "write"} /\ req[th].op = "uninject" =>
              nest[t] # <<>> /\ nest[t][Len(nest[t])].h = h
        /\ pc[th] \in {"reprotect", "return"} /\ req[th].op = "uninject" => ~On(h, t)

CallsReady == \A th \in Thread : CallReady(th)

SInv == HooksMade /\ HookedOnce /\ StackIntact /\ HooksHeld /\ CallsReady

LEMMA InitSInv == Init => SInv
<1> SUFFICES ASSUME Init PROVE SInv  OBVIOUS
<1>1. \A t \in Target : nest[t] = <<>> /\ Len(nest[t]) = 0 /\ code[t] = OriginalImage
  BY DEF Init
<1>2. HooksMade /\ HookedOnce /\ HooksHeld  BY <1>1 DEF HooksMade, HookedOnce, HooksHeld
<1>3. StackIntact  BY <1>1 DEF StackIntact
<1>4. CallsReady  BY DEF Init, CallsReady, CallReady
<1> QED  BY <1>2, <1>3, <1>4 DEF SInv

\* A step of th leaves every other call where it is.
LEMMA OthersStay ==
    ASSUME IInv, NEW th \in Thread, Begin(th) \/ Step(th), NEW u \in Thread, u # th
    PROVE  pc'[u] = pc[u] /\ req'[u] = req[u] /\ mine'[u] = mine[u]
<1>1. TypeOK  BY DEF IInv
<1>2. CASE Begin(th)  BY <1>1, <1>2 DEF Begin, BeginInject, BeginUninject, TypeOK
<1>3. CASE Prepare(th) \/ PrepareFails(th)
  BY <1>1, <1>3 DEF Prepare, PrepareFails, TypeOK
<1>4. CASE Unprotect(th) \/ UnprotectFails(th) \/ Reprotect(th) \/ ReprotectFails(th)
  BY <1>1, <1>4 DEF Unprotect, UnprotectFails, DropHandle, Reprotect, ReprotectFails, TypeOK
<1>5. CASE DoInject(th) \/ UndoInject(th)
  BY <1>1, <1>5 DEF DoInject, UndoInject, TypeOK
<1>6. CASE ReturnInject(th) \/ ReturnUninject(th)
  BY <1>1, <1>6 DEF ReturnInject, ReturnUninject, EndCall, TypeOK
<1> QED  BY <1>2, <1>3, <1>4, <1>5, <1>6 DEF Step

\* Nor does it touch the code and the hooks of their targets.
LEMMA OthersTargets ==
    ASSUME IInv, NEW th \in Thread, Begin(th) \/ Step(th),
           NEW u \in Thread, u # th, Busy(u)
    PROVE  LET t == req[u].target IN code'[t] = code[t] /\ nest'[t] = nest[t]
<1> DEFINE t == req[u].target
<1>1. TypeOK /\ Calls /\ Allocated /\ Apart  BY DEF IInv
<1>2. t \in Target  BY <1>1 DEF Calls, Request
<1>3. Busy(th) => req[th].target # t  BY <1>1 DEF Apart
<1>4. CASE DoInject(th) \/ UndoInject(th)
  <2>1. Busy(th) /\ mine[th] # NoHandle
    BY <1>1, <1>4, InlineAssumption DEF DoInject, UndoInject, Busy, Calls
  <2>2. handle[mine[th]].target # t  BY <1>1, <1>3, <2>1 DEF Allocated
  <2> QED  BY <1>1, <1>2, <1>4, <2>2 DEF DoInject, UndoInject, TypeOK
<1>5. CASE UnprotectFails(th)
  <2>1. Busy(th)  BY <1>5 DEF UnprotectFails, Busy
  <2> QED  BY <1>1, <1>2, <1>3, <1>5, <2>1 DEF UnprotectFails, TypeOK
<1>6. CASE ~(DoInject(th) \/ UndoInject(th) \/ UnprotectFails(th))
  BY <1>6 DEF Step, Begin, BeginInject, BeginUninject, Prepare, PrepareFails,
     Unprotect, Reprotect, ReprotectFails, ReturnInject, ReturnUninject, EndCall
<1> QED  BY <1>4, <1>5, <1>6

\* So a call stays ready while others step.
LEMMA OthersReady ==
    ASSUME IInv, CallsReady, NEW th \in Thread, Begin(th) \/ Step(th),
           NEW u \in Thread, u # th
    PROVE  CallReady(u)'
<1>1. pc'[u] = pc[u] /\ req'[u] = req[u] /\ mine'[u] = mine[u]  BY OthersStay
<1>2. CASE ~Busy(u)  BY <1>1, <1>2 DEF Busy, CallReady
<1>3. CASE Busy(u)
  <2> DEFINE t == req[u].target
             h == mine[u]
  <2>1. code'[t] = code[t] /\ nest'[t] = nest[t]  BY <1>3, OthersTargets
  <2>2. pc[u] \in {"unprotect", "write"} => handle'[h] = handle[h]
    BY OthersKeep, InlineAssumption DEF IInv, Calls
  <2>3. CallReady(u)  BY DEF CallsReady
  <2> QED  BY <1>1, <2>1, <2>2, <2>3 DEF CallReady, On
<1> QED  BY <1>2, <1>3

----------------------------------------------------------------------------
(* The steps *)

\* What a step does to a handle that is on no target is of no concern to the stacks.
LEMMA StacksKeep ==
    ASSUME TypeOK, HooksMade, HookedOnce, StackIntact,
           NEW h, \A t \in Target : ~On(h, t),
           \A g \in Handle : g # h => handle'[g] = handle[g],
           UNCHANGED <<code, nest>>
    PROVE  (HooksMade /\ HookedOnce /\ StackIntact)'
<1>1. \A t \in Target : \A i \in 1 .. Len(nest[t]) : handle'[nest[t][i].h] = handle[nest[t][i].h]
  <2> TAKE t \in Target
  <2> TAKE i \in 1 .. Len(nest[t])
  <2>1. nest[t] \in Seq(Hooked)  BY DEF TypeOK
  <2>2. nest[t][i] \in Hooked  BY <2>1
  <2>3. nest[t][i].h \in Handle /\ nest[t][i].h # h  BY <2>2 DEF Hooked, On
  <2> QED  BY <2>3
<1>2. HooksMade'  BY <1>1 DEF HooksMade
<1>3. HookedOnce'  BY DEF HookedOnce
<1>4. \A t \in Target : \A i \in 1 .. Len(nest[t]) : Over(t, i)' = Over(t, i)
  BY <1>1 DEF Over
<1>5. StackIntact'
  <2> SUFFICES ASSUME NEW t \in Target
               PROVE  /\ \A i \in 1 .. Len(nest[t]) :
                            nest[t][i].under = IF i = 1 THEN OriginalImage ELSE Over(t, i - 1)'
                      /\ code[t] = IF nest[t] = <<>> THEN OriginalImage
                                   ELSE Over(t, Len(nest[t]))'
    BY DEF StackIntact
  <2>1. nest[t] \in Seq(Hooked)  BY DEF TypeOK
  <2>2. Len(nest[t]) \in Nat /\ (nest[t] # <<>> => Len(nest[t]) \in 1 .. Len(nest[t]))
    BY <2>1, EmptySeq
  <2>3. \A i \in 1 .. Len(nest[t]) : i # 1 => i - 1 \in 1 .. Len(nest[t])  BY <2>2
  <2> QED  BY <1>4, <2>2, <2>3 DEF StackIntact
<1> QED  BY <1>2, <1>3, <1>5

\* A handle that is free, or that a call works on whose hook is not there, is on
\* no target.
LEMMA OnNone ==
    ASSUME HooksMade, NEW h, \/ handle[h] = Free
                              \/ ~On(h, handle[h].target)
    PROVE  \A t \in Target : ~On(h, t)
  BY InlineAssumption DEF HooksMade, On

LEMMA BeginReady ==
    ASSUME IInv, SInv, Lifo, NEW th \in Thread, Begin(th)
    PROVE  SInv'
<1>1. TypeOK /\ Calls /\ Allocated /\ UNCHANGED <<code, handle, token, nest>>
  BY DEF IInv, Begin, BeginInject, BeginUninject
<1>2. pc[th] = "idle" /\ ~Busy(th)  BY DEF Begin, BeginInject, BeginUninject, Busy
<1>3. (HooksMade /\ HookedOnce /\ StackIntact)'
  <2>1. HooksMade'  BY <1>1 DEF SInv, HooksMade
  <2>2. HookedOnce'  BY <1>1 DEF SInv, HookedOnce
  <2>3. StackIntact'  BY <1>1 DEF SInv, StackIntact, Over
  <2> QED  BY <2>1, <2>2, <2>3
<1>4. HooksHeld'
  <2>1. \A u \in Thread : Busy(u) => u # th  BY <1>2
  <2>2. \A u \in Thread : Busy(u) => Busy(u)' /\ req'[u] = req[u] /\ mine'[u] = mine[u]
    BY <2>1, OthersStay DEF Busy
  <2> QED  BY <1>1, <2>2 DEF SInv, HooksHeld
<1>5. CallReady(th)'
  <2>1. CASE \E k \in Token, t \in Target, d \in Detour : BeginInject(th, k, t, d)
    BY <1>1, <2>1 DEF BeginInject, CallReady, TypeOK
  <2>2. CASE \E k \in Token : BeginUninject(th, k)
    <3> PICK k \in Token : BeginUninject(th, k)  BY <2>2
    <3>1. /\ mine'[th] = token[k] /\ pc'[th] = "unprotect"
          /\ req'[th].op = "uninject" /\ req'[th].target = handle[token[k]].target
      BY <1>1 DEF BeginUninject, TypeOK
    <3>2. LET t == handle[token[k]].target
          IN  nest[t] # <<>> /\ nest[t][Len(nest[t])].h = token[k]
      BY DEF BeginUninject
    <3> QED  BY <1>1, <3>1, <3>2 DEF CallReady
  <2> QED  BY <2>1, <2>2 DEF Begin
<1>6. CallsReady'  BY <1>5, OthersReady DEF SInv, CallsReady
<1> QED  BY <1>3, <1>4, <1>6 DEF SInv

LEMMA PrepareReady ==
    ASSUME IInv, SInv, NEW th \in Thread, Prepare(th)
    PROVE  SInv'
<1> DEFINE t == req[th].target
           d == req[th].detour
           rec == NewHandle(t, d)
<1>1. PICK h \in Handle :
         /\ handle[h] = Free /\ handle' = [handle EXCEPT ![h] = rec]
         /\ mine' = [mine EXCEPT ![th] = h]
  BY DEF Prepare
<1>2. /\ pc[th] = "prepare" /\ pc' = [pc EXCEPT ![th] = "unprotect"]
      /\ UNCHANGED <<code, prot, token, req, nest>>
  BY DEF Prepare
<1>3. TypeOK /\ req[th].op = "inject" /\ mine[th] = NoHandle /\ t \in Target /\ Busy(th)
  BY <1>2 DEF IInv, Calls, Busy, Request
<1>4. rec.backup = Backup(code[t], rec.size)
  BY DEF NewHandle
<1> HIDE DEF rec, d
<1>5. \A u \in Target : ~On(h, u)  BY <1>1, OnNone DEF SInv
<1>6. (HooksMade /\ HookedOnce /\ StackIntact)'
  BY <1>1, <1>2, <1>3, <1>5, StacksKeep DEF SInv, TypeOK
<1>7. HooksHeld'
  <2>1. \A u \in Thread : Busy(u) => Busy(u)'  BY <1>2, <1>3 DEF Busy, TypeOK
  <2>2. \A u \in Thread : mine[u] # NoHandle => mine'[u] = mine[u]
    BY <1>1, <1>3 DEF TypeOK
  <2>3. \A u \in Target : \A i \in 1 .. Len(nest[u]) : nest[u][i].h # NoHandle
    <3> TAKE u \in Target
    <3> TAKE i \in 1 .. Len(nest[u])
    <3>1. nest[u] \in Seq(Hooked)  BY <1>3 DEF TypeOK
    <3>2. nest[u][i] \in Hooked  BY <3>1
    <3> QED  BY <3>2, InlineAssumption DEF Hooked
  <2> QED  BY <1>2, <2>1, <2>2, <2>3 DEF SInv, HooksHeld
<1>8. CallReady(th)'
  <2>1. /\ mine'[th] = h /\ pc'[th] = "unprotect" /\ req' = req
        /\ handle'[h] = rec /\ code' = code /\ nest' = nest
    BY <1>1, <1>2, <1>3 DEF TypeOK
  <2> QED  BY <1>3, <1>4, <1>5, <2>1 DEF CallReady, On
<1>9. CallsReady'
  <2>1. Step(th)  BY DEF Step
  <2> QED  BY <1>8, <2>1, OthersReady DEF SInv, CallsReady
<1> QED  BY <1>6, <1>7, <1>9 DEF SInv

LEMMA QuietReady ==
    ASSUME IInv, SInv, NEW th \in Thread,
           PrepareFails(th) \/ Unprotect(th) \/ Reprotect(th) \/ ReprotectFails(th)
    PROVE  SInv'
<1>1. TypeOK /\ UNCHANGED <<code, handle, token, nest, req, mine>>
  BY DEF IInv, PrepareFails, Unprotect, Reprotect, ReprotectFails
<1>2. (HooksMade /\ HookedOnce /\ StackIntact)'
  <2>1. HooksMade'  BY <1>1 DEF SInv, HooksMade
  <2>2. HookedOnce'  BY <1>1 DEF SInv, HookedOnce
  <2>3. StackIntact'  BY <1>1 DEF SInv, StackIntact, Over
  <2> QED  BY <2>1, <2>2, <2>3
<1>3. HooksHeld'
  <2>1. \A u \in Thread : Busy(u) => Busy(u)'
    BY <1>1 DEF Busy, TypeOK, PrepareFails, Unprotect, Reprotect, ReprotectFails
  <2> QED  BY <1>1, <2>1 DEF SInv, HooksHeld
<1>4. CallReady(th)'
  <2>1. CallReady(th)  BY DEF SInv, CallsReady
  <2>2. CASE PrepareFails(th)
    <3>1. req[th].op = "inject" /\ pc'[th] = "return"
      BY <1>1, <2>2 DEF PrepareFails, IInv, Calls, TypeOK
    <3> QED  BY <1>1, <3>1 DEF CallReady
  <2>3. CASE Unprotect(th)
    <3>1. pc[th] = "unprotect" /\ pc'[th] = "write"  BY <1>1, <2>3 DEF Unprotect, TypeOK
    <3> QED  BY <1>1, <2>1, <3>1 DEF CallReady, On
  <2>4. CASE Reprotect(th) \/ ReprotectFails(th)
    <3>1. pc[th] = "reprotect" /\ pc'[th] = "return"
      BY <1>1, <2>4 DEF Reprotect, ReprotectFails, TypeOK
    <3> QED  BY <1>1, <2>1, <3>1 DEF CallReady, On
  <2> QED  BY <2>2, <2>3, <2>4
<1>5. CallsReady'
  <2>1. Step(th)  BY DEF Step
  <2> QED  BY <1>4, <2>1, OthersReady DEF SInv, CallsReady
<1> QED  BY <1>2, <1>3, <1>5 DEF SInv

\* An inject that gives its handle up has not put it on its target.
LEMMA DropReady ==
    ASSUME IInv, SInv, "unprotect" \notin UninjectFaults, NEW th \in Thread,
           UnprotectFails(th)
    PROVE  SInv'
<1> DEFINE h == mine[th]
<1>1. TypeOK /\ Busy(th) /\ pc[th] = "unprotect" /\ h \in Handle /\ h # NoHandle
  BY InlineAssumption DEF UnprotectFails, IInv, Calls, Busy
<1>2. /\ req[th].op = "inject" /\ UNCHANGED <<code, prot, token, req, nest>>
      /\ handle' = [handle EXCEPT ![h] = Free] /\ mine' = [mine EXCEPT ![th] = NoHandle]
      /\ pc' = [pc EXCEPT ![th] = "return"]
  BY DEF UnprotectFails, MayFail, DropHandle
<1>3. ~On(h, handle[h].target)
  <2>1. CallReady(th)  BY DEF SInv, CallsReady
  <2>2. handle[h].target = req[th].target  BY <1>1 DEF IInv, Allocated
  <2> QED  BY <1>1, <1>2, <2>1, <2>2 DEF CallReady
<1>4. \A t \in Target : ~On(h, t)  BY <1>3, OnNone DEF SInv
<1> HIDE DEF h
<1>5. (HooksMade /\ HookedOnce /\ StackIntact)'
  BY <1>1, <1>2, <1>4, StacksKeep DEF SInv, TypeOK
<1>6. HooksHeld'
  <2>1. \A u \in Thread : Busy(u) => Busy(u)'  BY <1>1, <1>2 DEF Busy, TypeOK
  <2>2. \A u \in Thread : mine[u] # h => mine'[u] = mine[u]  BY <1>1, <1>2 DEF TypeOK, h
  <2> QED  BY <1>2, <1>4, <2>1, <2>2 DEF SInv, HooksHeld, On
<1>7. CallReady(th)'  BY <1>1, <1>2 DEF CallReady, TypeOK
<1>8. CallsReady'
  <2>1. Step(th)  BY DEF Step
  <2> QED  BY <1>7, <2>1, OthersReady DEF SInv, CallsReady
<1> QED  BY <1>5, <1>6, <1>8 DEF SInv

\* An inject hands its hook over to its token.
LEMMA ReturnInjectReady ==
    ASSUME IInv, SInv, NEW th \in Thread, ReturnInject(th)
    PROVE  SInv'
<1> DEFINE h == mine[th]
           k == req[th].token
<1>1. /\ TypeOK /\ k \in Token /\ token[k] = NoHandle /\ req[th].op = "inject"
      /\ pc' = [pc EXCEPT ![th] = "idle"] /\ mine' = [mine EXCEPT ![th] = NoHandle]
      /\ req' = [req EXCEPT ![th] = NoRequest]
      /\ token' = IF h = NoHandle THEN token ELSE [token EXCEPT ![k] = h]
      /\ UNCHANGED <<code, handle, nest>>
  BY DEF IInv, ReturnInject, EndCall, Calls, Busy, Request
<1> HIDE DEF h, k
<1>2. (HooksMade /\ HookedOnce /\ StackIntact)'
  <2>1. HooksMade'  BY <1>1 DEF SInv, HooksMade
  <2>2. HookedOnce'  BY <1>1 DEF SInv, HookedOnce
  <2>3. StackIntact'  BY <1>1 DEF SInv, StackIntact, Over
  <2> QED  BY <2>1, <2>2, <2>3
<1>3. HooksHeld'
  <2> SUFFICES ASSUME NEW t \in Target, NEW i \in 1 .. Len(nest[t])
               PROVE  \/ \E l \in Token : token'[l] = nest[t][i].h
                      \/ \E u \in Thread : /\ Busy(u)' /\ req'[u].op = "inject"
                                           /\ mine'[u] = nest[t][i].h
    BY <1>1 DEF HooksHeld
  <2>1. nest[t][i].h # NoHandle
    <3>1. nest[t] \in Seq(Hooked)  BY <1>1 DEF TypeOK
    <3>2. nest[t][i] \in Hooked  BY <3>1
    <3> QED  BY <3>2, InlineAssumption DEF Hooked
  <2>2. ASSUME NEW l \in Token, token[l] = nest[t][i].h
        PROVE  \E m \in Token : token'[m] = nest[t][i].h
    <3>1. l # k  BY <1>1, <2>1, <2>2
    <3>2. token'[l] = token[l]  BY <1>1, <3>1 DEF TypeOK
    <3> QED  BY <2>2, <3>2
  <2>3. CASE h = nest[t][i].h
    <3>1. token'[k] = h  BY <1>1, <2>1, <2>3 DEF TypeOK
    <3> QED  BY <1>1, <2>3, <3>1
  <2>4. ASSUME NEW u \in Thread, u # th, Busy(u), req[u].op = "inject", mine[u] = nest[t][i].h
        PROVE  Busy(u)' /\ req'[u].op = "inject" /\ mine'[u] = nest[t][i].h
    BY <1>1, <2>4 DEF Busy, TypeOK
  <2> QED  BY <2>2, <2>3, <2>4 DEF SInv, HooksHeld, h
<1>4. CallReady(th)'  BY <1>1 DEF CallReady, TypeOK
<1>5. CallsReady'
  <2>1. Step(th)  BY DEF Step
  <2> QED  BY <1>4, <2>1, OthersReady DEF SInv, CallsReady
<1> QED  BY <1>2, <1>3, <1>5 DEF SInv

\* An uninject frees a handle that it has taken off its target.
LEMMA ReturnUninjectReady ==
    ASSUME IInv, SInv, NEW th \in Thread, ReturnUninject(th)
    PROVE  SInv'
<1> DEFINE h == mine[th]
           k == req[th].token
<1>1. /\ TypeOK /\ k \in Token /\ token[k] = h /\ h \in Handle /\ h # NoHandle
      /\ pc[th] = "return" /\ req[th].op = "uninject"
      /\ pc' = [pc EXCEPT ![th] = "idle"] /\ mine' = [mine EXCEPT ![th] = NoHandle]
      /\ req' = [req EXCEPT ![th] = NoRequest]
      /\ token' = [token EXCEPT ![k] = NoHandle]
      /\ handle' = [handle EXCEPT ![h] = Free]
      /\ UNCHANGED <<code, nest>>
  BY InlineAssumption DEF IInv, ReturnUninject, EndCall, Calls, Busy, Request
<1>2. ~On(h, handle[h].target)
  <2>1. CallReady(th)  BY DEF SInv, CallsReady
  <2>2. handle[h].target = req[th].target  BY <1>1 DEF IInv, Allocated
  <2> QED  BY <1>1, <2>1, <2>2 DEF CallReady
<1>3. \A t \in Target : ~On(h, t)  BY <1>2, OnNone DEF SInv
<1> HIDE DEF k
<1>4. (HooksMade /\ HookedOnce /\ StackIntact)'
  <2> HIDE DEF h
  <2> QED  BY <1>1, <1>3, StacksKeep DEF SInv, TypeOK
<1>5. HooksHeld'
  <2> SUFFICES ASSUME NEW t \in Target, NEW i \in 1 .. Len(nest[t])
               PROVE  \/ \E l \in Token : token'[l] = nest[t][i].h
                      \/ \E u \in Thread : /\ Busy(u)' /\ req'[u].op = "inject"
                                           /\ mine'[u] = nest[t][i].h
    BY <1>1 DEF HooksHeld
  <2>1. nest[t][i].h # h  BY <1>3 DEF On
  <2>2. ASSUME NEW l \in Token, token[l] = nest[t][i].h
        PROVE  token'[l] = nest[t][i].h
    <3>1. l # k  BY <1>1, <2>1, <2>2
    <3> QED  BY <1>1, <2>2, <3>1 DEF TypeOK
  <2>3. ASSUME NEW u \in Thread, Busy(u), req[u].op = "inject", mine[u] = nest[t][i].h
        PROVE  Busy(u)' /\ req'[u].op = "inject" /\ mine'[u] = nest[t][i].h
    <3>1. u # th  BY <1>1, <2>3
    <3> QED  BY <1>1, <2>3, <3>1 DEF Busy, TypeOK
  <2> QED  BY <2>2, <2>3 DEF SInv, HooksHeld
<1>6. CallReady(th)'  BY <1>1 DEF CallReady, TypeOK
<1>7. CallsReady'
  <2>1. Step(th)  BY DEF Step
  <2> QED  BY <1>6, <2>1, OthersReady DEF SInv, CallsReady
<1> QED  BY <1>4, <1>5, <1>7 DEF SInv

\* A hook whose handle is of this call is on no other target than the call's.
LEMMA WritesTarget ==
    ASSUME IInv, NEW th \in Thread, pc[th] = "write"
    PROVE  /\ mine[th] \in Handle /\ mine[th] # NoHandle /\ Busy(th)
           /\ handle[mine[th]] \in HandleRec /\ req[th] \in Request
           /\ handle[mine[th]].target = req[th].target /\ req[th].target \in Target
  BY InlineAssumption DEF IInv, Calls, Allocated, Busy, Request

LEMMA DoInjectReady ==
    ASSUME IInv, SInv, NEW th \in Thread, DoInject(th)
    PROVE  SInv'
<1> DEFINE h == mine[th]
           t == req[th].target
           e == [h |-> h, under |-> code[t]]
           new == Overwrite(code[t], JumpTo(handle[h].detour), handle[h].size)
<1>1. /\ TypeOK /\ h \in Handle /\ h # NoHandle /\ Busy(th)
      /\ handle[h] \in HandleRec /\ handle[h].target = t /\ t \in Target
      /\ pc[th] = "write" /\ req[th].op = "inject"
  BY WritesTarget DEF DoInject, IInv
<1>2. /\ code' = [code EXCEPT ![t] = new]
      /\ nest' = [nest EXCEPT ![t] = Append(nest[t], e)]
      /\ pc' = [pc EXCEPT ![th] = "reprotect"]
      /\ UNCHANGED <<handle, token, req, mine>>
  BY <1>1 DEF DoInject, TypeOK
<1>3. /\ ~On(h, t)
      /\ handle[h].backup = Backup(code[t], handle[h].size)
  BY <1>1 DEF SInv, CallsReady, CallReady
<1>4. nest[t] \in Seq(Hooked) /\ code[t] \in Image /\ e \in Hooked
  BY <1>1 DEF TypeOK, Hooked
<1>5. e.h = h /\ e.under = code[t] /\ t' = t  BY <1>2
<1> HIDE DEF h, t, e, new
<1>6. /\ code'[t] = new /\ nest'[t] = Append(nest[t], e)
      /\ \A u \in Target : u # t => code'[u] = code[u] /\ nest'[u] = nest[u]
  BY <1>1, <1>2 DEF TypeOK
<1>7. PICK n \in Nat : n = Len(nest[t])  BY <1>4, LenProperties
<1>8. /\ nest'[t] # <<>> /\ Len(nest'[t]) = n + 1
      /\ nest'[t][n + 1] = e /\ \A i \in 1 .. n : nest'[t][i] = nest[t][i]
  BY <1>4, <1>6, <1>7, AppendProperties
<1>9. \A i \in 1 .. n + 1 : i = n + 1 \/ i \in 1 .. n  BY <1>7, <1>8
<1>10. HooksMade'
  <2> SUFFICES ASSUME NEW u \in Target, NEW i \in 1 .. Len(nest'[u])
               PROVE  LET g == nest'[u][i]
                      IN  /\ handle[g.h] \in HandleRec /\ handle[g.h].target = u
                          /\ handle[g.h].backup = Backup(g.under, handle[g.h].size)
    BY <1>2, SMTT(30) DEF HooksMade
  <2>1. CASE u # t
    <3>1. nest'[u] = nest[u] /\ i \in 1 .. Len(nest[u])  BY <1>6, <2>1
    <3> QED  BY <3>1 DEF SInv, HooksMade
  <2>2. CASE u = t /\ i \in 1 .. n
    <3>1. u = t /\ i \in 1 .. Len(nest[t]) /\ nest'[u][i] = nest[t][i]
      BY <1>7, <1>8, <2>2
    <3>2. LET g == nest[t][i]
          IN  /\ handle[g.h] \in HandleRec /\ handle[g.h].target = t
              /\ handle[g.h].backup = Backup(g.under, handle[g.h].size)
      BY <1>1, <3>1 DEF SInv, HooksMade
    <3> QED  BY <3>1, <3>2
  <2>3. CASE u = t /\ i = n + 1
    <3>1. u = t /\ nest'[u][i] = e  BY <1>8, <2>3
    <3> QED  BY <1>1, <1>3, <1>5, <3>1
  <2>4. u = t => i \in 1 .. n + 1  BY <1>8
  <2> QED  BY <1>9, <2>1, <2>2, <2>3, <2>4
<1>11. HookedOnce'
  <2> SUFFICES ASSUME NEW u \in Target, NEW i \in 1 .. Len(nest'[u]),
                      NEW j \in 1 .. Len(nest'[u]), nest'[u][i].h = nest'[u][j].h
               PROVE  i = j
    BY DEF HookedOnce
  <2>1. CASE u # t  BY <1>6, <2>1 DEF SInv, HookedOnce
  <2>2. CASE u = t
    <3>1. \A m \in 1 .. n : nest'[t][m].h # h  BY <1>3, <1>7, <1>8 DEF On
    <3>2. CASE i \in 1 .. n /\ j \in 1 .. n
      <4>1. nest[t][i].h = nest[t][j].h  BY <1>8, <2>2, <3>2
      <4>2. \A a, b \in 1 .. Len(nest[t]) : nest[t][a].h = nest[t][b].h => a = b
        BY <1>1 DEF SInv, HookedOnce
      <4> QED  BY <1>7, <3>2, <4>1, <4>2
    <3>3. CASE i = n + 1 \/ j = n + 1  BY <1>5, <1>7, <1>8, <1>9, <2>2, <3>1, <3>3
    <3> QED  BY <1>7, <1>8, <1>9, <2>2, <3>2, <3>3
  <2> QED  BY <2>1, <2>2
<1>12. StackIntact'
  <2>1. \A i \in 1 .. n : Over(t, i)' = Over(t, i)  BY <1>2, <1>5, <1>7, <1>8 DEF Over
  <2>2. Over(t, n + 1)' = new  BY <1>2, <1>5, <1>7, <1>8 DEF Over, new
  <2>3. \A i \in 1 .. n : nest[t][i].under = IF i = 1 THEN OriginalImage ELSE Over(t, i - 1)
    BY <1>1, <1>7, <1>8 DEF SInv, StackIntact
  <2>4. code[t] = IF n = 0 THEN OriginalImage ELSE Over(t, n)
    BY <1>1, <1>4, <1>7, <1>8, EmptySeq DEF SInv, StackIntact
  <2>5. ASSUME NEW i \in 1 .. n + 1
        PROVE  nest'[t][i].under = IF i = 1 THEN OriginalImage ELSE Over(t, i - 1)'
    <3>1. CASE i \in 1 .. n
      <4>1. i # 1 => i - 1 \in 1 .. n  BY <1>7, <1>8, <3>1
      <4> QED  BY <1>5, <1>7, <1>8, <2>1, <2>3, <3>1, <4>1
    <3>2. CASE i = n + 1
      <4>1. n # 0 => n \in 1 .. n  BY <1>7, <1>8
      <4>2. i - 1 = n /\ (i = 1 <=> n = 0)  BY <1>7, <1>8, <3>2
      <4> QED  BY <1>5, <1>7, <1>8, <2>1, <2>4, <3>2, <4>1, <4>2
    <3> QED  BY <1>9, <3>1, <3>2
  <2>6. code'[t] = Over(t, Len(nest[t]))'  BY <1>5, <1>6, <1>7, <1>8, <2>2
  <2>7. \A u \in Target : u # t => \A i : Over(u, i)' = Over(u, i)  BY <1>2, <1>6 DEF Over
  <2> SUFFICES ASSUME NEW u \in Target
               PROVE  /\ \A i \in 1 .. Len(nest'[u]) :
                            nest'[u][i].under = IF i = 1 THEN OriginalImage ELSE Over(u, i - 1)'
                      /\ code'[u] = IF nest'[u] = <<>> THEN OriginalImage
                                    ELSE Over(u, Len(nest[u]))'
    BY DEF StackIntact
  <2>8. CASE u = t  BY <1>5, <1>7, <1>8, <2>5, <2>6, <2>8
  <2>9. CASE u # t  BY <1>6, <2>7, <2>9 DEF SInv, StackIntact
  <2> QED  BY <2>8, <2>9
<1>13. HooksHeld'
  <2>1. \A u \in Thread : Busy(u) => Busy(u)'  BY <1>1, <1>2 DEF Busy, TypeOK
  <2> SUFFICES ASSUME NEW u \in Target, NEW i \in 1 .. Len(nest'[u])
               PROVE  \/ \E k \in Token : token[k] = nest'[u][i].h
                      \/ \E v \in Thread : /\ Busy(v) /\ req[v].op = "inject"
                                           /\ mine[v] = nest'[u][i].h
    BY <1>2, <2>1 DEF HooksHeld
  <2>2. CASE u # t  BY <1>6, <2>2 DEF SInv, HooksHeld
  <2>3. CASE u = t /\ i \in 1 .. n  BY <1>1, <1>7, <1>8, <2>3 DEF SInv, HooksHeld
  <2>4. CASE u = t /\ i = n + 1  BY <1>1, <1>5, <1>7, <1>8, <2>4 DEF h
  <2> QED  BY <1>7, <1>8, <1>9, <2>2, <2>3, <2>4
<1>14. CallReady(th)'
  <2>1. pc'[th] = "reprotect" /\ req'[th].op = "inject"  BY <1>1, <1>2 DEF TypeOK
  <2> QED  BY <2>1 DEF CallReady
<1>15. CallsReady'
  <2>1. Step(th)  BY DEF Step
  <2> QED  BY <1>14, <2>1, OthersReady DEF SInv, CallsReady
<1> QED  BY <1>10, <1>11, <1>12, <1>13, <1>15 DEF SInv

\* What an uninject writes and what remains of the stack.
LEMMA UndoNewest ==
    ASSUME IInv, SInv, NEW th \in Thread, UndoInject(th)
    PROVE  LET t == req[th].target
               n == Len(nest[t])
           IN  /\ t \in Target /\ n \in Nat \ {0} /\ nest[t][n].h = mine[th]
               /\ code' = [code EXCEPT ![t] = nest[t][n].under]
               /\ nest' = [nest EXCEPT ![t] = SubSeq(nest[t], 1, n - 1)]
               /\ Len(nest'[t]) = n - 1
               /\ \A i \in 1 .. n - 1 : nest'[t][i] = nest[t][i]
<1> DEFINE h == mine[th]
           t == req[th].target
           n == Len(nest[t])
           rec == handle[h]
           top == nest[t][n]
<1>1. /\ TypeOK /\ Busy(th) /\ h \in Handle /\ rec \in HandleRec /\ rec.target = t
      /\ t \in Target /\ pc[th] = "write" /\ req[th].op = "uninject"
  BY WritesTarget DEF UndoInject, IInv
<1>2. /\ code' = [code EXCEPT ![t] = Undo(code[t], rec)]
      /\ nest' = [nest EXCEPT ![t] = Without(nest[t], h)]
  BY <1>1 DEF UndoInject, TypeOK
<1>3. nest[t] # <<>> /\ nest[t][Len(nest[t])].h = h
  BY <1>1 DEF SInv, CallsReady, CallReady
<1>4. nest[t] \in Seq(Hooked)  BY <1>1 DEF TypeOK
<1>5. n \in Nat \ {0} /\ n \in 1 .. n  BY <1>3, <1>4, EmptySeq
<1>6. top \in Hooked /\ top.under \in Image
  <2>1. nest[t][Len(nest[t])] \in Hooked  BY <1>4, <1>5
  <2> QED  BY <2>1 DEF Hooked
<1>7. rec.backup = Backup(top.under, rec.size)
  BY <1>1, <1>3, <1>5 DEF SInv, HooksMade
<1>8. code[t] = Overwrite(top.under, JumpTo(rec.detour), rec.size)
  <2>1. code[t] = Over(t, n)  BY <1>1, <1>3 DEF SInv, StackIntact
  <2> QED  BY <2>1, <1>3 DEF Over
<1>9. Undo(code[t], rec) = top.under  BY <1>6, <1>7, <1>8, UndoOverwrite DEF Undo
<1>10. Without(nest[t], h) = SubSeq(nest[t], 1, n - 1)
  <2>1. \A i, j \in 1 .. Len(nest[t]) : nest[t][i].h = nest[t][j].h => i = j
    BY <1>1 DEF SInv, HookedOnce
  <2> QED  BY <1>3, <1>4, <2>1, WithoutNewest
<1>11. nest'[t] = SubSeq(nest[t], 1, n - 1)  BY <1>1, <1>2, <1>10 DEF TypeOK
<1> HIDE DEF h, t, rec
<1>12. /\ Len(SubSeq(nest[t], 1, n - 1)) = n - 1
       /\ \A i \in 1 .. n - 1 : SubSeq(nest[t], 1, n - 1)[i] = nest[t][i]
  <2> DEFINE m == n - 1
  <2>1. m \in Nat  BY <1>5
  <2>2. \A j \in 1 .. m : nest[t][j] \in Hooked  BY <1>4, <1>5
  <2> HIDE DEF m
  <2>3. /\ Len(SubSeq(nest[t], 1, m)) = IF 1 <= m THEN m - 1 + 1 ELSE 0
        /\ \A j \in 1 .. m - 1 + 1 : SubSeq(nest[t], 1, m)[j] = nest[t][1 + j - 1]
    BY <2>1, <2>2, SubSeqProperties
  <2>4. m - 1 + 1 = m /\ (1 <= m \/ m = 0) /\ \A j \in 1 .. m : 1 + j - 1 = j  BY <2>1
  <2> QED  BY <2>3, <2>4 DEF m
<1> QED  BY <1>1, <1>2, <1>3, <1>5, <1>9, <1>10, <1>11, <1>12 DEF t, h

LEMMA UndoInjectReady ==
    ASSUME IInv, SInv, NEW th \in Thread, UndoInject(th)
    PROVE  SInv'
<1>1. /\ TypeOK /\ mine[th] # NoHandle /\ Busy(th)
      /\ pc[th] = "write" /\ req[th].op = "uninject"
      /\ pc' = [pc EXCEPT ![th] = "reprotect"]
      /\ UNCHANGED <<handle, token, req, mine>>
  BY WritesTarget DEF UndoInject, IInv
<1>2. PICK t \in Target : t = req[th].target  BY UndoNewest
<1>3. PICK n \in Nat \ {0} : n = Len(nest[t])  BY <1>2, UndoNewest
<1>4. /\ nest[t][n].h = mine[th]
      /\ code' = [code EXCEPT ![t] = nest[t][n].under]
      /\ nest' = [nest EXCEPT ![t] = SubSeq(nest[t], 1, n - 1)]
      /\ Len(nest'[t]) = n - 1 /\ \A i \in 1 .. n - 1 : nest'[t][i] = nest[t][i]
  BY <1>2, <1>3, UndoNewest
<1>5. /\ code'[t] = nest[t][n].under /\ nest'[t] = SubSeq(nest[t], 1, n - 1)
      /\ \A u \in Target : u # t => code'[u] = code[u] /\ nest'[u] = nest[u]
  BY <1>1, <1>4 DEF TypeOK
<1>6. \A i \in 1 .. n - 1 : i \in 1 .. n  OBVIOUS
<1>7. HooksMade'
  <2> SUFFICES ASSUME NEW u \in Target, NEW i \in 1 .. Len(nest'[u])
               PROVE  LET g == nest'[u][i]
                      IN  /\ handle[g.h] \in HandleRec /\ handle[g.h].target = u
                          /\ handle[g.h].backup = Backup(g.under, handle[g.h].size)
    BY <1>1 DEF HooksMade
  <2>1. i \in 1 .. Len(nest[u]) /\ nest'[u][i] = nest[u][i]
    BY <1>3, <1>4, <1>5, <1>6
  <2> QED  BY <2>1 DEF SInv, HooksMade
<1>8. HookedOnce'
  <2> SUFFICES ASSUME NEW u \in Target, NEW i \in 1 .. Len(nest'[u]),
                      NEW j \in 1 .. Len(nest'[u]), nest'[u][i].h = nest'[u][j].h
               PROVE  i = j
    BY DEF HookedOnce
  <2>1. /\ i \in 1 .. Len(nest[u]) /\ nest'[u][i] = nest[u][i]
        /\ j \in 1 .. Len(nest[u]) /\ nest'[u][j] = nest[u][j]
    BY <1>3, <1>4, <1>5, <1>6
  <2> QED  BY <2>1 DEF SInv, HookedOnce
<1>9. StackIntact'
  <2>1. \A i \in 1 .. n - 1 : Over(t, i)' = Over(t, i)  BY <1>1, <1>4 DEF Over
  <2>2. \A i \in 1 .. n : nest[t][i].under = IF i = 1 THEN OriginalImage ELSE Over(t, i - 1)
    BY <1>3 DEF SInv, StackIntact
  <2>3. \A i \in 1 .. n : i # 1 => i - 1 \in 1 .. n - 1  OBVIOUS
  <2>4. \A i \in 1 .. n - 1 :
           nest'[t][i].under = IF i = 1 THEN OriginalImage ELSE Over(t, i - 1)'
    <3> TAKE i \in 1 .. n - 1
    <3>1. i \in 1 .. n /\ nest'[t][i] = nest[t][i]  BY <1>4, <1>6
    <3>2. i # 1 => i - 1 \in 1 .. n - 1  BY <3>1, <2>3
    <3> QED  BY <2>1, <2>2, <3>1, <3>2
  <2>5. code'[t] = IF n = 1 THEN OriginalImage ELSE Over(t, n - 1)'
    <3>1. n \in 1 .. n /\ (n # 1 => n - 1 \in 1 .. n - 1)  BY <2>3
    <3> QED  BY <1>5, <2>1, <2>2, <3>1
  <2>6. nest'[t] = <<>> <=> n = 1
    <3>1. nest'[t] \in Seq(Hooked)  BY NextIInv DEF IInv, TypeOK, Next, Step
    <3>2. nest'[t] = <<>> <=> Len(nest'[t]) = 0  BY <3>1, EmptySeq
    <3> QED  BY <1>4, <3>2
  <2>7. code'[t] = IF nest'[t] = <<>> THEN OriginalImage ELSE Over(t, Len(nest[t]))'
    BY <1>4, <2>5, <2>6
  <2>8. \A u \in Target : u # t => \A i : Over(u, i)' = Over(u, i)  BY <1>1, <1>5 DEF Over
  <2> SUFFICES ASSUME NEW u \in Target
               PROVE  /\ \A i \in 1 .. Len(nest'[u]) :
                            nest'[u][i].under = IF i = 1 THEN OriginalImage ELSE Over(u, i - 1)'
                      /\ code'[u] = IF nest'[u] = <<>> THEN OriginalImage
                                    ELSE Over(u, Len(nest[u]))'
    BY DEF StackIntact
  <2>9. CASE u = t
    <3>1. Len(nest'[t]) = n - 1  BY <1>4
    <3>2. \A i \in 1 .. Len(nest'[t]) :
             nest'[t][i].under = IF i = 1 THEN OriginalImage ELSE Over(t, i - 1)'
      BY <2>4, <3>1
    <3> QED  BY <2>7, <2>9, <3>2
  <2>10. CASE u # t  BY <1>5, <2>8, <2>10 DEF SInv, StackIntact
  <2> QED  BY <2>9, <2>10
<1>10. HooksHeld'
  <2>1. \A u \in Thread : Busy(u) => Busy(u)'  BY <1>1 DEF Busy, TypeOK
  <2> SUFFICES ASSUME NEW u \in Target, NEW i \in 1 .. Len(nest'[u])
               PROVE  \/ \E k \in Token : token[k] = nest'[u][i].h
                      \/ \E v \in Thread : /\ Busy(v) /\ req[v].op = "inject"
                                           /\ mine[v] = nest'[u][i].h
    BY <1>1, <2>1 DEF HooksHeld
  <2>2. i \in 1 .. Len(nest[u]) /\ nest'[u][i] = nest[u][i]
    BY <1>3, <1>4, <1>5, <1>6
  <2> QED  BY <2>2 DEF SInv, HooksHeld
<1>11. CallReady(th)'
  <2>1. pc'[th] = "reprotect" /\ req'[th].target = t /\ mine'[th] = nest[t][n].h
    BY <1>1, <1>2, <1>4 DEF TypeOK
  <2>2. ASSUME NEW i \in 1 .. Len(nest'[t])  PROVE nest'[t][i].h # nest[t][n].h
    <3>1. /\ i \in 1 .. Len(nest[t]) /\ n \in 1 .. Len(nest[t]) /\ i # n
          /\ nest'[t][i] = nest[t][i]
      BY <1>3, <1>4, <1>6
    <3> QED  BY <3>1 DEF SInv, HookedOnce
  <2> QED  BY <1>1, <2>1, <2>2 DEF CallReady, On
<1>12. CallsReady'
  <2>1. Step(th)  BY DEF Step
  <2> QED  BY <1>11, <2>1, OthersReady DEF SInv, CallsReady
<1> QED  BY <1>7, <1>8, <1>9, <1>10, <1>12 DEF SInv

LEMMA NextSInv ==
    ASSUME Orderly, IInv, SInv, [Next]_vars
    PROVE  SInv'
<1>1. CASE UNCHANGED vars
  <2>1. UNCHANGED <<code, handle, token, pc, req, mine, nest>>  BY <1>1 DEF vars
  <2>2. StackIntact'  BY <2>1 DEF SInv, StackIntact, Over
  <2>3. HooksMade' /\ HookedOnce' /\ HooksHeld'
    BY <2>1 DEF SInv, HooksMade, HookedOnce, HooksHeld, Busy
  <2>4. CallsReady'  BY <2>1 DEF SInv, CallsReady, CallReady, On
  <2> QED  BY <2>2, <2>3, <2>4 DEF SInv
<1>2. ASSUME NEW th \in Thread, Begin(th)  PROVE SInv'
  BY <1>2, BeginReady DEF Orderly
<1>3. ASSUME NEW th \in Thread, Step(th)  PROVE SInv'
  BY <1>3, PrepareReady, QuietReady, DropReady, DoInjectReady, UndoInjectReady,
     ReturnInjectReady, ReturnUninjectReady DEF Step, Orderly
<1> QED  BY <1>1, <1>2, <1>3 DEF Next

----------------------------------------------------------------------------
(* The theorems *)

THEOREM StackInvariant ==
    ASSUME Orderly
    PROVE  Spec => [](IInv /\ SInv)
<1>1. IInv /\ SInv /\ [Next]_vars => SInv'  BY NextSInv
<1> QED  BY <1>1, InitSInv, InlineInvariant, PTL DEF Spec

\* The images of a target form a stack: every hook found the code with the jump
\* of the hook below, and the code is that with the jump of the newest.
THEOREM InlineStackIntact ==
    ASSUME Orderly
    PROVE  Spec => []StackIntact
<1>1. SInv => StackIntact  BY DEF SInv
<1> QED  BY <1>1, StackInvariant, PTL

\* When no token and no call has a hook on a target, its code is the original.
THEOREM InlineRestored ==
    ASSUME Orderly
    PROVE  Spec => []Restored
<1>1. ASSUME IInv, SInv, NEW t \in Target, Quiet(t)  PROVE code[t] = OriginalImage
  <2>1. nest[t] \in Seq(Hooked)  BY <1>1 DEF IInv, TypeOK
  <2>2. SUFFICES ASSUME nest[t] # <<>> PROVE FALSE
    BY <1>1 DEF SInv, StackIntact
  <2>3. 1 \in 1 .. Len(nest[t])  BY <2>1, <2>2, EmptySeq
  <2> DEFINE h == nest[t][1].h
  <2>4. h \in Handle /\ h # NoHandle
    <3>1. nest[t][1] \in Hooked  BY <2>1, <2>3
    <3> QED  BY <3>1, InlineAssumption DEF Hooked
  <2>5. handle[h].target = t  BY <1>1, <2>3 DEF SInv, HooksMade
  <2>6. ASSUME NEW k \in Token, token[k] = h  PROVE FALSE
    BY <1>1, <2>4, <2>5, <2>6 DEF Quiet
  <2>7. ASSUME NEW th \in Thread, Busy(th), mine[th] = h  PROVE FALSE
    <3>1. handle[mine[th]].target = req[th].target  BY <1>1, <2>4, <2>7 DEF IInv, Allocated
    <3> QED  BY <1>1, <2>5, <2>7, <3>1 DEF Quiet, InFlight, Busy
  <2> QED  BY <1>1, <2>3, <2>6, <2>7 DEF SInv, HooksHeld
<1>2. IInv /\ SInv => Restored  BY <1>1 DEF Restored
<1> QED  BY <1>2, StackInvariant, PTL

----------------------------------------------------------------------------
(* InlineHook implements HookStack *)

\* The stack of contents of a stack of hooks
Unders(hooks) == [i \in 1 .. Len(hooks) |-> hooks[i].under]

LEMMA UndersType ==
    ASSUME NEW hooks \in Seq(Hooked)
    PROVE  /\ Unders(hooks) \in Seq(Image) /\ Len(Unders(hooks)) = Len(hooks)
           /\ \A i \in 1 .. Len(hooks) : Unders(hooks)[i] = hooks[i].under
<1>1. Len(hooks) \in Nat /\ \A i \in 1 .. Len(hooks) : hooks[i] \in Hooked
  BY LenProperties, ElementOfSeq
<1>2. \A i \in 1 .. Len(hooks) : hooks[i].under \in Image  BY <1>1 DEF Hooked
<1>3. Unders(hooks) \in [1 .. Len(hooks) -> Image]  BY <1>2 DEF Unders
<1>4. Unders(hooks) \in Seq(Image) /\ Len(Unders(hooks)) = Len(hooks)
  <2> DEFINE n == Len(hooks)
             f == Unders(hooks)
  <2>1. n \in Nat /\ f \in [1 .. n -> Image]  BY <1>1, <1>3
  <2> HIDE DEF n, f
  <2>2. f \in Seq(Image) /\ Len(f) = n  BY <2>1
  <2> QED  BY <2>2 DEF n, f
<1> QED  BY <1>4 DEF Unders

LEMMA UndersAppend ==
    ASSUME NEW hooks \in Seq(Hooked), NEW e \in Hooked
    PROVE  Unders(Append(hooks, e)) = Append(Unders(hooks), e.under)
<1> DEFINE s == Unders(Append(hooks, e))
           u == Append(Unders(hooks), e.under)
           n == Len(hooks)
<1>1. /\ Append(hooks, e) \in Seq(Hooked) /\ Len(Append(hooks, e)) = n + 1
      /\ Append(hooks, e)[n + 1] = e /\ \A i \in 1 .. n : Append(hooks, e)[i] = hooks[i]
  BY AppendProperties
<1>2. n \in Nat /\ e.under \in Image  BY LenProperties DEF Hooked
<1>3. /\ s \in Seq(Image) /\ Len(s) = n + 1
      /\ \A i \in 1 .. n + 1 : s[i] = Append(hooks, e)[i].under
  BY <1>1, UndersType
<1>4. /\ Unders(hooks) \in Seq(Image) /\ Len(Unders(hooks)) = n
      /\ \A i \in 1 .. n : Unders(hooks)[i] = hooks[i].under
  BY UndersType
<1>5. /\ u \in Seq(Image) /\ Len(u) = n + 1 /\ u[n + 1] = e.under
      /\ \A i \in 1 .. n : u[i] = Unders(hooks)[i]
  BY <1>2, <1>4, AppendProperties
<1> HIDE DEF s, u, n
<1>6. \A i \in 1 .. n + 1 : i = n + 1 \/ i \in 1 .. n  BY <1>2
<1>7. \A i \in 1 .. Len(s) : s[i] = u[i]  BY <1>1, <1>3, <1>4, <1>5, <1>6
<1>8. s = u  BY <1>3, <1>5, <1>7, SeqEqual
<1> QED  BY <1>8 DEF s, u

LEMMA UndersFront ==
    ASSUME NEW hooks \in Seq(Hooked), hooks # <<>>,
           NEW front \in Seq(Hooked), Len(front) = Len(hooks) - 1,
           \A i \in 1 .. Len(hooks) - 1 : front[i] = hooks[i]
    PROVE  Unders(front) = SubSeq(Unders(hooks), 1, Len(Unders(hooks)) - 1)
<1> DEFINE m == Len(hooks) - 1
           u == Unders(hooks)
           s == SubSeq(u, 1, m)
<1>1. m \in Nat  BY EmptySeq
<1>2. /\ u \in Seq(Image) /\ Len(u) = Len(hooks)
      /\ \A i \in 1 .. Len(hooks) : u[i] = hooks[i].under
  BY UndersType
<1>3. /\ Unders(front) \in Seq(Image) /\ Len(Unders(front)) = m
      /\ \A i \in 1 .. m : Unders(front)[i] = front[i].under
  BY UndersType
<1>4. \A i \in 1 .. m : i \in 1 .. Len(hooks)  BY <1>1
<1>5. \A i \in 1 .. m : u[i] = hooks[i].under  BY <1>2, <1>4
<1>6. \A i \in 1 .. m : front[i] = hooks[i]  OBVIOUS
<1>7. \A i \in 1 .. m : u[i] \in Image  BY <1>2, <1>4, ElementOfSeq
<1>8. SubSeq(Unders(hooks), 1, Len(Unders(hooks)) - 1) = s  BY <1>2
<1> HIDE DEF m, u
<1>9. s \in Seq(Image) /\ Len(s) = m /\ \A i \in 1 .. m : s[i] = u[i]
  <2>1. /\ s \in Seq(Image) /\ Len(s) = IF 1 <= m THEN m - 1 + 1 ELSE 0
        /\ \A j \in 1 .. m - 1 + 1 : s[j] = u[1 + j - 1]
    BY <1>1, <1>7, SubSeqProperties
  <2>2. m - 1 + 1 = m /\ (1 <= m \/ m = 0) /\ \A j \in 1 .. m : 1 + j - 1 = j  BY <1>1
  <2> QED  BY <2>1, <2>2
<1> HIDE DEF s
<1>10. \A i \in 1 .. m : Unders(front)[i] = s[i]  BY <1>3, <1>5, <1>6, <1>9
<1>11. Unders(front) = s  BY <1>3, <1>9, <1>10, SeqEqual
<1> QED  BY <1>8, <1>11

under == [t \in Target |-> [i \in 1 .. Len(nest[t]) |-> nest[t][i].under]]

LEMMA UnderIs == \A t \in Target : under[t] = Unders(nest[t])
  BY DEF under, Unders

LEMMA HookMaps ==
    ASSUME IInv, NEW th \in Thread, DoInject(th)
    PROVE  \E t \in Target : Hooks!Hook(t)
<1>0. PICK t \in Target : t = req[th].target  BY WritesTarget DEF DoInject
<1> DEFINE e == [h |-> mine[th], under |-> code[t]]
<1>1. /\ TypeOK /\ TypeOK' /\ mine[th] \in Handle /\ handle[mine[th]].target = t
  <2>1. Next  BY DEF Next, Step
  <2> QED  BY <1>0, <2>1, NextIInv, WritesTarget DEF IInv, DoInject
<1>2. /\ nest' = [nest EXCEPT ![t] = Append(nest[t], e)]
      /\ \A u \in Target \ {t} : code'[u] = code[u]
  BY <1>1 DEF DoInject, TypeOK
<1>3. code' \in [Target -> Image]  BY <1>1 DEF TypeOK
<1>4. nest[t] \in Seq(Hooked) /\ e \in Hooked /\ e.under = code[t]
  BY <1>1 DEF TypeOK, Hooked
<1> HIDE DEF e
<1>5. /\ nest'[t] = Append(nest[t], e)
      /\ \A u \in Target : u # t => nest'[u] = nest[u]
  BY <1>1, <1>2 DEF TypeOK
<1>6. under' = [under EXCEPT ![t] = Append(under[t], code[t])]
  <2>1. under' = [u \in Target |-> Unders(nest'[u])]  BY DEF under, Unders
  <2>2. Unders(nest'[t]) = Append(under[t], code[t])
    BY <1>1, <1>4, <1>5, UndersAppend, UnderIs
  <2>3. \A u \in Target : u # t => Unders(nest'[u]) = under[u]  BY <1>5, UnderIs
  <2>4. under = [u \in Target |-> under[u]]  BY DEF under
  <2> QED  BY <2>1, <2>2, <2>3, <2>4
<1>7. Hooks!Hook(t)  BY <1>2, <1>3, <1>6 DEF Hooks!Hook, under
<1> QED  BY <1>7

LEMMA UnhookMaps ==
    ASSUME IInv, SInv, NEW th \in Thread, UndoInject(th)
    PROVE  \E t \in Target : Hooks!Unhook(t)
<1>1. PICK t \in Target : t = req[th].target  BY UndoNewest
<1>2. PICK n \in Nat \ {0} : n = Len(nest[t])  BY <1>1, UndoNewest
<1>3. /\ code' = [code EXCEPT ![t] = nest[t][n].under]
      /\ nest' = [nest EXCEPT ![t] = SubSeq(nest[t], 1, n - 1)]
      /\ Len(nest'[t]) = n - 1 /\ \A i \in 1 .. n - 1 : nest'[t][i] = nest[t][i]
  BY <1>1, <1>2, UndoNewest
<1>4. TypeOK /\ TypeOK'
  <2>1. Next  BY DEF Next, Step
  <2> QED  BY <2>1, NextIInv DEF IInv
<1>5. nest[t] \in Seq(Hooked) /\ nest'[t] \in Seq(Hooked) /\ nest[t] # <<>>
  <2>1. nest[t] \in Seq(Hooked) /\ nest'[t] \in Seq(Hooked)  BY <1>4 DEF TypeOK
  <2> QED  BY <1>2, <2>1, EmptySeq
<1>6. \A u \in Target : u # t => nest'[u] = nest[u]  BY <1>3, <1>4 DEF TypeOK
<1>7. Unders(nest[t]) \in Seq(Image) /\ Len(Unders(nest[t])) = n
      /\ Unders(nest[t])[n] = nest[t][n].under
  BY <1>2, <1>5, UndersType
<1>8. Unders(nest'[t]) = SubSeq(Unders(nest[t]), 1, Len(Unders(nest[t])) - 1)
  BY <1>2, <1>3, <1>5, UndersFront
<1>9. under' = [under EXCEPT ![t] = SubSeq(under[t], 1, Len(under[t]) - 1)]
  <2>1. under' = [u \in Target |-> Unders(nest'[u])]  BY DEF under, Unders
  <2>2. Unders(nest'[t]) = SubSeq(under[t], 1, Len(under[t]) - 1)  BY <1>8, UnderIs
  <2>3. \A u \in Target : u # t => Unders(nest'[u]) = under[u]  BY <1>6, UnderIs
  <2>4. under = [u \in Target |-> under[u]]  BY DEF under
  <2> QED  BY <2>1, <2>2, <2>3, <2>4
<1>10. under[t] # <<>>  BY <1>7, UnderIs, EmptySeq
<1>11. code' = [code EXCEPT ![t] = under[t][Len(under[t])]]  BY <1>3, <1>7, UnderIs
<1>12. Hooks!Unhook(t)  BY <1>9, <1>10, <1>11 DEF Hooks!Unhook, under
<1> QED  BY <1>12

LEMMA StepMaps ==
    ASSUME Orderly, IInv, SInv, [Next]_vars
    PROVE  Hooks!Next \/ UNCHANGED <<code, under>>
<1>1. CASE UNCHANGED vars  BY <1>1 DEF vars, under
<1>2. ASSUME NEW th \in Thread, DoInject(th)  PROVE Hooks!Next
  BY <1>2, HookMaps DEF Hooks!Next
<1>3. ASSUME NEW th \in Thread, UndoInject(th)  PROVE Hooks!Next
  BY <1>3, UnhookMaps DEF Hooks!Next
<1>4. ASSUME NEW th \in Thread, UnprotectFails(th)  PROVE UNCHANGED <<code, under>>
  BY <1>4 DEF UnprotectFails, MayFail, Orderly, under
<1>5. ASSUME NEW th \in Thread, Begin(th) \/ Step(th),
             ~(DoInject(th) \/ UndoInject(th) \/ UnprotectFails(th))
      PROVE  UNCHANGED <<code, under>>
  BY <1>5 DEF Step, Begin, BeginInject, BeginUninject, Prepare, PrepareFails,
     Unprotect, Reprotect, ReprotectFails, ReturnInject, ReturnUninject, EndCall, under
<1> QED  BY <1>1, <1>2, <1>3, <1>4, <1>5 DEF Next

\* Seen from outside, concurrent inline hooking is the abstract hook stack: the
\* write of an inject and of an uninject are its steps, all others stutter.
THEOREM InlineIsAHookStack ==
    ASSUME Orderly
    PROVE  Spec => IsAHookStack
<1>1. Init => Hooks!Init
  BY DEF Init, Hooks!Init
<1>2. IInv /\ SInv /\ [Next]_vars => [Hooks!Next]_<<code, under>>
  BY StepMaps
<1> QED  BY <1>1, <1>2, StackInvariant, PTL DEF Spec, IsAHookStack, Hooks!Spec, under
=============================================================================
