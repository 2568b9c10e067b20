--------------------------- MODULE GotHookProofs ---------------------------
(***************************************************************************)
(* For every number of threads, symbols, slots, tokens and helpers, and     *)
(* whichever steps fail: the types, and that no helper leaks or is freed    *)
(* twice.  If the caller lets no two calls in flight have slots in one      *)
(* page, every store hits a writable page, and the protections the loader   *)
(* set come back if mprotect lets them.                                     *)
(***************************************************************************)
EXTENDS GotHook, FiniteSetTheorems, TLAPS

\* Steps of a call that has a helper
Inner == {"visit", "check", "getprot", "setprot", "store", "restore", "finish"}
AtSlot == {"check", "getprot", "setprot", "store", "restore"}

Busy(th) == pc[th] # "idle"

----------------------------------------------------------------------------
(* The inductive invariant *)

\* Where a call has a helper, what of, and that it works on a slot it has noted
Calls ==
    \A th \in Thread :
        /\ ~Busy(th) => mine[th] = NoHelper
        /\ Busy(th) => req[th] \in Request
        /\ pc[th] \in {"lookup", "return"} => req[th].op = "inject"
        /\ pc[th] = "lookup" => mine[th] = NoHelper
        /\ pc[th] \in Inner => mine[th] \in Helper
        /\ pc[th] \in AtSlot => at[th] \in helper[mine[th]].info
        /\ Busy(th) /\ req[th].op = "inject" => token[req[th].token] = NoHelper
        /\ Busy(th) /\ req[th].op = "uninject" => token[req[th].token] = mine[th]

\* A helper in use is allocated; one that is or will be in a token has an origin
Allocated ==
    /\ \A k \in Token : token[k] # NoHelper =>
          helper[token[k]] \in HelperRec /\ helper[token[k]].origin # NoOrigin
    /\ \A th \in Thread : mine[th] # NoHelper =>
          /\ helper[mine[th]] \in HelperRec
          /\ helper[mine[th]].symbol = req[th].symbol
          /\ pc[th] = "return" => helper[mine[th]].origin # NoOrigin
    /\ \A th \in Thread : pc[th] = "return" /\ mine[th] # NoHelper => ret[th] = "success"

\* The addresses noted are those of slots
Noted ==
    \A h \in Helper : helper[h] # Free =>
        \A kind \in helper[h].info : <<helper[h].symbol, kind>> \in Slots

Owners ==
    /\ \A k, l \in Token : k # l /\ token[k] # NoHelper => token[k] # token[l]
    /\ \A th \in Thread : Busy(th) /\ req[th].op = "inject" /\ mine[th] # NoHelper =>
          \A k \in Token : token[k] # mine[th]
    /\ \A th, u \in Thread : th # u /\ mine[th] # NoHelper => mine[th] # mine[u]

Apart ==
    \A th, u \in Thread : th # u /\ Busy(th) /\ Busy(u) =>
        /\ req[th].token # req[u].token
        /\ req[th].symbol # req[u].symbol
        /\ Serial = "page" => PagesOf(req[th].symbol) \cap PagesOf(req[u].symbol) = {}

\* Every allocated helper is in a token or in an inject
Owned ==
    \A h \in Helper : helper[h] # Free =>
        \/ \E k \in Token : token[k] = h
        \/ \E th \in Thread : Busy(th) /\ req[th].op = "inject" /\ mine[th] = h

IInv == Typed /\ Calls /\ Allocated /\ Noted /\ Owners /\ Apart /\ Owned

LEMMA InitIInv == Init => IInv
<1> SUFFICES ASSUME Init PROVE IInv  OBVIOUS
<1> USE GotAssumption
<1>1. Typed
  <2>1. got \in [Slots -> Content]  BY DEF Init, InitGot, Content
  <2> QED  BY <2>1 DEF Init, Typed, Kind
<1>2. Calls  BY DEF Init, Calls, Busy, Inner, AtSlot
<1>3. Allocated /\ Noted /\ Owned  BY DEF Init, Allocated, Noted, Owned
<1>4. Owners  BY DEF Init, Owners, Busy
<1>5. Apart  BY DEF Init, Apart, Busy
<1> QED  BY <1>1, <1>2, <1>3, <1>4, <1>5 DEF IInv

LEMMA BeginInjectStep ==
    ASSUME IInv, NEW th \in Thread, NEW k \in Token, NEW sym \in Symbol, NEW d \in Detour,
           BeginInject(th, k, sym, d)
    PROVE  IInv'
<1> USE DEF IInv, BeginInject
<1>1. Typed'  BY DEF Typed, Request
<1>2. Calls'  BY DEF Calls, Busy, Typed, Request, Inner, AtSlot
<1>3. Allocated'  BY DEF Allocated, Calls, Busy, Typed
<1>4. Noted'  BY DEF Noted
<1>5. Owners'  BY DEF Owners, Calls, Busy, Typed
<1>6. Apart'
  <2>1. \A u \in Thread : u # th /\ Busy(u) =>
           /\ req[u].token # k /\ req[u].symbol # sym
           /\ Serial = "page" => PagesOf(req[u].symbol) \cap PagesOf(sym) = {}
    BY DEF MayCall, InFlight, Busy
  <2>2. /\ req'[th].token = k /\ req'[th].symbol = sym
        /\ \A u \in Thread : u # th => req'[u] = req[u] /\ (Busy(u)' <=> Busy(u))
    BY DEF Typed, Busy
  <2> QED  BY <2>1, <2>2 DEF Apart
<1>7. Owned'  BY DEF Owned, Busy, Typed
<1> QED  BY <1>1, <1>2, <1>3, <1>4, <1>5, <1>6, <1>7

LEMMA BeginUninjectStep ==
    ASSUME IInv, NEW th \in Thread, NEW k \in Token, BeginUninject(th, k)
    PROVE  IInv'
<1> USE DEF IInv
<1> DEFINE h == token[k]
           sym == helper[h].symbol
           d == helper[h].detour
           r == [op |-> "uninject", token |-> k, symbol |-> sym, detour |-> d]
<1>1. /\ pc[th] = "idle" /\ h \in Helper /\ h # NoHelper /\ MayCall(k, sym)
      /\ mine' = [mine EXCEPT ![th] = h] /\ req' = [req EXCEPT ![th] = r]
      /\ pc' = [pc EXCEPT ![th] = "visit"] /\ at' = [at EXCEPT ![th] = "plt"]
      /\ ret' = [ret EXCEPT ![th] = "none"]
      /\ UNCHANGED <<got, prot, helper, token, oldProt, resolving, nest>>
  BY DEF BeginUninject, Typed
<1>2. helper[h] \in HelperRec /\ sym \in Symbol /\ d \in Detour /\ r \in Request
  <2>1. helper[h] \in HelperRec  BY <1>1 DEF Allocated
  <2> QED  BY <2>1 DEF HelperRec, Request
<1>3. r.op = "uninject" /\ r.token = k /\ r.symbol = sym  OBVIOUS
<1> HIDE DEF h, sym, d, r
<1>4. Typed'  BY <1>1, <1>2 DEF Typed, Kind
<1>5. Calls'  BY <1>1, <1>2, <1>3 DEF Calls, Busy, Typed, Inner, AtSlot, h
<1>6. Allocated'  BY <1>1, <1>2, <1>3 DEF Allocated, Typed, sym
<1>7. Noted'  BY <1>1 DEF Noted
<1>8. \A u \in Thread : u # th /\ Busy(u) =>
         /\ req[u].token # k /\ req[u].symbol # sym
         /\ Serial = "page" => PagesOf(req[u].symbol) \cap PagesOf(sym) = {}
  BY <1>1 DEF MayCall, InFlight, Busy
<1>9. Owners'
  <2>1. \A u \in Thread : u # th /\ mine[u] # NoHelper => mine[u] # h
    <3> SUFFICES ASSUME NEW u \in Thread, u # th, mine[u] # NoHelper, mine[u] = h
                 PROVE  FALSE
      OBVIOUS
    <3>1. Busy(u) /\ req[u] \in Request  BY DEF Calls
    <3>2. req[u].token # k  BY <3>1, <1>8
    <3>3. CASE req[u].op = "inject"  BY <3>1, <3>3 DEF Owners, h
    <3>4. CASE req[u].op = "uninject"
      <4>1. token[req[u].token] = token[k]  BY <3>1, <3>4 DEF Calls, h
      <4> QED  BY <4>1, <3>1, <3>2, <1>1 DEF Owners, Request, h
    <3> QED  BY <3>1, <3>3, <3>4 DEF Request
  <2> QED  BY <1>1, <1>3, <2>1 DEF Owners, Calls, Busy, Typed
<1>10. Apart'
  <2>1. /\ req'[th].token = k /\ req'[th].symbol = sym
        /\ \A u \in Thread : u # th => req'[u] = req[u] /\ (Busy(u)' <=> Busy(u))
    BY <1>1, <1>3 DEF Typed, Busy
  <2> QED  BY <1>8, <2>1 DEF Apart
<1>11. Owned'  BY <1>1, <1>3 DEF Owned, Busy, Typed
<1> QED  BY <1>4, <1>5, <1>6, <1>7, <1>9, <1>10, <1>11

LEMMA LookupStep ==
    ASSUME IInv, NEW th \in Thread, Lookup(th)
    PROVE  IInv'
<1> USE DEF IInv
<1> DEFINE rec == NewHelper(req[th].symbol, req[th].detour)
<1>1. PICK h \in Helper : /\ helper[h] = Free
                          /\ helper' = [helper EXCEPT ![h] = rec]
                          /\ mine' = [mine EXCEPT ![th] = h]
  BY DEF Lookup
<1>2. /\ pc[th] = "lookup" /\ pc' = [pc EXCEPT ![th] = "visit"]
      /\ at' = [at EXCEPT ![th] = "plt"]
      /\ UNCHANGED <<got, prot, token, req, oldProt, ret, resolving, nest>>
  BY DEF Lookup
<1>3. /\ req[th] \in Request /\ req[th].op = "inject" /\ mine[th] = NoHelper /\ Busy(th)
  BY <1>2 DEF Calls, Busy
<1>4. rec \in HelperRec /\ rec.symbol = req[th].symbol /\ rec.info = {}
  BY <1>3, GotAssumption DEF NewHelper, HelperRec, Request, Kind
<1>5. h # NoHelper /\ Free \notin HelperRec  BY GotAssumption
<1> HIDE DEF rec
<1>6. (\A k \in Token : token[k] # h) /\ (\A u \in Thread : mine[u] # h)
  BY <1>1, <1>5 DEF Allocated
<1>7. Typed'  BY <1>1, <1>2, <1>4 DEF Typed, Kind
<1>8. Calls'
  <2>1. \A u \in Thread : mine[u] # NoHelper => helper'[mine[u]] = helper[mine[u]]
    BY <1>1, <1>6 DEF Typed
  <2>2. \A u \in Thread : u # th =>
           pc'[u] = pc[u] /\ mine'[u] = mine[u] /\ at'[u] = at[u]
    BY <1>1, <1>2 DEF Typed
  <2>3. pc'[th] = "visit" /\ mine'[th] = h  BY <1>1, <1>2 DEF Typed
  <2>4. \A u \in Thread : pc[u] \in AtSlot => mine[u] # NoHelper
    BY GotAssumption DEF Calls, AtSlot, Inner
  <2> SUFFICES ASSUME NEW u \in Thread
               PROVE  /\ ~Busy(u)' => mine'[u] = NoHelper
                      /\ Busy(u)' => req[u] \in Request
                      /\ pc'[u] \in {"lookup", "return"} => req[u].op = "inject"
                      /\ pc'[u] = "lookup" => mine'[u] = NoHelper
                      /\ pc'[u] \in Inner => mine'[u] \in Helper
                      /\ pc'[u] \in AtSlot => at'[u] \in helper'[mine'[u]].info
                      /\ Busy(u)' /\ req[u].op = "inject" => token[req[u].token] = NoHelper
                      /\ Busy(u)' /\ req[u].op = "uninject" => token[req[u].token] = mine'[u]
    BY <1>2 DEF Calls
  <2>5. CASE u = th  BY <1>3, <2>3, <2>5 DEF Calls, Busy, AtSlot, Inner
  <2>6. CASE u # th  BY <2>1, <2>2, <2>4, <2>6 DEF Calls, Busy
  <2> QED  BY <2>5, <2>6
<1>9. Allocated'  BY <1>1, <1>2, <1>4, <1>5, <1>6 DEF Allocated, Typed
<1>10. Noted'  BY <1>1, <1>4 DEF Noted, Typed
<1>11. Owners'  BY <1>1, <1>2, <1>6 DEF Owners, Busy, Typed
<1>12. Apart'  BY <1>2 DEF Apart, Busy, Typed
<1>13. Owned'
  <2>1. \A u \in Thread : Busy(u) => Busy(u)'  BY <1>2, <1>3 DEF Busy, Typed
  <2> SUFFICES ASSUME NEW g \in Helper, helper'[g] # Free
               PROVE  \/ \E k \in Token : token[k] = g
                      \/ \E u \in Thread : Busy(u)' /\ req[u].op = "inject" /\ mine'[u] = g
    BY <1>2 DEF Owned
  <2>2. CASE g = h
    <3>1. mine'[th] = g /\ Busy(th)'  BY <1>1, <1>3, <2>1, <2>2 DEF Typed
    <3> QED  BY <1>3, <3>1
  <2>3. CASE g # h
    <3>1. helper[g] # Free  BY <1>1, <2>3 DEF Typed
    <3>2. \A u \in Thread : mine[u] = g => mine'[u] = g
      BY <1>1, <1>3, GotAssumption DEF Typed
    <3> QED  BY <2>1, <3>1, <3>2 DEF Owned
  <2> QED  BY <2>2, <2>3
<1> QED  BY <1>7, <1>8, <1>9, <1>10, <1>11, <1>12, <1>13

\* Steps between slots that change neither who owns what nor what is noted
LEMMA InnerStep ==
    ASSUME IInv, NEW th \in Thread, pc[th] \in Inner, NEW step \in Inner,
           pc' = [pc EXCEPT ![th] = step],
           NEW kind \in Kind, at' = [at EXCEPT ![th] = kind],
           step \in AtSlot => kind = at[th] /\ pc[th] \in AtSlot,
           UNCHANGED <<helper, token, req, mine>>,
           \A u \in Thread : u # th => ret'[u] = ret[u]
    PROVE  Calls' /\ Allocated' /\ Noted' /\ Owners' /\ Apart' /\ Owned'
<1> USE DEF IInv
<1>1. Busy(th) /\ pc'[th] = step /\ at'[th] = kind /\ step # "return" /\ step # "lookup"
      /\ \A u \in Thread : u # th => pc'[u] = pc[u] /\ at'[u] = at[u]
  BY DEF Busy, Typed, Inner
<1>2. \A u \in Thread : Busy(u)' <=> Busy(u)  BY <1>1 DEF Busy, Inner
<1>3. Calls'
  <2> SUFFICES ASSUME NEW u \in Thread
               PROVE  /\ ~Busy(u) => mine[u] = NoHelper
                      /\ Busy(u) => req[u] \in Request
                      /\ pc'[u] \in {"lookup", "return"} => req[u].op = "inject"
                      /\ pc'[u] = "lookup" => mine[u] = NoHelper
                      /\ pc'[u] \in Inner => mine[u] \in Helper
                      /\ pc'[u] \in AtSlot => at'[u] \in helper[mine[u]].info
                      /\ Busy(u) /\ req[u].op = "inject" => token[req[u].token] = NoHelper
                      /\ Busy(u) /\ req[u].op = "uninject" => token[req[u].token] = mine[u]
    BY <1>2 DEF Calls
  <2> QED  BY <1>1 DEF Calls
<1>4. Allocated'  BY <1>1 DEF Allocated
<1>5. Noted' /\ Owned'  BY <1>2 DEF Noted, Owned
<1>6. Owners' /\ Apart'  BY <1>2 DEF Owners, Apart
<1> QED  BY <1>3, <1>4, <1>5, <1>6

\* What NextSlot does to the thread's place
LEMMA NextSlotMoves ==
    ASSUME Typed, NEW th \in Thread, NextSlot(th)
    PROVE  \E step \in {"visit", "finish"}, kind \in Kind :
              pc' = [pc EXCEPT ![th] = step] /\ at' = [at EXCEPT ![th] = kind]
<1>1. CASE at[th] = "plt"  BY <1>1 DEF NextSlot, Kind
<1>2. CASE at[th] # "plt"
  <2>1. pc' = [pc EXCEPT ![th] = "finish"] /\ at' = at  BY <1>2 DEF NextSlot
  <2>2. at' = [at EXCEPT ![th] = at[th]] /\ at[th] \in Kind  BY <2>1 DEF Typed
  <2> QED  BY <2>1, <2>2
<1> QED  BY <1>1, <1>2

\* GiveUp keeps the type of nest
LEMMA WithoutType ==
    ASSUME NEW hooks \in Seq(Hooked), NEW h
    PROVE  Without(hooks, h) \in Seq(Hooked)
<1> DEFINE its == {i \in 1 .. Len(hooks) : hooks[i].h = h}
           i == CHOOSE j \in its : TRUE
           rest == [j \in 1 .. Len(hooks) - 1 |-> IF j < i THEN hooks[j] ELSE hooks[j + 1]]
<1>1. CASE its = {}
  BY <1>1 DEF Without
<1>2. CASE its # {}
  <2>1. Without(hooks, h) = rest  BY <1>2 DEF Without
  <2>2. i \in 1 .. Len(hooks)  BY <1>2
  <2> HIDE DEF i
  <2>3. Len(hooks) \in Nat /\ Len(hooks) - 1 \in Nat  BY <2>2
  <2>4. \A j \in 1 .. Len(hooks) - 1 :
           (IF j < i THEN hooks[j] ELSE hooks[j + 1]) \in Hooked  BY <2>2, <2>3
  <2>5. rest \in [1 .. Len(hooks) - 1 -> Hooked]  BY <2>4
  <2> HIDE DEF rest
  <2>6. rest \in Seq(Hooked)  BY <2>3, <2>5
  <2> QED  BY <2>1, <2>6
<1> QED  BY <1>1, <1>2

LEMMA SlotIs ==
    ASSUME IInv, NEW th \in Thread, pc[th] \in AtSlot
    PROVE  /\ Slot(th) \in Slots /\ mine[th] \in Helper /\ mine[th] # NoHelper /\ Busy(th)
           /\ helper[mine[th]] \in HelperRec /\ SlotPage[Slot(th)] \in Page
           /\ SlotPage[Slot(th)] \in PagesOf(req[th].symbol)
<1> USE DEF IInv
<1>1. mine[th] \in Helper /\ mine[th] # NoHelper /\ Busy(th)
  BY GotAssumption DEF Calls, AtSlot, Inner, Busy
<1>2. /\ helper[mine[th]] \in HelperRec /\ helper[mine[th]] # Free
      /\ helper[mine[th]].symbol = req[th].symbol
  BY <1>1, GotAssumption DEF Allocated
<1>3. Slot(th) \in Slots /\ Slot(th)[1] = req[th].symbol
  BY <1>1, <1>2 DEF Calls, Noted, Slot
<1>4. SlotPage[Slot(th)] \in Page  BY <1>3, GotAssumption
<1> QED  BY <1>1, <1>2, <1>3, <1>4 DEF PagesOf

LEMMA InnerSteps ==
    ASSUME IInv, NEW th \in Thread,
           \/ Check(th) \/ GetProt(th) \/ SetProt(th) \/ ReplaceFails(th)
           \/ Restore(th) \/ RestoreFails(th)
    PROVE  IInv'
<1> USE DEF IInv
<1>1. pc[th] \in AtSlot /\ pc[th] \in Inner /\ Typed
  BY DEF Check, GetProt, SetProt, ReplaceFails, Restore, RestoreFails, AtSlot, Inner
<1>2. UNCHANGED <<helper, token, req, mine, got, resolving>>
  BY DEF Check, GetProt, SetProt, ReplaceFails, Restore, RestoreFails
<1>3. /\ Slot(th) \in Slots /\ SlotPage[Slot(th)] \in Page  BY <1>1, SlotIs
<1>4. ret' \in [Thread -> {"none", "success", "error"}]
      /\ \A u \in Thread : u # th => ret'[u] = ret[u]
  BY DEF Typed, Check, GetProt, SetProt, ReplaceFails, Restore, RestoreFails
<1>5. prot' \in [Page -> {"R", "RW"}] /\ oldProt' \in [Thread -> {"R", "RW"}]
  <2>1. CASE Check(th) \/ ReplaceFails(th) \/ RestoreFails(th)
    BY <2>1 DEF Typed, Check, ReplaceFails, RestoreFails
  <2>2. CASE GetProt(th)
    <3>1. prot[SlotPage[Slot(th)]] \in {"R", "RW"}  BY <1>3 DEF Typed
    <3> QED  BY <2>2, <3>1 DEF GetProt, Typed
  <2>3. CASE SetProt(th)  BY <1>3, <2>3 DEF SetProt, Typed
  <2>4. CASE Restore(th)
    <3>1. oldProt[th] \in {"R", "RW"}  BY DEF Typed
    <3> QED  BY <2>4, <3>1 DEF Restore, Typed
  <2> QED  BY <2>1, <2>2, <2>3, <2>4
<1>6. nest' \in [Slots -> Seq(Hooked)]
  <2>1. GiveUp(th) => nest' \in [Slots -> Seq(Hooked)]
    <3>1. Without(nest[Slot(th)], mine[th]) \in Seq(Hooked)
      BY <1>3, WithoutType DEF Typed
    <3> QED  BY <1>3, <3>1 DEF GiveUp, Typed
  <2>2. GiveUp(th) \/ nest' = nest
    BY DEF Check, GetProt, SetProt, ReplaceFails, Restore, RestoreFails
  <2> QED  BY <2>1, <2>2 DEF Typed
<1>7. at' = at => at' = [at EXCEPT ![th] = at[th]] /\ at[th] \in Kind  BY DEF Typed
<1>8. \E step \in Inner, kind \in Kind :
         /\ pc' = [pc EXCEPT ![th] = step] /\ at' = [at EXCEPT ![th] = kind]
         /\ step \in AtSlot => kind = at[th]
  <2>1. CASE NextSlot(th)  BY <1>1, <2>1, NextSlotMoves DEF Inner, AtSlot
  <2>2. CASE ~NextSlot(th)
    <3>1. at' = at
      BY <2>2 DEF Check, GetProt, SetProt, ReplaceFails, Restore, RestoreFails
    <3>2. \E step \in Inner : pc' = [pc EXCEPT ![th] = step]
      BY <2>2 DEF Check, GetProt, SetProt, ReplaceFails, Restore, RestoreFails, Inner
    <3> QED  BY <1>7, <3>1, <3>2
  <2> QED  BY <2>1, <2>2
<1>9. PICK step \in Inner, kind \in Kind :
         /\ pc' = [pc EXCEPT ![th] = step] /\ at' = [at EXCEPT ![th] = kind]
         /\ step \in AtSlot => kind = at[th]
  BY <1>8
<1>10. Typed'  BY <1>2, <1>4, <1>5, <1>6, <1>9 DEF Typed, Inner
<1>11. Calls' /\ Allocated' /\ Noted' /\ Owners' /\ Apart' /\ Owned'
  BY <1>1, <1>2, <1>4, <1>9, InnerStep
<1> QED  BY <1>10, <1>11

LEMMA LookupFailsStep ==
    ASSUME IInv, NEW th \in Thread, LookupFails(th)
    PROVE  IInv'
<1> USE DEF IInv
<1>1. /\ pc[th] = "lookup" /\ pc' = [pc EXCEPT ![th] = "return"]
      /\ ret' = [ret EXCEPT ![th] = "error"]
      /\ UNCHANGED <<got, prot, helper, token, req, mine, at, oldProt, resolving, nest>>
  BY DEF LookupFails
<1>2. Busy(th) /\ req[th].op = "inject" /\ mine[th] = NoHelper
  BY <1>1 DEF Calls, Busy
<1>3. \A u \in Thread : Busy(u)' <=> Busy(u)  BY <1>1, <1>2 DEF Busy, Typed
<1>4. Typed'  BY <1>1 DEF Typed
<1>5. Calls'  BY <1>1, <1>2, <1>3 DEF Calls, Typed, Inner, AtSlot
<1>6. Allocated'  BY <1>1, <1>2 DEF Allocated, Typed
<1>7. Noted' /\ Owned'  BY <1>1, <1>3 DEF Noted, Owned
<1>8. Owners' /\ Apart'  BY <1>1, <1>3 DEF Owners, Apart
<1> QED  BY <1>4, <1>5, <1>6, <1>7, <1>8

\* Steps that also write to the helper of the call, but leave it what it is for.
LEMMA HelperStep ==
    ASSUME IInv, NEW th \in Thread, pc[th] \in Inner, NEW step \in Inner,
           pc' = [pc EXCEPT ![th] = step],
           NEW kind \in Kind, at' = [at EXCEPT ![th] = kind],
           NEW rec \in HelperRec, helper' = [helper EXCEPT ![mine[th]] = rec],
           rec.symbol = helper[mine[th]].symbol,
           \A x \in rec.info : <<rec.symbol, x>> \in Slots,
           step \in AtSlot => kind \in rec.info,
           helper[mine[th]].origin # NoOrigin => rec.origin # NoOrigin,
           UNCHANGED <<token, req, mine, ret>>
    PROVE  Calls' /\ Allocated' /\ Noted' /\ Owners' /\ Apart' /\ Owned'
<1> USE DEF IInv
<1>1. /\ Busy(th) /\ pc'[th] = step /\ at'[th] = kind /\ step # "return" /\ step # "lookup"
      /\ \A u \in Thread : u # th => pc'[u] = pc[u] /\ at'[u] = at[u]
  BY DEF Busy, Typed, Inner
<1>2. \A u \in Thread : Busy(u)' <=> Busy(u)  BY <1>1 DEF Busy, Inner
<1>3. mine[th] \in Helper /\ mine[th] # NoHelper /\ helper'[mine[th]] = rec
      /\ \A g \in Helper : g # mine[th] => helper'[g] = helper[g]
  BY GotAssumption DEF Calls, Typed
<1>4. rec # Free /\ helper[mine[th]] # Free /\ helper[mine[th]] \in HelperRec
  BY <1>3, GotAssumption DEF Allocated
<1>5. \A u \in Thread : u # th /\ mine[u] # NoHelper => helper'[mine[u]] = helper[mine[u]]
  BY <1>3 DEF Owners, Typed
<1>6. Calls'
  <2> SUFFICES ASSUME NEW u \in Thread
               PROVE  /\ ~Busy(u) => mine[u] = NoHelper
                      /\ Busy(u) => req[u] \in Request
                      /\ pc'[u] \in {"lookup", "return"} => req[u].op = "inject"
                      /\ pc'[u] = "lookup" => mine[u] = NoHelper
                      /\ pc'[u] \in Inner => mine[u] \in Helper
                      /\ pc'[u] \in AtSlot => at'[u] \in helper'[mine[u]].info
                      /\ Busy(u) /\ req[u].op = "inject" => token[req[u].token] = NoHelper
                      /\ Busy(u) /\ req[u].op = "uninject" => token[req[u].token] = mine[u]
    BY <1>2 DEF Calls
  <2>1. pc[u] \in AtSlot => mine[u] # NoHelper  BY GotAssumption DEF Calls, AtSlot, Inner
  <2>2. CASE u = th  BY <1>1, <1>3, <2>2 DEF Calls
  <2>3. CASE u # th  BY <1>1, <1>5, <2>1, <2>3 DEF Calls
  <2> QED  BY <2>2, <2>3
<1>7. Allocated'
  <2>1. \A k \in Token : token[k] # NoHelper =>
           helper'[token[k]] \in HelperRec /\ helper'[token[k]].origin # NoOrigin
    BY <1>3 DEF Allocated, Typed
  <2>2. \A u \in Thread : mine[u] # NoHelper =>
           /\ helper'[mine[u]] \in HelperRec
           /\ helper'[mine[u]].symbol = req[u].symbol
           /\ pc'[u] = "return" => helper'[mine[u]].origin # NoOrigin
    <3> TAKE u \in Thread
    <3>1. CASE u = th  BY <1>1, <1>3, <3>1 DEF Allocated
    <3>2. CASE u # th  BY <1>1, <1>5, <3>2 DEF Allocated
    <3> QED  BY <3>1, <3>2
  <2>3. \A u \in Thread : pc'[u] = "return" /\ mine[u] # NoHelper => ret[u] = "success"
    BY <1>1 DEF Allocated
  <2> QED  BY <2>1, <2>2, <2>3 DEF Allocated
<1>8. Noted'  BY <1>3 DEF Noted
<1>9. Owned'  BY <1>2, <1>3, <1>4 DEF Owned
<1>10. Owners' /\ Apart'  BY <1>2 DEF Owners, Apart
<1> QED  BY <1>6, <1>7, <1>8, <1>9, <1>10

LEMMA VisitStep ==
    ASSUME IInv, NEW th \in Thread, Visit(th)
    PROVE  IInv'
<1> USE DEF IInv
<1> DEFINE h == mine[th]
           rec == [helper[h] EXCEPT !.info = @ \cup {at[th]}]
<1>1. /\ pc[th] = "visit" /\ pc[th] \in Inner /\ Busy(th) /\ req[th] \in Request
      /\ UNCHANGED <<got, prot, token, req, mine, oldProt, ret, resolving, nest>>
  BY DEF Visit, Inner, Calls, Busy
<1>2. h \in Helper /\ h # NoHelper /\ helper[h] \in HelperRec /\ helper[h] # Free
  BY <1>1, GotAssumption DEF Calls, Allocated
<1>3. CASE HasSlot(th)
  <2>1. /\ helper' = [helper EXCEPT ![h] = rec]
        /\ pc' = [pc EXCEPT ![th] = "check"] /\ at' = at
    BY <1>2, <1>3 DEF Visit, Typed
  <2>2. at' = [at EXCEPT ![th] = at[th]] /\ at[th] \in Kind  BY <2>1 DEF Typed
  <2>3. /\ rec \in HelperRec /\ rec.symbol = helper[h].symbol
        /\ rec.info = helper[h].info \cup {at[th]} /\ rec.origin = helper[h].origin
    BY <1>2, <2>2 DEF HelperRec
  <2>4. <<helper[h].symbol, at[th]>> \in Slots
    <3>1. CASE Injecting(th)  BY <1>3, <3>1 DEF HasSlot, Slot
    <3>2. CASE ~Injecting(th)  BY <1>2, <1>3, <3>2 DEF HasSlot, Noted
    <3> QED  BY <3>1, <3>2
  <2>5. \A x \in rec.info : <<rec.symbol, x>> \in Slots
    BY <1>2, <2>3, <2>4 DEF Noted
  <2> HIDE DEF rec
  <2>6. "check" \in Inner  BY DEF Inner
  <2>7. Typed'  BY <1>1, <2>1, <2>3 DEF Typed
  <2>8. Calls' /\ Allocated' /\ Noted' /\ Owners' /\ Apart' /\ Owned'
    BY <1>1, <2>1, <2>2, <2>3, <2>5, <2>6, HelperStep
  <2> QED  BY <2>7, <2>8
<1>4. CASE ~HasSlot(th)
  <2>1. NextSlot(th) /\ UNCHANGED helper  BY <1>4 DEF Visit
  <2>2. PICK step \in {"visit", "finish"}, kind \in Kind :
           pc' = [pc EXCEPT ![th] = step] /\ at' = [at EXCEPT ![th] = kind]
    BY <2>1, NextSlotMoves
  <2>3. step \in Inner /\ step \notin AtSlot  BY DEF Inner, AtSlot
  <2>4. Typed'  BY <1>1, <2>1, <2>2, <2>3 DEF Typed
  <2>5. Calls' /\ Allocated' /\ Noted' /\ Owners' /\ Apart' /\ Owned'
    BY <1>1, <2>1, <2>2, <2>3, InnerStep
  <2> QED  BY <2>4, <2>5
<1> QED  BY <1>3, <1>4

LEMMA StoreStep ==
    ASSUME IInv, NEW th \in Thread, Store(th)
    PROVE  IInv'
<1> USE DEF IInv
<1> DEFINE h == mine[th]
           s == Slot(th)
           new == NewFunc(th)
           rec == [helper[h] EXCEPT !.origin = Saved(th)]
           e == [h |-> h, under |-> got[s]]
<1>1. /\ pc[th] = "store" /\ pc[th] \in Inner /\ pc[th] \in AtSlot
      /\ UNCHANGED <<prot, token, req, mine, oldProt, ret, resolving>>
      /\ got' = [got EXCEPT ![s] = new]
  BY DEF Store, Inner, AtSlot
<1>2. /\ s \in Slots /\ h \in Helper /\ h # NoHelper /\ Busy(th)
      /\ helper[h] \in HelperRec /\ at[th] \in helper[h].info /\ helper[h] # Free
      /\ req[th] \in Request
  BY <1>1, SlotIs, GotAssumption DEF Calls
<1>3. got[s] \in Content  BY <1>2 DEF Typed
<1>4. \E step \in Inner, kind \in Kind :
         /\ pc' = [pc EXCEPT ![th] = step] /\ at' = [at EXCEPT ![th] = kind]
         /\ step \in AtSlot => kind = at[th]
  <2>1. CASE oldProt[th] # "RW"
    <3>1. pc' = [pc EXCEPT ![th] = "restore"] /\ at' = at  BY <2>1 DEF Store
    <3>2. at' = [at EXCEPT ![th] = at[th]] /\ at[th] \in Kind  BY <3>1 DEF Typed
    <3> QED  BY <3>1, <3>2 DEF Inner
  <2>2. CASE oldProt[th] = "RW"
    <3>1. NextSlot(th)  BY <2>2 DEF Store
    <3> QED  BY <3>1, NextSlotMoves DEF Inner, AtSlot
  <2> QED  BY <2>1, <2>2
<1>5. PICK step \in Inner, kind \in Kind :
         /\ pc' = [pc EXCEPT ![th] = step] /\ at' = [at EXCEPT ![th] = kind]
         /\ step \in AtSlot => kind = at[th]
  BY <1>4
<1>6. CASE Injecting(th)
  <2>1. helper' = [helper EXCEPT ![h] = rec] /\ nest' = [nest EXCEPT ![s] = Append(nest[s], e)]
    BY <1>2, <1>6 DEF Store, Typed
  <2>2. /\ rec \in HelperRec /\ rec.symbol = helper[h].symbol
        /\ rec.info = helper[h].info /\ rec.origin = got[s]
    BY <1>2, <1>3 DEF HelperRec, Saved
  <2>3. \A x \in rec.info : <<rec.symbol, x>> \in Slots  BY <1>2, <2>2 DEF Noted
  <2>4. rec.origin # NoOrigin  BY <1>3, <2>2, GotAssumption
  <2>5. new \in Content  BY <1>2, <1>6 DEF NewFunc, HelperRec, Content
  <2>6. Append(nest[s], e) \in Seq(Hooked)
    <3>1. e \in Hooked /\ nest[s] \in Seq(Hooked)  BY <1>2, <1>3 DEF Hooked, Typed
    <3> QED  BY <3>1
  <2> HIDE DEF rec, e, new, h, s
  <2>7. Typed'  BY <1>1, <1>2, <1>5, <2>1, <2>2, <2>5, <2>6 DEF Typed, Inner
  <2>8. Calls' /\ Allocated' /\ Noted' /\ Owners' /\ Apart' /\ Owned'
    BY <1>1, <1>2, <1>5, <2>1, <2>2, <2>3, <2>4, HelperStep DEF h
  <2> QED  BY <2>7, <2>8
<1>7. CASE ~Injecting(th)
  <2>1. helper' = helper /\ nest' = [nest EXCEPT ![s] = Without(nest[s], h)]
    BY <1>2, <1>7 DEF Store, Typed
  <2>2. new \in Content
    <3>1. req[th].op = "uninject"  BY <1>2, <1>7 DEF Injecting, Busy, Request
    <3>2. token[req[th].token] = h /\ req[th].token \in Token
      BY <1>2, <3>1 DEF Calls, Request
    <3>3. helper[h].origin # NoOrigin  BY <1>2, <3>2 DEF Allocated
    <3> QED  BY <1>2, <1>7, <3>3 DEF NewFunc, HelperRec
  <2>3. Without(nest[s], h) \in Seq(Hooked)  BY <1>2, WithoutType DEF Typed
  <2> HIDE DEF new, h, s
  <2>4. Typed'  BY <1>1, <1>2, <1>5, <2>1, <2>2, <2>3 DEF Typed, Inner
  <2>5. Calls' /\ Allocated' /\ Noted' /\ Owners' /\ Apart' /\ Owned'
    BY <1>1, <1>5, <2>1, InnerStep
  <2> QED  BY <2>4, <2>5
<1> QED  BY <1>6, <1>7

LEMMA FinishInjectStep ==
    ASSUME IInv, NEW th \in Thread, FinishInject(th)
    PROVE  IInv'
<1> USE DEF IInv
<1> DEFINE h == mine[th]
           keep == Result(th) = "success" /\ helper[h].origin # NoOrigin
<1>1. /\ pc[th] = "finish" /\ pc' = [pc EXCEPT ![th] = "return"] /\ Injecting(th)
      /\ ret' = [ret EXCEPT ![th] = Result(th)]
      /\ helper' = IF keep THEN helper ELSE [helper EXCEPT ![h] = Free]
      /\ mine' = IF keep THEN mine ELSE [mine EXCEPT ![th] = NoHelper]
      /\ UNCHANGED <<got, prot, token, req, at, oldProt, resolving, nest>>
  BY DEF FinishInject
<1>2. Busy(th) /\ req[th].op = "inject" /\ h \in Helper /\ h # NoHelper
  BY <1>1, GotAssumption DEF Calls, Busy, Inner, Injecting
<1>3. Result(th) \in {"success", "error"}  BY DEF Result
<1>4. \A u \in Thread : Busy(u)' <=> Busy(u)  BY <1>1, <1>2 DEF Busy, Typed
<1>5. (\A k \in Token : token[k] # h) /\ (\A u \in Thread : u # th => mine[u] # h)
  BY <1>2 DEF Owners
<1>6. /\ keep => Result(th) = "success" /\ helper[h].origin # NoOrigin
      /\ keep \in BOOLEAN
  OBVIOUS
<1> HIDE DEF h, keep
<1>7. Typed'  BY <1>1, <1>3 DEF Typed
<1>8. \A u \in Thread : u # th =>
         /\ pc'[u] = pc[u] /\ mine'[u] = mine[u] /\ ret'[u] = ret[u]
         /\ mine[u] # NoHelper => helper'[mine[u]] = helper[mine[u]]
  BY <1>1, <1>5 DEF Typed
<1>9. /\ pc'[th] = "return" /\ ret'[th] = Result(th)
      /\ mine'[th] = IF keep THEN h ELSE NoHelper
      /\ keep => helper' = helper
  BY <1>1 DEF Typed, h
<1>10. Calls'
  <2> SUFFICES ASSUME NEW u \in Thread
               PROVE  /\ ~Busy(u) => mine'[u] = NoHelper
                      /\ Busy(u) => req[u] \in Request
                      /\ pc'[u] \in {"lookup", "return"} => req[u].op = "inject"
                      /\ pc'[u] = "lookup" => mine'[u] = NoHelper
                      /\ pc'[u] \in Inner => mine'[u] \in Helper
                      /\ pc'[u] \in AtSlot => at[u] \in helper'[mine'[u]].info
                      /\ Busy(u) /\ req[u].op = "inject" => token[req[u].token] = NoHelper
                      /\ Busy(u) /\ req[u].op = "uninject" => token[req[u].token] = mine'[u]
    BY <1>1, <1>4 DEF Calls
  <2>1. pc[u] \in AtSlot => mine[u] # NoHelper  BY GotAssumption DEF Calls, AtSlot, Inner
  <2>2. CASE u = th  BY <1>2, <1>9, <2>2 DEF Calls, Inner, AtSlot
  <2>3. CASE u # th  BY <1>8, <2>1, <2>3 DEF Calls
  <2> QED  BY <2>2, <2>3
<1>11. Allocated'
  <2>1. \A k \in Token : token[k] # NoHelper =>
           helper'[token[k]] \in HelperRec /\ helper'[token[k]].origin # NoOrigin
    BY <1>1, <1>5 DEF Allocated, Typed
  <2>2. \A u \in Thread : mine'[u] # NoHelper =>
           /\ helper'[mine'[u]] \in HelperRec
           /\ helper'[mine'[u]].symbol = req[u].symbol
           /\ pc'[u] = "return" => helper'[mine'[u]].origin # NoOrigin
    <3> TAKE u \in Thread
    <3>1. CASE u = th  BY <1>2, <1>6, <1>9, <3>1 DEF Allocated, h
    <3>2. CASE u # th  BY <1>8, <3>2 DEF Allocated
    <3> QED  BY <3>1, <3>2
  <2>3. \A u \in Thread : pc'[u] = "return" /\ mine'[u] # NoHelper => ret'[u] = "success"
    BY <1>6, <1>8, <1>9 DEF Allocated
  <2> QED  BY <1>1, <2>1, <2>2, <2>3 DEF Allocated
<1>12. Noted'  BY <1>1 DEF Noted, Typed
<1>13. Owners'  BY <1>1, <1>4, <1>8, <1>9 DEF Owners, h
<1>14. Apart'  BY <1>1, <1>4 DEF Apart
<1>15. Owned'
  <2> SUFFICES ASSUME NEW g \in Helper, helper'[g] # Free
               PROVE  \/ \E k \in Token : token[k] = g
                      \/ \E u \in Thread : Busy(u) /\ req[u].op = "inject" /\ mine'[u] = g
    BY <1>1, <1>4 DEF Owned
  <2>1. helper[g] # Free /\ (keep \/ g # h)  BY <1>1, <1>2 DEF Typed
  <2>2. \A u \in Thread : mine[u] = g => mine'[u] = g
    BY <1>8, <1>9, <2>1 DEF h
  <2> QED  BY <2>1, <2>2 DEF Owned
<1> QED  BY <1>7, <1>10, <1>11, <1>12, <1>13, <1>14, <1>15

LEMMA ReturnInjectStep ==
    ASSUME IInv, NEW th \in Thread, ReturnInject(th)
    PROVE  IInv'
<1> USE DEF IInv
<1> DEFINE h == mine[th]
           k == req[th].token
<1>1. /\ pc[th] = "return" /\ Busy(th) /\ req[th].op = "inject" /\ k \in Token
      /\ token' = IF ret[th] = "success" THEN [token EXCEPT ![k] = h] ELSE token
      /\ pc' = [pc EXCEPT ![th] = "idle"] /\ req' = [req EXCEPT ![th] = NoRequest]
      /\ mine' = [mine EXCEPT ![th] = NoHelper] /\ at' = [at EXCEPT ![th] = "plt"]
      /\ oldProt' = [oldProt EXCEPT ![th] = "R"]
      /\ UNCHANGED <<got, prot, resolving, nest, helper, ret>>
  BY DEF ReturnInject, Return, Injecting, Calls, Busy, Request
<1>2. h # NoHelper => /\ helper[h] \in HelperRec /\ helper[h].origin # NoOrigin
                      /\ ret[th] = "success" /\ \A l \in Token : token[l] # h
  BY <1>1 DEF Allocated, Owners
<1>3. \A u \in Thread : u # th /\ Busy(u) => req[u].token # k
  BY <1>1 DEF Apart
<1>4. h \in Helper \cup {NoHelper} /\ token[k] = NoHelper
  BY <1>1 DEF Typed, Calls
<1>5. \A u \in Thread : u # th /\ h # NoHelper => mine[u] # h  BY DEF Owners
<1> HIDE DEF k
<1>6. Typed'
  <2> HIDE DEF h
  <2> QED  BY <1>1, <1>4 DEF Typed, Kind
<1>7. \A u \in Thread : u # th =>
         pc'[u] = pc[u] /\ mine'[u] = mine[u] /\ req'[u] = req[u] /\ at'[u] = at[u]
  BY <1>1 DEF Typed
<1>8. pc'[th] = "idle" /\ mine'[th] = NoHelper  BY <1>1 DEF Typed
<1>9. \A u \in Thread : Busy(u)' <=> u # th /\ Busy(u)  BY <1>7, <1>8 DEF Busy
<1>10. Calls'
  <2>1. \A u \in Thread : u # th /\ Busy(u) =>
           req[u].token \in Token /\ token'[req[u].token] = token[req[u].token]
    BY <1>1, <1>3 DEF Typed, Calls, Request
  <2> SUFFICES ASSUME NEW u \in Thread
               PROVE  /\ ~Busy(u)' => mine'[u] = NoHelper
                      /\ Busy(u)' => req'[u] \in Request
                      /\ pc'[u] \in {"lookup", "return"} => req'[u].op = "inject"
                      /\ pc'[u] = "lookup" => mine'[u] = NoHelper
                      /\ pc'[u] \in Inner => mine'[u] \in Helper
                      /\ pc'[u] \in AtSlot => at'[u] \in helper[mine'[u]].info
                      /\ Busy(u)' /\ req'[u].op = "inject" => token'[req'[u].token] = NoHelper
                      /\ Busy(u)' /\ req'[u].op = "uninject" => token'[req'[u].token] = mine'[u]
    BY <1>1 DEF Calls
  <2>2. CASE u = th  BY <1>8, <1>9, <2>2 DEF Inner, AtSlot
  <2>3. CASE u # th  BY <1>7, <1>9, <2>1, <2>3 DEF Calls
  <2> QED  BY <2>2, <2>3
<1>11. Allocated'
  <2>1. \A l \in Token : token'[l] # NoHelper =>
           helper[token'[l]] \in HelperRec /\ helper[token'[l]].origin # NoOrigin
    <3> TAKE l \in Token
    <3>1. token'[l] = token[l] \/ token'[l] = h  BY <1>1 DEF Typed
    <3> QED  BY <1>2, <3>1 DEF Allocated
  <2>2. \A u \in Thread : mine'[u] # NoHelper => u # th  BY <1>8
  <2> QED  BY <1>1, <1>7, <1>8, <2>1, <2>2 DEF Allocated
<1>12. Noted'  BY <1>1 DEF Noted
<1>13. Owners'
  <2>1. \A l, m \in Token : l # m /\ token'[l] # NoHelper => token'[l] # token'[m]
    <3> HIDE DEF h
    <3> QED  BY <1>1, <1>2, <1>4 DEF Owners, Typed
  <2>2. \A u \in Thread : Busy(u)' /\ req'[u].op = "inject" /\ mine'[u] # NoHelper =>
           \A l \in Token : token'[l] # mine'[u]
    <3> TAKE u \in Thread
    <3>1. \A l \in Token : token'[l] = token[l] \/ token'[l] = h  BY <1>1 DEF Typed
    <3> QED  BY <1>5, <1>7, <1>9, <3>1 DEF Owners
  <2>3. \A u, v \in Thread : u # v /\ mine'[u] # NoHelper => mine'[u] # mine'[v]
    BY <1>7, <1>8 DEF Owners
  <2> QED  BY <2>1, <2>2, <2>3 DEF Owners
<1>14. Apart'  BY <1>7, <1>9 DEF Apart
<1>15. Owned'
  <2> SUFFICES ASSUME NEW g \in Helper, helper[g] # Free
               PROVE  \/ \E l \in Token : token'[l] = g
                      \/ \E u \in Thread : Busy(u)' /\ req'[u].op = "inject" /\ mine'[u] = g
    BY <1>1 DEF Owned
  <2>1. g # NoHelper  BY GotAssumption
  <2>2. \A l \in Token : token[l] = g => token'[l] = g
    BY <1>1, <1>4, <2>1 DEF Typed
  <2>3. h = g => token'[k] = g  BY <1>1, <1>2, <2>1 DEF Typed
  <2>4. \A u \in Thread : u # th /\ Busy(u) =>
           Busy(u)' /\ req'[u] = req[u] /\ mine'[u] = mine[u]
    BY <1>7, <1>9
  <2> QED  BY <1>1, <2>2, <2>3, <2>4 DEF Owned
<1> QED  BY <1>6, <1>10, <1>11, <1>12, <1>13, <1>14, <1>15

LEMMA ReturnUninjectStep ==
    ASSUME IInv, NEW th \in Thread, ReturnUninject(th)
    PROVE  IInv'
<1> USE DEF IInv
<1> DEFINE h == mine[th]
           k == req[th].token
<1>1. /\ Busy(th) /\ req[th].op = "uninject" /\ k \in Token
      /\ h \in Helper /\ h # NoHelper /\ token[k] = h
      /\ helper' = [helper EXCEPT ![h] = Free]
      /\ token' = [token EXCEPT ![k] = NoHelper]
      /\ ret' = [ret EXCEPT ![th] = "success"]
      /\ pc' = [pc EXCEPT ![th] = "idle"] /\ req' = [req EXCEPT ![th] = NoRequest]
      /\ mine' = [mine EXCEPT ![th] = NoHelper] /\ at' = [at EXCEPT ![th] = "plt"]
      /\ oldProt' = [oldProt EXCEPT ![th] = "R"]
      /\ UNCHANGED <<got, prot, resolving, nest>>
  <2>1. pc[th] = "finish" /\ Busy(th) /\ ~Injecting(th)  BY DEF ReturnUninject, Busy
  <2>2. req[th] \in Request /\ req[th].op = "uninject" /\ h \in Helper
    BY <2>1 DEF Calls, Injecting, Busy, Request, Inner
  <2> QED  BY <2>1, <2>2, GotAssumption DEF ReturnUninject, Return, Calls, Request
<1>2. \A l \in Token : l # k => token[l] # h  BY <1>1 DEF Owners
<1>3. \A u \in Thread : u # th => mine[u] # h  BY <1>1 DEF Owners
<1>4. \A u \in Thread : u # th /\ Busy(u) => req[u].token # k
  BY <1>1 DEF Apart
<1> HIDE DEF h, k
<1>5. Typed'  BY <1>1 DEF Typed, Kind
<1>6. \A u \in Thread : u # th =>
         /\ pc'[u] = pc[u] /\ mine'[u] = mine[u] /\ req'[u] = req[u] /\ at'[u] = at[u]
         /\ ret'[u] = ret[u]
         /\ mine[u] # NoHelper => helper'[mine[u]] = helper[mine[u]]
  BY <1>1, <1>3 DEF Typed
<1>7. pc'[th] = "idle" /\ mine'[th] = NoHelper  BY <1>1 DEF Typed
<1>8. \A u \in Thread : Busy(u)' <=> u # th /\ Busy(u)  BY <1>6, <1>7 DEF Busy
<1>9. Calls'
  <2>1. \A u \in Thread : u # th /\ Busy(u) =>
           req[u].token \in Token /\ token'[req[u].token] = token[req[u].token]
    BY <1>1, <1>4 DEF Typed, Calls, Request
  <2> SUFFICES ASSUME NEW u \in Thread
               PROVE  /\ ~Busy(u)' => mine'[u] = NoHelper
                      /\ Busy(u)' => req'[u] \in Request
                      /\ pc'[u] \in {"lookup", "return"} => req'[u].op = "inject"
                      /\ pc'[u] = "lookup" => mine'[u] = NoHelper
                      /\ pc'[u] \in Inner => mine'[u] \in Helper
                      /\ pc'[u] \in AtSlot => at'[u] \in helper'[mine'[u]].info
                      /\ Busy(u)' /\ req'[u].op = "inject" => token'[req'[u].token] = NoHelper
                      /\ Busy(u)' /\ req'[u].op = "uninject" => token'[req'[u].token] = mine'[u]
    BY DEF Calls
  <2>2. CASE u = th  BY <1>7, <1>8, <2>2 DEF Inner, AtSlot
  <2>3. CASE u # th
    <3>1. pc[u] \in AtSlot => mine[u] # NoHelper  BY GotAssumption DEF Calls, AtSlot, Inner
    <3> QED  BY <1>6, <1>8, <2>1, <2>3, <3>1 DEF Calls
  <2> QED  BY <2>2, <2>3
<1>10. Allocated'
  <2>1. \A l \in Token : token'[l] # NoHelper =>
           token'[l] = token[l] /\ helper'[token[l]] = helper[token[l]]
    BY <1>1, <1>2 DEF Typed
  <2>2. \A u \in Thread : mine'[u] # NoHelper => u # th  BY <1>7
  <2> QED  BY <1>6, <2>1, <2>2, <1>7 DEF Allocated
<1>11. Noted'  BY <1>1 DEF Noted, Typed
<1>12. Owners'  BY <1>1, <1>6, <1>7, <1>8 DEF Owners, Typed
<1>13. Apart'  BY <1>6, <1>8 DEF Apart
<1>14. Owned'
  <2> SUFFICES ASSUME NEW g \in Helper, helper'[g] # Free
               PROVE  \/ \E l \in Token : token'[l] = g
                      \/ \E u \in Thread : Busy(u)' /\ req'[u].op = "inject" /\ mine'[u] = g
    BY DEF Owned
  <2>1. g # h /\ helper[g] # Free  BY <1>1 DEF Typed
  <2>2. \A l \in Token : token[l] = g => token'[l] = g  BY <1>1, <2>1 DEF Typed
  <2>3. \A u \in Thread : u # th /\ Busy(u) =>
           Busy(u)' /\ req'[u] = req[u] /\ mine'[u] = mine[u]
    BY <1>6, <1>8
  <2> QED  BY <1>1, <2>1, <2>2, <2>3 DEF Owned
<1> QED  BY <1>5, <1>9, <1>10, <1>11, <1>12, <1>13, <1>14

LEMMA LoaderStep ==
    ASSUME IInv, Loader
    PROVE  IInv'
<1> USE DEF IInv
<1>1. UNCHANGED <<prot, helper, token, pc, req, mine, at, oldProt, ret, nest>>
  BY DEF Loader, StartResolve, EndResolve, local
<1>2. Typed'
  <2>1. resolving' \subseteq Symbol  BY DEF Loader, StartResolve, EndResolve, Typed
  <2>2. got' \in [Slots -> Content]
    BY DEF Loader, StartResolve, EndResolve, Typed, Content
  <2> QED  BY <1>1, <2>1, <2>2 DEF Typed
<1>3. Calls' /\ Allocated'  BY <1>1 DEF Calls, Allocated, Busy
<1>4. Noted' /\ Owned'  BY <1>1 DEF Noted, Owned, Busy
<1>5. Owners' /\ Apart'  BY <1>1 DEF Owners, Apart, Busy
<1> QED  BY <1>2, <1>3, <1>4, <1>5

LEMMA RunIInv ==
    ASSUME IInv, Run
    PROVE  IInv'
<1>1. ASSUME NEW th \in Thread, Begin(th) PROVE IInv'
  BY <1>1, BeginInjectStep, BeginUninjectStep DEF Begin
<1>2. ASSUME NEW th \in Thread, Step(th) PROVE IInv'
  BY <1>2, LookupStep, LookupFailsStep, VisitStep, InnerSteps, StoreStep,
     FinishInjectStep, ReturnInjectStep, ReturnUninjectStep DEF Step
<1> QED  BY <1>1, <1>2, LoaderStep DEF Run

\* A step in which no call gets on: none at all, or the process dies
Halt == UNCHANGED vars \/ \E th \in Thread : CallocFails(th)

LEMMA HaltKeeps ==
    Halt => UNCHANGED <<got, prot, helper, token, pc, req, mine, at, oldProt, ret,
                        resolving, nest>>
  BY DEF Halt, vars, local, CallocFails

LEMMA NextRuns == [Next]_vars => Run \/ Halt
  BY DEF Next, Alive, Halt

LEMMA NextIInv == IInv /\ [Next]_vars => IInv'
<1> SUFFICES ASSUME IInv, [Next]_vars PROVE IInv'  OBVIOUS
<1>1. CASE Halt
  <2>1. UNCHANGED <<got, prot, helper, token, pc, req, mine, at, oldProt, ret,
                    resolving, nest>>
    BY <1>1, HaltKeeps
  <2>2. Typed'  BY <2>1 DEF IInv, Typed
  <2>3. Calls' /\ Allocated'  BY <2>1 DEF IInv, Calls, Allocated, Busy
  <2>4. Noted' /\ Owned'  BY <2>1 DEF IInv, Noted, Owned, Busy
  <2>5. Owners' /\ Apart'  BY <2>1 DEF IInv, Owners, Apart, Busy
  <2> QED  BY <2>2, <2>3, <2>4, <2>5 DEF IInv
<1> QED  BY <1>1, RunIInv, NextRuns

THEOREM GotInvariant == Spec => []IInv
  BY InitIInv, NextIInv, PTL DEF Spec

\* The variables of all calls keep their types; in particular a slot never holds
\* the NULL origin of a helper that was not filled in.
THEOREM GotTypes == Spec => []TypeOK
<1> DEFINE DeadType == dead \in BOOLEAN
<1>1. Init => DeadType  BY DEF Init
<1>2. DeadType /\ [Next]_vars => DeadType'  BY DEF Next, Alive, CallocFails, vars
<1>3. IInv /\ DeadType => TypeOK  BY DEF IInv, TypeOK
<1> QED  BY <1>1, <1>2, <1>3, GotInvariant, PTL DEF Spec

----------------------------------------------------------------------------
(* Ownership *)

\* A set without two different elements is empty or has one.
LEMMA AtMostOne ==
    ASSUME NEW S, \A x, y \in S : x = y
    PROVE  Cardinality(S) = IF S = {} THEN 0 ELSE 1
<1>1. CASE S = {}  BY <1>1, FS_EmptySet
<1>2. CASE S # {}
  <2>1. PICK x \in S : S = {x}  BY <1>2
  <2> QED  BY <1>2, <2>1, FS_Singleton
<1> QED  BY <1>1, <1>2

\* Every helper has one owner and no token has a helper that was freed, whichever
\* steps fail: none leaks, none is freed twice.
THEOREM GotHelpersOwned == Spec => []HelpersOwned
<1>1. IInv => HelpersOwned
  <2> SUFFICES ASSUME IInv, NEW h \in Helper
               PROVE  LET holders == {k \in Token : token[k] = h}
                          making == {th \in Thread : Injecting(th) /\ mine[th] = h}
                          ending == {th \in InFlight : ~Injecting(th) /\ mine[th] = h}
                      IN  /\ Cardinality(holders) + Cardinality(making) =
                                IF helper[h] = Free THEN 0 ELSE 1
                          /\ Cardinality(ending) <= Cardinality(holders)
    BY DEF HelpersOwned
  <2> DEFINE holders == {k \in Token : token[k] = h}
             making == {th \in Thread : Injecting(th) /\ mine[th] = h}
             ending == {th \in InFlight : ~Injecting(th) /\ mine[th] = h}
  <2>1. h # NoHelper  BY GotAssumption
  <2>2. \A k, l \in holders : k = l  BY <2>1 DEF IInv, Owners
  <2>3. (\A t, u \in making : t = u) /\ (\A t, u \in ending : t = u)
    BY <2>1 DEF IInv, Owners, InFlight
  <2>4. holders = {} \/ making = {}  BY <2>1 DEF IInv, Owners, Injecting, Busy
  <2>5. helper[h] = Free => holders = {} /\ making = {}
    BY <2>1, GotAssumption DEF IInv, Allocated
  <2>6. helper[h] # Free => holders # {} \/ making # {}
    BY DEF IInv, Owned, Injecting, Busy
  <2>7. ending # {} => holders # {}
    BY DEF IInv, Calls, Request, InFlight, Injecting, Busy
  <2> HIDE DEF holders, making, ending
  <2>8. /\ Cardinality(holders) = IF holders = {} THEN 0 ELSE 1
        /\ Cardinality(making) = IF making = {} THEN 0 ELSE 1
        /\ Cardinality(ending) = IF ending = {} THEN 0 ELSE 1
    BY <2>2, <2>3, AtMostOne
  <2>9. /\ Cardinality(holders) + Cardinality(making) = IF helper[h] = Free THEN 0 ELSE 1
        /\ Cardinality(ending) <= Cardinality(holders)
    BY <2>4, <2>5, <2>6, <2>7, <2>8
  <2> QED  BY <2>9 DEF holders, making, ending
<1> QED  BY <1>1, GotInvariant, PTL

----------------------------------------------------------------------------
(* Page protection, for calls that keep off each other's pages *)

PageAt(th) == SlotPage[Slot(th)]

\* A step of one call leaves the others where they are.
LEMMA OthersKeep ==
    ASSUME IInv, NEW th \in Thread, Begin(th) \/ Step(th), NEW u \in Thread, u # th,
           pc[u] \in AtSlot
    PROVE  /\ pc'[u] = pc[u] /\ oldProt'[u] = oldProt[u]
           /\ Slot(u)' = Slot(u)
<1>1. mine[u] \in Helper /\ mine[u] # NoHelper /\ helper[mine[u]] # Free
      /\ mine[th] # mine[u] /\ Typed
  BY SlotIs, GotAssumption DEF IInv, Owners
<1>2. pc'[u] = pc[u] /\ oldProt'[u] = oldProt[u] /\ at'[u] = at[u] /\ mine'[u] = mine[u]
  BY <1>1 DEF Typed, Begin, Step, BeginInject, BeginUninject, Lookup, LookupFails,
     Visit, Check, GetProt, SetProt, ReplaceFails, Store, Restore, RestoreFails,
     FinishInject, ReturnInject, ReturnUninject, Return, NextSlot
<1>3. helper'[mine[u]] = helper[mine[u]]
  BY <1>1 DEF Typed, Begin, Step, BeginInject, BeginUninject, Lookup, LookupFails,
     Visit, Check, GetProt, SetProt, ReplaceFails, Store, Restore, RestoreFails,
     FinishInject, ReturnInject, ReturnUninject, Return
<1> QED  BY <1>2, <1>3 DEF Slot

\* Two calls at a slot are at slots in different pages.
LEMMA PagesApart ==
    ASSUME Serial = "page", IInv, NEW th \in Thread, NEW u \in Thread, th # u,
           pc[th] \in AtSlot, pc[u] \in AtSlot
    PROVE  PageAt(th) # PageAt(u)
<1>1. PageAt(th) \in PagesOf(req[th].symbol) /\ PageAt(u) \in PagesOf(req[u].symbol)
  BY SlotIs DEF PageAt
<1>2. PagesOf(req[th].symbol) \cap PagesOf(req[u].symbol) = {}
  BY SlotIs DEF IInv, Apart
<1> QED  BY <1>1, <1>2

\* Only two steps change a protection.
LEMMA ProtKept ==
    ASSUME NEW th \in Thread, Begin(th) \/ Step(th), ~SetProt(th), ~Restore(th)
    PROVE  prot' = prot
  BY DEF Begin, Step, BeginInject, BeginUninject, Lookup, LookupFails, Visit, Check,
     GetProt, ReplaceFails, Store, RestoreFails, FinishInject, ReturnInject,
     ReturnUninject, Return

\* A call gets to its store only by looking at the protection or setting it.
LEMMA WayToStore ==
    ASSUME IInv, NEW th \in Thread, Begin(th) \/ Step(th), pc'[th] = "store"
    PROVE  GetProt(th) \/ SetProt(th)
  BY DEF IInv, Typed, Begin, Step, BeginInject, BeginUninject, Lookup, LookupFails,
     Visit, Check, ReplaceFails, Store, Restore, RestoreFails, FinishInject,
     ReturnInject, ReturnUninject, Return, NextSlot

LEMMA SlotWritableStep ==
    ASSUME Serial = "page", IInv, SlotWritable, NEW th \in Thread, Begin(th) \/ Step(th)
    PROVE  SlotWritable'
<1> SUFFICES ASSUME NEW u \in Thread, pc'[u] = "store" PROVE prot'[PageAt(u)'] = "RW"
  BY DEF SlotWritable, Writable, PageAt
<1>1. CASE u = th
  <2>1. CASE GetProt(th)
    <3>1. /\ pc[th] \in AtSlot /\ prot' = prot /\ PageAt(th)' = PageAt(th)
          /\ oldProt'[th] = prot[PageAt(th)]
      BY <2>1 DEF GetProt, AtSlot, PageAt, Slot, IInv, Typed
    <3>2. oldProt'[th] = "RW"  BY <1>1, <2>1 DEF GetProt, IInv, Typed
    <3> QED  BY <1>1, <3>1, <3>2
  <2>2. CASE SetProt(th)
    <3>1. pc[th] \in AtSlot /\ PageAt(th)' = PageAt(th)
          /\ prot' = [prot EXCEPT ![PageAt(th)] = "RW"]
      BY <2>2 DEF SetProt, AtSlot, PageAt, Slot
    <3>2. PageAt(th) \in Page  BY <3>1, SlotIs DEF PageAt
    <3> QED  BY <1>1, <3>1, <3>2 DEF IInv, Typed
  <2> QED  BY <1>1, <2>1, <2>2, WayToStore
<1>2. CASE u # th
  <2>1. pc[u] = "store"
    BY <1>2 DEF IInv, Typed, Begin, Step, BeginInject, BeginUninject, Lookup, LookupFails,
       Visit, Check, GetProt, SetProt, ReplaceFails, Store, Restore, RestoreFails,
       FinishInject, ReturnInject, ReturnUninject, Return, NextSlot
  <2>2. pc[u] \in AtSlot  BY <2>1 DEF AtSlot
  <2>3. PageAt(u)' = PageAt(u)  BY <1>2, <2>2, OthersKeep DEF PageAt
  <2>4. prot[PageAt(u)] = "RW"  BY <2>1 DEF SlotWritable, Writable, PageAt
  <2>5. CASE SetProt(th)
    BY <2>3, <2>4, <2>5 DEF SetProt, PageAt, IInv, Typed
  <2>6. CASE Restore(th)
    <3>1. pc[th] \in AtSlot /\ prot' = [prot EXCEPT ![PageAt(th)] = oldProt[th]]
      BY <2>6 DEF Restore, AtSlot, PageAt
    <3>2. PageAt(th) # PageAt(u)  BY <1>2, <2>2, <3>1, PagesApart
    <3> QED  BY <2>3, <2>4, <3>1, <3>2 DEF IInv, Typed
  <2>7. CASE ~SetProt(th) /\ ~Restore(th)  BY <2>3, <2>4, <2>7, ProtKept
  <2> QED  BY <2>5, <2>6, <2>7
<1> QED  BY <1>1, <1>2

\* The store into a slot hits a writable page, if no two calls in flight have slots
\* in one page: what /proc/self/maps said of it some steps before is still true.
THEOREM GotSlotWritable ==
    ASSUME Serial = "page"
    PROVE  Spec => []SlotWritable
<1>1. Init => SlotWritable  BY DEF Init, SlotWritable
<1>2. IInv /\ SlotWritable /\ [Next]_vars => SlotWritable'
  <2> SUFFICES ASSUME IInv, SlotWritable, [Next]_vars PROVE SlotWritable'  OBVIOUS
  <2>1. CASE Halt \/ Loader
    <3>1. UNCHANGED <<prot, helper, pc, mine, at>>
      BY <2>1, HaltKeeps DEF local, Loader, StartResolve, EndResolve
    <3> QED  BY <3>1 DEF SlotWritable, Writable, Slot
  <2> QED  BY <2>1, NextRuns, SlotWritableStep DEF Run
<1> QED  BY <1>1, <1>2, GotInvariant, PTL DEF Spec

\* What a call remembers of the protection of its page
Remembered ==
    \A th \in Thread :
        /\ pc[th] \in {"setprot", "store", "restore"} => oldProt[th] = InitProt[PageAt(th)]
        /\ pc[th] \in {"setprot", "restore"} => oldProt[th] # "RW"

\* A page has another protection only while a call will restore it.
Changed ==
    \A p \in Page : prot[p] # InitProt[p] =>
        \E th \in Thread : /\ pc[th] \in {"store", "restore"}
                           /\ PageAt(th) = p /\ oldProt[th] # "RW"

LEMMA RememberedStep ==
    ASSUME Serial = "page", IInv, Remembered, Changed,
           NEW th \in Thread, Begin(th) \/ Step(th)
    PROVE  Remembered'
<1> SUFFICES ASSUME NEW u \in Thread, pc'[u] \in {"setprot", "store", "restore"}
             PROVE  /\ oldProt'[u] = InitProt[PageAt(u)']
                    /\ pc'[u] \in {"setprot", "restore"} => oldProt'[u] # "RW"
  BY DEF Remembered
<1>1. Typed  BY DEF IInv
<1>2. CASE u # th
  <2>1. pc[u] = pc'[u]
    BY <1>1, <1>2 DEF Typed, Begin, Step, BeginInject, BeginUninject, Lookup, LookupFails,
       Visit, Check, GetProt, SetProt, ReplaceFails, Store, Restore, RestoreFails,
       FinishInject, ReturnInject, ReturnUninject, Return, NextSlot
  <2>2. pc[u] \in AtSlot  BY <2>1 DEF AtSlot
  <2>3. PageAt(u)' = PageAt(u) /\ oldProt'[u] = oldProt[u]
    BY <1>2, <2>2, OthersKeep DEF PageAt
  <2> QED  BY <2>1, <2>3 DEF Remembered
<1>3. CASE u = th
  <2>1. GetProt(th) \/ SetProt(th) \/ Store(th)
    BY <1>1, <1>3 DEF Typed, Begin, Step, BeginInject, BeginUninject, Lookup, LookupFails,
       Visit, Check, ReplaceFails, Restore, RestoreFails, FinishInject, ReturnInject,
       ReturnUninject, Return, NextSlot
  <2>2. pc[th] \in AtSlot  BY <2>1 DEF GetProt, SetProt, Store, AtSlot
  <2>3. mine[th] \in Helper /\ helper[mine[th]] \in HelperRec /\ PageAt(th) \in Page
    BY <2>2, SlotIs DEF PageAt
  <2>4. CASE GetProt(th)
    <3>1. pc[th] = "getprot" /\ PageAt(th)' = PageAt(th) /\ oldProt'[th] = prot[PageAt(th)]
          /\ pc'[th] = IF oldProt'[th] = "RW" THEN "store" ELSE "setprot"
      BY <1>1, <2>4 DEF GetProt, PageAt, Slot, Typed
    <3>2. prot[PageAt(th)] = InitProt[PageAt(th)]
      <4> SUFFICES ASSUME prot[PageAt(th)] # InitProt[PageAt(th)] PROVE FALSE
        OBVIOUS
      <4>1. PICK v \in Thread : pc[v] \in {"store", "restore"} /\ PageAt(v) = PageAt(th)
        BY <2>3 DEF Changed
      <4>2. v # th /\ pc[v] \in AtSlot  BY <3>1, <4>1 DEF AtSlot
      <4> QED  BY <2>2, <4>1, <4>2, PagesApart
    <3> QED  BY <1>3, <3>1, <3>2
  <2>5. CASE SetProt(th)
    <3>1. /\ pc[th] = "setprot" /\ PageAt(th)' = PageAt(th) /\ oldProt'[th] = oldProt[th]
          /\ pc'[th] = "store"
      BY <1>1, <2>5 DEF SetProt, PageAt, Slot, Typed
    <3> QED  BY <1>3, <3>1 DEF Remembered
  <2>6. CASE Store(th)
    <3>1. pc[th] = "store" /\ oldProt'[th] = oldProt[th] /\ mine' = mine
      BY <2>6 DEF Store
    <3>2. oldProt[th] # "RW" /\ at' = at
      BY <1>1, <1>3, <2>6 DEF Store, NextSlot, Typed
    <3>3. helper'[mine[th]].symbol = helper[mine[th]].symbol
      BY <1>1, <2>3, <2>6 DEF Store, Typed, HelperRec
    <3>4. PageAt(th)' = PageAt(th)  BY <3>1, <3>2, <3>3 DEF PageAt, Slot
    <3> QED  BY <1>3, <3>1, <3>2, <3>4 DEF Remembered
  <2> QED  BY <2>1, <2>4, <2>5, <2>6
<1> QED  BY <1>2, <1>3

LEMMA ChangedStep ==
    ASSUME Serial = "page", "restore" \notin Faults, IInv, Remembered, Changed,
           NEW th \in Thread, Begin(th) \/ Step(th)
    PROVE  Changed'
<1>1. Typed  BY DEF IInv
<1> SUFFICES ASSUME NEW p \in Page, prot'[p] # InitProt[p]
             PROVE  \E u \in Thread : /\ pc'[u] \in {"store", "restore"}
                                      /\ PageAt(u)' = p /\ oldProt'[u] # "RW"
  BY DEF Changed
<1>2. ASSUME NEW u \in Thread, u # th, pc[u] \in {"store", "restore"},
             PageAt(u) = p, oldProt[u] # "RW"
      PROVE  pc'[u] \in {"store", "restore"} /\ PageAt(u)' = p /\ oldProt'[u] # "RW"
  <2>1. pc[u] \in AtSlot  BY <1>2 DEF AtSlot
  <2> QED  BY <1>2, <2>1, OthersKeep DEF PageAt
<1>3. CASE SetProt(th)
  <2>1. /\ pc[th] = "setprot" /\ pc'[th] = "store" /\ PageAt(th)' = PageAt(th)
        /\ oldProt'[th] = oldProt[th] /\ prot' = [prot EXCEPT ![PageAt(th)] = "RW"]
    BY <1>1, <1>3 DEF SetProt, PageAt, Slot, Typed
  <2>2. oldProt[th] # "RW"  BY <2>1 DEF Remembered
  <2>3. CASE p = PageAt(th)  BY <2>1, <2>2, <2>3
  <2>4. CASE p # PageAt(th)
    <3>1. prot[p] # InitProt[p]  BY <1>1, <2>1, <2>4 DEF Typed
    <3> QED  BY <1>2, <2>1, <3>1 DEF Changed
  <2> QED  BY <2>3, <2>4
<1>4. CASE Restore(th)
  <2>1. /\ pc[th] = "restore" /\ prot' = [prot EXCEPT ![PageAt(th)] = oldProt[th]]
    BY <1>4 DEF Restore, PageAt
  <2>2. oldProt[th] = InitProt[PageAt(th)]  BY <2>1 DEF Remembered
  <2>3. p # PageAt(th) /\ prot[p] # InitProt[p]  BY <1>1, <2>1, <2>2 DEF Typed
  <2> QED  BY <1>2, <2>3 DEF Changed
<1>5. CASE ~SetProt(th) /\ ~Restore(th)
  <2>1. prot' = prot  BY <1>5, ProtKept
  <2>2. PICK u \in Thread : pc[u] \in {"store", "restore"} /\ PageAt(u) = p /\ oldProt[u] # "RW"
    BY <2>1 DEF Changed
  <2>3. CASE u # th  BY <1>2, <2>2, <2>3
  <2>4. CASE u = th
    <3>1. Store(th)
      BY <1>5, <2>2, <2>4 DEF Begin, Step, BeginInject, BeginUninject, Lookup, LookupFails,
         Visit, Check, GetProt, ReplaceFails, Restore, RestoreFails, FinishInject,
         ReturnInject, ReturnUninject
    <3>2. /\ pc'[th] = "restore" /\ at' = at /\ mine' = mine /\ oldProt' = oldProt
      BY <1>1, <2>2, <2>4, <3>1 DEF Store, Typed
    <3>3. mine[th] \in Helper /\ helper[mine[th]] \in HelperRec
      BY <2>2, <2>4, SlotIs DEF AtSlot
    <3>4. helper'[mine[th]].symbol = helper[mine[th]].symbol
      BY <1>1, <3>1, <3>3 DEF Store, Typed, HelperRec
    <3>5. PageAt(th)' = PageAt(th)  BY <3>2, <3>4 DEF PageAt, Slot
    <3> QED  BY <2>2, <2>4, <3>2, <3>5
  <2> QED  BY <2>3, <2>4
<1> QED  BY <1>3, <1>4, <1>5

\* A page that no call works on has the protection the loader gave it, if no two
\* calls in flight have slots in one page and mprotect lets the old one be put back.
THEOREM GotProtRestored ==
    ASSUME Serial = "page", "restore" \notin Faults
    PROVE  Spec => []ProtRestored
<1> DEFINE PInv == Remembered /\ Changed
<1>1. Init => PInv  BY DEF Init, Remembered, Changed
<1>2. IInv /\ PInv /\ [Next]_vars => PInv'
  <2> SUFFICES ASSUME IInv, PInv, [Next]_vars PROVE PInv'  OBVIOUS
  <2>1. CASE Halt \/ Loader
    <3>1. UNCHANGED <<prot, helper, pc, mine, at, oldProt>>
      BY <2>1, HaltKeeps DEF local, Loader, StartResolve, EndResolve
    <3> QED  BY <3>1 DEF Remembered, Changed, PageAt, Slot
  <2> QED  BY <2>1, NextRuns, RememberedStep, ChangedStep DEF Run
<1>3. IInv /\ PInv => ProtRestored
  <2> SUFFICES ASSUME IInv, Changed, NEW p \in Page, prot[p] # InitProt[p]
               PROVE  \E th \in InFlight : p \in PagesOf(req[th].symbol)
    BY DEF ProtRestored
  <2>1. PICK th \in Thread : pc[th] \in {"store", "restore"} /\ PageAt(th) = p
    BY DEF Changed
  <2> QED  BY <2>1, SlotIs DEF AtSlot, PageAt, InFlight, Busy
<1> QED  BY <1>1, <1>2, <1>3, GotInvariant, PTL DEF Spec
=============================================================================
