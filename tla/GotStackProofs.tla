-------------------------- MODULE GotStackProofs --------------------------
(***************************************************************************)
(* The hooks on the slots of GotHook.  No hook is left behind without a     *)
(* helper if an inject cannot fail between two slots.  For callers that     *)
(* take the hooks on a symbol off newest first and hook with fresh detours, *)
(* and pages whose protection can be changed: both slots of a symbol carry  *)
(* the same hooks, token.fcall is what they displaced, the last uninject    *)
(* brings back what was there, and GotHook implements HookStack.  Pages may *)
(* be shared between calls in flight.                                       *)
(***************************************************************************)
EXTENDS GotHookProofs, SequenceTheorems

MayFailAtSlot == Faults \cap {"getprot", "setprot"} # {}

\* An inject that fails at a slot has not changed another one
Whole == MayFailAtSlot => \A s, r \in Slots : s[1] = r[1] => s = r

Orderly == Lifo /\ FreshDetour /\ ~MayFailAtSlot

----------------------------------------------------------------------------
(* The invariant for orphans *)

Has(hooks, h) == \E i \in 1 .. Len(hooks) : hooks[i].h = h

Distinct(hooks) ==
    \A i, j \in 1 .. Len(hooks) : hooks[i].h = hooks[j].h => i = j

\* The kinds of slots a call has passed
Passed(th) ==
    (IF at[th] = "dyn" THEN {"plt"} ELSE {})
        \cup (IF pc[th] \in {"restore", "finish"} THEN {at[th]} ELSE {})

\* The helper of a hook is there, for the symbol, and has noted the slot
Hung ==
    \A s \in Slots, h \in Helper : Has(nest[s], h) =>
        /\ helper[h] # Free /\ helper[h].symbol = s[1]
        /\ s[2] \in helper[h].info /\ helper[h].origin # NoOrigin

HungOnce == \A s \in Slots : Distinct(nest[s])

\* An inject has no hook on the slots to come, an uninject none on those passed
Walked ==
    \A th \in Thread : pc[th] \in Inner =>
        \A s \in SlotsOf(req[th].symbol) :
            (s[2] \in Passed(th) <=> req[th].op = "uninject") => ~Has(nest[s], mine[th])

\* A call ends behind the second slot, unless it is an inject that has failed,
\* which has no hook at all
Ended ==
    \A th \in Thread :
        /\ pc[th] = "finish" => at[th] = "dyn" \/ (Injecting(th) /\ ret[th] = "error")
        /\ pc[th] \in Inner \cup {"lookup"} /\ Injecting(th) /\ ret[th] = "error" =>
              pc[th] = "finish" /\ \A s \in Slots : ~Has(nest[s], mine[th])

NInv == Hung /\ HungOnce /\ Walked /\ Ended

----------------------------------------------------------------------------
(* Sequences of hooks *)

LEMMA AppendIs ==
    ASSUME NEW hooks \in Seq(Hooked), NEW e \in Hooked
    PROVE  /\ Append(hooks, e) \in Seq(Hooked) /\ Len(hooks) \in Nat
           /\ Len(Append(hooks, e)) = Len(hooks) + 1
           /\ Append(hooks, e)[Len(hooks) + 1] = e
           /\ \A i \in 1 .. Len(hooks) : Append(hooks, e)[i] = hooks[i]
           /\ \A i \in 1 .. Len(hooks) + 1 : i = Len(hooks) + 1 \/ i \in 1 .. Len(hooks)
<1>1. Len(hooks) \in Nat  BY LenProperties
<1> QED  BY <1>1, AppendProperties

\* What is left of hooks that are on a slot once each when h is taken off.
LEMMA WithoutIs ==
    ASSUME NEW hooks \in Seq(Hooked), NEW h, Distinct(hooks)
    PROVE  /\ Without(hooks, h) \in Seq(Hooked)
           /\ Distinct(Without(hooks, h))
           /\ \A g : Has(Without(hooks, h), g) <=> (g # h /\ Has(hooks, g))
<1> DEFINE n == Len(hooks)
           its == {i \in 1 .. n : hooks[i].h = h}
           i == CHOOSE j \in its : TRUE
           rest == [j \in 1 .. n - 1 |-> IF j < i THEN hooks[j] ELSE hooks[j + 1]]
<1>1. n \in Nat  BY LenProperties
<1>2. CASE its = {}
  <2>1. Without(hooks, h) = hooks  BY <1>2 DEF Without
  <2> QED  BY <1>2, <2>1 DEF Has
<1>3. CASE its # {}
  <2>1. Without(hooks, h) = rest  BY <1>3 DEF Without
  <2>2. i \in 1 .. n /\ hooks[i].h = h  BY <1>3
  <2>3. \A j \in 1 .. n : hooks[j].h = h => j = i  BY <2>2 DEF Distinct
  <2> HIDE DEF i, its
  <2>4. n - 1 \in Nat  BY <1>1, <2>2
  <2>5. \A j \in 1 .. n - 1 : (IF j < i THEN hooks[j] ELSE hooks[j + 1]) \in Hooked
    BY <1>1, <2>2
  <2>6. rest \in [1 .. n - 1 -> Hooked]  BY <2>5
  <2>7. /\ \A j \in 1 .. n - 1 : j < i => rest[j] = hooks[j]
        /\ \A j \in 1 .. n - 1 : ~(j < i) => rest[j] = hooks[j + 1]
    OBVIOUS
  <2> HIDE DEF rest
  <2>8. rest \in Seq(Hooked) /\ Len(rest) = n - 1
    <3> DEFINE m == n - 1
    <3>1. m \in Nat /\ rest \in [1 .. m -> Hooked]  BY <2>4, <2>6
    <3> HIDE DEF m, n
    <3>2. rest \in Seq(Hooked) /\ Len(rest) = m  BY <3>1
    <3> QED  BY <3>2 DEF m
  <2>9. Distinct(rest)
    <3> SUFFICES ASSUME NEW a \in 1 .. n - 1, NEW b \in 1 .. n - 1, rest[a].h = rest[b].h
                 PROVE  a = b
      BY <2>8 DEF Distinct
    <3>1. \E x \in 1 .. n : x = (IF a < i THEN a ELSE a + 1) /\ rest[a] = hooks[x]
      BY <1>1, <2>2, <2>7
    <3>2. \E y \in 1 .. n : y = (IF b < i THEN b ELSE b + 1) /\ rest[b] = hooks[y]
      BY <1>1, <2>2, <2>7
    <3>3. PICK x \in 1 .. n : x = (IF a < i THEN a ELSE a + 1) /\ rest[a] = hooks[x]  BY <3>1
    <3>4. PICK y \in 1 .. n : y = (IF b < i THEN b ELSE b + 1) /\ rest[b] = hooks[y]  BY <3>2
    <3>5. x = y  BY <3>3, <3>4 DEF Distinct
    <3> QED  BY <1>1, <2>2, <3>3, <3>4, <3>5
  <2>10. ASSUME NEW g, NEW a \in 1 .. n - 1, rest[a].h = g
         PROVE  g # h /\ \E x \in 1 .. n : hooks[x].h = g
    <3>1. PICK x \in 1 .. n : x # i /\ rest[a] = hooks[x]  BY <1>1, <2>2, <2>7
    <3> QED  BY <2>3, <2>10, <3>1
  <2>11. ASSUME NEW g, g # h, NEW x \in 1 .. n, hooks[x].h = g
         PROVE  \E a \in 1 .. n - 1 : rest[a].h = g
    <3>1. x # i  BY <2>2, <2>11
    <3>2. CASE x < i  BY <1>1, <2>2, <2>7, <2>11, <3>2
    <3>3. CASE i < x
      <4>1. x - 1 \in 1 .. n - 1 /\ ~(x - 1 < i) /\ x - 1 + 1 = x  BY <1>1, <2>2, <3>3
      <4>2. rest[x - 1] = hooks[x]  BY <2>7, <4>1
      <4> QED  BY <2>11, <4>1, <4>2
    <3> QED  BY <1>1, <2>2, <3>1, <3>2, <3>3
  <2> QED  BY <2>1, <2>8, <2>9, <2>10, <2>11 DEF Has
<1> QED  BY <1>2, <1>3

----------------------------------------------------------------------------
(* No orphans *)

LEMMA InitNInv == Init => NInv
<1> SUFFICES ASSUME Init PROVE NInv  OBVIOUS
<1>1. \A s \in Slots : nest[s] = <<>> /\ Len(nest[s]) = 0  BY DEF Init
<1>2. Hung /\ HungOnce  BY <1>1 DEF Hung, HungOnce, Distinct, Has
<1>3. Walked /\ Ended  BY DEF Init, Walked, Ended, Inner
<1> QED  BY <1>2, <1>3 DEF NInv

\* A step of one call leaves the others at their places.
LEMMA OthersStay ==
    ASSUME IInv, NEW th \in Thread, Begin(th) \/ Step(th), NEW u \in Thread, u # th
    PROVE  /\ pc'[u] = pc[u] /\ at'[u] = at[u] /\ mine'[u] = mine[u] /\ req'[u] = req[u]
           /\ ret'[u] = ret[u] /\ Passed(u)' = Passed(u) /\ Injecting(u)' = Injecting(u)
           /\ mine[u] # NoHelper => mine[u] # mine[th] /\ helper'[mine[u]] = helper[mine[u]]
<1>1. Typed /\ \A g \in Helper : mine[u] = g => mine[th] # g
  BY GotAssumption DEF IInv, Owners
<1>2. /\ pc'[u] = pc[u] /\ at'[u] = at[u] /\ mine'[u] = mine[u] /\ req'[u] = req[u]
      /\ ret'[u] = ret[u]
  BY <1>1 DEF Typed, Begin, Step, BeginInject, BeginUninject, Lookup, LookupFails,
     Visit, Check, GetProt, SetProt, ReplaceFails, Store, Restore, RestoreFails,
     FinishInject, ReturnInject, ReturnUninject, Return, NextSlot
<1>3. ASSUME mine[u] # NoHelper
      PROVE  mine[u] # mine[th] /\ helper'[mine[u]] = helper[mine[u]]
  <2>1. mine[u] \in Helper /\ helper[mine[u]] # Free
    BY <1>1, <1>3, GotAssumption DEF Typed, IInv, Allocated
  <2> QED
    BY <1>1, <2>1 DEF Typed, Begin, Step, BeginInject, BeginUninject, Lookup,
       LookupFails, Visit, Check, GetProt, SetProt, ReplaceFails, Store, Restore,
       RestoreFails, FinishInject, ReturnInject, ReturnUninject, Return
<1> QED  BY <1>2, <1>3 DEF Passed, Injecting

\* Passing to the next slot.
LEMMA NextSlotPasses ==
    ASSUME Typed, NEW th \in Thread, NextSlot(th)
    PROVE  /\ Passed(th)' = Passed(th) \cup {at[th]}
           /\ pc'[th] \in {"visit", "finish"} /\ (pc'[th] = "finish" => at'[th] = "dyn")
<1>1. CASE at[th] = "plt"  BY <1>1 DEF NextSlot, Typed, Passed
<1>2. CASE at[th] # "plt"
  <2>1. at[th] = "dyn" /\ at' = at /\ pc'[th] = "finish"  BY <1>2 DEF NextSlot, Typed, Kind
  <2> QED  BY <2>1 DEF Passed
<1> QED  BY <1>1, <1>2

\* What a step has to show for the invariant.
LEMMA StepNInv ==
    ASSUME IInv, NInv, NEW th \in Thread, Begin(th) \/ Step(th),
           \A s \in Slots, g \in Helper : g # mine[th] => (Has(nest'[s], g) <=> Has(nest[s], g)),
           Hung', HungOnce',
           pc'[th] \in Inner =>
              \A s \in SlotsOf(req'[th].symbol) :
                 (s[2] \in Passed(th)' <=> req'[th].op = "uninject") => ~Has(nest'[s], mine'[th]),
           pc'[th] = "finish" => at'[th] = "dyn" \/ (Injecting(th)' /\ ret'[th] = "error"),
           pc'[th] \in Inner \cup {"lookup"} /\ Injecting(th)' /\ ret'[th] = "error" =>
              pc'[th] = "finish" /\ \A s \in Slots : ~Has(nest'[s], mine'[th])
    PROVE  NInv'
<1>1. \A u \in Thread : u # th /\ pc[u] \in Inner =>
         mine[u] \in Helper /\ mine[u] # mine[th] /\ mine[u] # NoHelper
  <2>1. \A u \in Thread : pc[u] \in Inner => mine[u] \in Helper  BY DEF IInv, Calls
  <2> QED  BY <2>1, OthersStay, GotAssumption
<1>2. ASSUME NEW u \in Thread, u # th
      PROVE  /\ pc'[u] \in Inner =>
                   \A s \in SlotsOf(req'[u].symbol) :
                      (s[2] \in Passed(u)' <=> req'[u].op = "uninject")
                         => ~Has(nest'[s], mine'[u])
             /\ pc'[u] = "finish" => at'[u] = "dyn" \/ (Injecting(u)' /\ ret'[u] = "error")
             /\ pc'[u] \in Inner \cup {"lookup"} /\ Injecting(u)' /\ ret'[u] = "error" =>
                   pc'[u] = "finish" /\ \A s \in Slots : ~Has(nest'[s], mine'[u])
  <2>1. /\ pc'[u] = pc[u] /\ at'[u] = at[u] /\ mine'[u] = mine[u] /\ req'[u] = req[u]
        /\ ret'[u] = ret[u] /\ Passed(u)' = Passed(u) /\ Injecting(u)' = Injecting(u)
    BY <1>2, OthersStay
  <2>2. pc[u] \in Inner => \A s \in Slots : Has(nest'[s], mine[u]) <=> Has(nest[s], mine[u])
    BY <1>1, <1>2
  <2>3. "finish" \in Inner /\ "lookup" # "finish"  BY DEF Inner
  <2>4. pc[u] \in Inner =>
           \A s \in SlotsOf(req[u].symbol) :
              (s[2] \in Passed(u) <=> req[u].op = "uninject") => ~Has(nest[s], mine[u])
    BY DEF NInv, Walked
  <2>5. /\ pc[u] = "finish" => at[u] = "dyn" \/ (Injecting(u) /\ ret[u] = "error")
        /\ pc[u] \in Inner \cup {"lookup"} /\ Injecting(u) /\ ret[u] = "error" =>
              pc[u] = "finish" /\ \A s \in Slots : ~Has(nest[s], mine[u])
    BY DEF NInv, Ended
  <2> QED  BY <2>1, <2>2, <2>3, <2>4, <2>5 DEF SlotsOf
<1>3. Walked'
  <2> SUFFICES ASSUME NEW u \in Thread
               PROVE  pc'[u] \in Inner =>
                         \A s \in SlotsOf(req'[u].symbol) :
                            (s[2] \in Passed(u)' <=> req'[u].op = "uninject")
                               => ~Has(nest'[s], mine'[u])
    BY DEF Walked, SlotsOf
  <2> QED  BY <1>2
<1>4. Ended'
  <2> SUFFICES ASSUME NEW u \in Thread
               PROVE  /\ pc'[u] = "finish" =>
                            at'[u] = "dyn" \/ (Injecting(u)' /\ ret'[u] = "error")
                      /\ pc'[u] \in Inner \cup {"lookup"} /\ Injecting(u)' /\ ret'[u] = "error" =>
                            pc'[u] = "finish" /\ \A s \in Slots : ~Has(nest'[s], mine'[u])
    BY DEF Ended
  <2> QED  BY <1>2
<1> QED  BY <1>3, <1>4 DEF NInv

\* The hooks of helpers that a step keeps stay hung.
LEMMA HungKept ==
    ASSUME IInv, NInv, nest' = nest,
           \A h \in Helper, s \in Slots : Has(nest[s], h) =>
              /\ helper'[h] # Free /\ helper'[h].symbol = helper[h].symbol
              /\ helper[h].info \subseteq helper'[h].info
              /\ helper'[h].origin = helper[h].origin
    PROVE  Hung' /\ HungOnce'
  BY DEF NInv, Hung, HungOnce

LEMMA BeginNInv ==
    ASSUME IInv, NInv, NEW th \in Thread, Begin(th)
    PROVE  NInv'
<1>1. nest' = nest /\ helper' = helper  BY DEF Begin, BeginInject, BeginUninject
<1>2. Hung' /\ HungOnce'  BY <1>1, HungKept DEF NInv, Hung
<1>3. CASE \E k \in Token, sym \in Symbol, d \in Detour : BeginInject(th, k, sym, d)
  <2>1. pc'[th] = "lookup" /\ ret'[th] = "none"  BY <1>3 DEF BeginInject, IInv, Typed
  <2> QED  BY <1>1, <1>2, <2>1, StepNInv DEF Inner
<1>4. CASE \E k \in Token : BeginUninject(th, k)
  <2>1. pc'[th] = "visit" /\ at'[th] = "plt" /\ req'[th].op = "uninject" /\ ret'[th] = "none"
    BY <1>4 DEF BeginUninject, IInv, Typed
  <2>2. Passed(th)' = {}  BY <2>1 DEF Passed
  <2> QED  BY <1>1, <1>2, <2>1, <2>2, StepNInv
<1> QED  BY <1>3, <1>4 DEF Begin

LEMMA LookupNInv ==
    ASSUME IInv, NInv, NEW th \in Thread, Lookup(th) \/ LookupFails(th)
    PROVE  NInv'
<1>1. Step(th)  BY DEF Step
<1>2. CASE Lookup(th)
  <2>1. PICK h \in Helper : /\ helper[h] = Free
                            /\ helper' = [helper EXCEPT ![h] =
                                            NewHelper(req[th].symbol, req[th].detour)]
                            /\ mine' = [mine EXCEPT ![th] = h]
    BY <1>2 DEF Lookup
  <2>2. /\ pc'[th] = "visit" /\ at'[th] = "plt" /\ mine'[th] = h /\ req' = req /\ ret' = ret
        /\ nest' = nest /\ pc[th] = "lookup"
    BY <1>2, <2>1 DEF Lookup, IInv, Typed
  <2>3. \A g \in Helper : g # h => helper'[g] = helper[g]  BY <2>1 DEF IInv, Typed
  <2>4. \A s \in Slots : ~Has(nest[s], h)  BY <2>1 DEF NInv, Hung
  <2>5. Hung' /\ HungOnce'  BY <2>2, <2>3, <2>4, HungKept DEF NInv, Hung
  <2>6. Passed(th)' = {}  BY <2>2 DEF Passed
  <2>7. Injecting(th) /\ Injecting(th)' /\ ret[th] # "error"
    BY <2>2 DEF NInv, Ended, IInv, Calls, Injecting
  <2>8. \A s \in Slots : ~Has(nest'[s], mine'[th])  BY <2>2, <2>4
  <2>9. \A s \in SlotsOf(req'[th].symbol) : s \in Slots  BY DEF SlotsOf
  <2>10. ret'[th] # "error" /\ pc'[th] # "finish"  BY <2>2, <2>7
  <2> QED  BY <1>1, <2>2, <2>5, <2>8, <2>9, <2>10, StepNInv
<1>3. CASE LookupFails(th)
  <2>1. nest' = nest /\ helper' = helper /\ pc'[th] = "return"
    BY <1>3 DEF LookupFails, IInv, Typed
  <2>2. Hung' /\ HungOnce'  BY <2>1, HungKept DEF NInv, Hung
  <2> QED  BY <1>1, <2>1, <2>2, StepNInv DEF Inner
<1> QED  BY <1>2, <1>3

\* Steps inside a call, but the store of an inject and its failure: the call goes
\* to the next slot or stays, and an uninject may drop its hook on the slot.
LEMMA PassNInv ==
    ASSUME IInv, NInv, NEW th \in Thread, Step(th), pc[th] \in Inner \ {"finish"},
           pc'[th] \in Inner, pc'[th] = "finish" => at'[th] = "dyn",
           UNCHANGED <<req, mine, ret>>,
           \/ Passed(th)' = Passed(th)
           \/ /\ Passed(th)' = Passed(th) \cup {at[th]}
              /\ ~Injecting(th) /\ Slot(th) \in Slots => ~Has(nest'[Slot(th)], mine[th]),
           \/ nest' = nest
           \/ /\ Slot(th) \in Slots
              /\ nest' = [nest EXCEPT ![Slot(th)] = Without(nest[Slot(th)], mine[th])],
           \A h \in Helper : helper[h] # Free =>
              /\ helper'[h] # Free /\ helper'[h].symbol = helper[h].symbol
              /\ helper[h].info \subseteq helper'[h].info
              /\ helper'[h].origin = helper[h].origin
    PROVE  NInv'
<1>1. \A s \in Slots : /\ Distinct(nest'[s])
                       /\ \A g : Has(nest'[s], g) => Has(nest[s], g)
                       /\ \A g : g # mine[th] => (Has(nest'[s], g) <=> Has(nest[s], g))
  <2>1. CASE nest' = nest  BY <2>1 DEF NInv, HungOnce
  <2>2. CASE /\ Slot(th) \in Slots
             /\ nest' = [nest EXCEPT ![Slot(th)] = Without(nest[Slot(th)], mine[th])]
    <3> TAKE s \in Slots
    <3>1. nest[s] \in Seq(Hooked) /\ Distinct(nest[s])  BY DEF IInv, Typed, NInv, HungOnce
    <3>2. CASE s = Slot(th)
      <4>1. nest'[s] = Without(nest[s], mine[th])  BY <2>2, <3>2 DEF IInv, Typed
      <4> QED  BY <3>1, <4>1, WithoutIs
    <3>3. CASE s # Slot(th)
      <4>1. nest'[s] = nest[s]  BY <2>2, <3>3 DEF IInv, Typed
      <4> QED  BY <3>1, <4>1
    <3> QED  BY <3>2, <3>3
  <2> QED  BY <2>1, <2>2
<1>2. Hung' /\ HungOnce'  BY <1>1 DEF NInv, Hung, HungOnce
<1>3. Busy(th) /\ req[th] \in Request /\ mine[th] \in Helper
      /\ helper[mine[th]].symbol = req[th].symbol
  BY GotAssumption DEF IInv, Calls, Allocated, Busy, Inner
<1>4. ASSUME NEW s \in SlotsOf(req[th].symbol),
             s[2] \in Passed(th)' <=> req[th].op = "uninject"
      PROVE  ~Has(nest'[s], mine[th])
  <2>1. s \in Slots /\ s[1] = req[th].symbol  BY DEF SlotsOf
  <2>2. s[2] = at[th] => s = Slot(th)
    <3>1. s = <<s[1], s[2]>>  BY <2>1, GotAssumption
    <3> QED  BY <1>3, <2>1, <3>1 DEF Slot
  <2>3. (s[2] \in Passed(th) <=> req[th].op = "uninject") => ~Has(nest[s], mine[th])
    BY DEF NInv, Walked
  <2>4. CASE s[2] \in Passed(th) <=> req[th].op = "uninject"  BY <1>1, <2>1, <2>3, <2>4
  <2>5. CASE ~(s[2] \in Passed(th) <=> req[th].op = "uninject")
    <3>1. s[2] \in Passed(th)' /\ s[2] \notin Passed(th)  BY <1>4, <2>5
    <3>2. s[2] = at[th] /\ req[th].op = "uninject"  BY <1>4, <3>1
    <3>3. ~Injecting(th)  BY <3>2 DEF Injecting
    <3> QED  BY <2>1, <2>2, <3>1, <3>2, <3>3
  <2> QED  BY <2>4, <2>5
<1>5. ~(Injecting(th) /\ ret[th] = "error")  BY DEF NInv, Ended
<1>6. Injecting(th)' => Injecting(th)  BY <1>3 DEF Injecting, Busy
<1> QED  BY <1>1, <1>2, <1>4, <1>5, <1>6, StepNInv

\* A call has not passed the slot it is to write.
LEMMA NotPassed ==
    ASSUME NEW th \in Thread, pc[th] \in {"visit", "check", "getprot", "setprot", "store"}
    PROVE  at[th] \notin Passed(th)
  BY DEF Passed

LEMMA VisitNInv ==
    ASSUME IInv, NInv, NEW th \in Thread, Visit(th)
    PROVE  NInv'
<1>1. /\ pc[th] = "visit" /\ pc[th] \in Inner \ {"finish"} /\ Step(th) /\ Typed
      /\ UNCHANGED <<req, mine, ret, nest>>
  BY DEF Visit, Inner, Step, IInv
<1>2. mine[th] \in Helper /\ helper[mine[th]] # Free /\ helper[mine[th]] \in HelperRec
  BY <1>1, GotAssumption DEF IInv, Calls, Allocated
<1>3. CASE HasSlot(th)
  <2>1. /\ helper' = [helper EXCEPT ![mine[th]].info = @ \cup {at[th]}]
        /\ pc' = [pc EXCEPT ![th] = "check"] /\ at' = at
    BY <1>3 DEF Visit
  <2>2. /\ helper'[mine[th]] = [helper[mine[th]] EXCEPT !.info = @ \cup {at[th]}]
        /\ \A h \in Helper : h # mine[th] => helper'[h] = helper[h]
        /\ pc'[th] = "check" /\ at'[th] = at[th]
    BY <1>1, <1>2, <2>1 DEF Typed
  <2>3. helper'[mine[th]] \in HelperRec
    <3>1. at[th] \in Kind  BY <1>1 DEF Typed
    <3> QED  BY <1>2, <2>2, <3>1 DEF HelperRec
  <2>4. \A h \in Helper : helper[h] # Free =>
           /\ helper'[h] # Free /\ helper'[h].symbol = helper[h].symbol
           /\ helper[h].info \subseteq helper'[h].info
           /\ helper'[h].origin = helper[h].origin
    BY <1>2, <2>2, <2>3, GotAssumption DEF HelperRec
  <2>5. Passed(th)' = Passed(th)  BY <1>1, <2>2 DEF Passed
  <2> QED  BY <1>1, <2>2, <2>4, <2>5, PassNInv DEF Inner
<1>4. CASE ~HasSlot(th)
  <2>1. NextSlot(th) /\ helper' = helper  BY <1>4 DEF Visit
  <2>2. ~Injecting(th) /\ Slot(th) \in Slots => ~Has(nest[Slot(th)], mine[th])
    BY <1>2, <1>4 DEF HasSlot, Slot, NInv, Hung
  <2>3. pc'[th] \in Inner  BY <1>1, <2>1, NextSlotPasses DEF Inner
  <2> QED  BY <1>1, <2>1, <2>2, <2>3, NextSlotPasses, PassNInv
<1> QED  BY <1>3, <1>4

\* An uninject that gives up its hook on a slot, or takes it off.
LEMMA WithoutNInv ==
    ASSUME IInv, NInv, NEW th \in Thread, pc[th] \in AtSlot
    PROVE  ~Has(Without(nest[Slot(th)], mine[th]), mine[th])
<1>1. Slot(th) \in Slots  BY SlotIs
<1>2. nest[Slot(th)] \in Seq(Hooked) /\ Distinct(nest[Slot(th)])
  BY <1>1 DEF IInv, Typed, NInv, HungOnce
<1> QED  BY <1>2, WithoutIs

LEMMA AtSlotNInv ==
    ASSUME IInv, NInv, NEW th \in Thread,
           \/ Check(th) \/ GetProt(th) \/ SetProt(th)
           \/ ReplaceFails(th) /\ ~Injecting(th)
           \/ Store(th) /\ ~Injecting(th)
           \/ Restore(th) \/ RestoreFails(th)
    PROVE  NInv'
<1>1. /\ pc[th] \in AtSlot /\ pc[th] \in Inner \ {"finish"} /\ Step(th) /\ Typed
      /\ UNCHANGED <<req, mine, ret, helper>>
  BY DEF Check, GetProt, SetProt, ReplaceFails, Store, Restore, RestoreFails, AtSlot, Inner,
     Step, IInv
<1>2. Slot(th) \in Slots  BY <1>1, SlotIs
<1>3. \/ nest' = nest
      \/ nest' = [nest EXCEPT ![Slot(th)] = Without(nest[Slot(th)], mine[th])]
  BY DEF Check, GetProt, SetProt, ReplaceFails, Store, Restore, RestoreFails, GiveUp
<1>4. /\ pc'[th] \in Inner /\ (pc'[th] = "finish" => at'[th] = "dyn")
      /\ Passed(th)' \in {Passed(th), Passed(th) \cup {at[th]}}
  <2>1. CASE NextSlot(th)  BY <1>1, <2>1, NextSlotPasses DEF Inner
  <2>2. CASE ~NextSlot(th)
    <3>1. at' = at
      BY <2>2 DEF Check, GetProt, SetProt, ReplaceFails, Store, Restore, RestoreFails
    <3>2. CASE Store(th)
      <4>1. pc' = [pc EXCEPT ![th] = "restore"] /\ pc[th] = "store"  BY <2>2, <3>2 DEF Store
      <4>2. pc'[th] = "restore"  BY <1>1, <4>1 DEF Typed
      <4> QED  BY <1>1, <3>1, <4>1, <4>2 DEF Passed, Inner
    <3>3. CASE ~Store(th)
      <4>1. /\ pc[th] \in {"check", "getprot", "setprot"}
            /\ \E step \in {"getprot", "setprot", "store"} : pc' = [pc EXCEPT ![th] = step]
        BY <2>2, <3>3 DEF Check, GetProt, SetProt, ReplaceFails, Restore, RestoreFails
      <4>2. pc'[th] \in {"getprot", "setprot", "store"}  BY <1>1, <4>1 DEF Typed
      <4> QED  BY <3>1, <4>1, <4>2 DEF Passed, Inner
    <3> QED  BY <3>2, <3>3
  <2> QED  BY <2>1, <2>2
<1>5. \/ Passed(th)' = Passed(th)
      \/ ~Injecting(th) /\ Slot(th) \in Slots => ~Has(nest'[Slot(th)], mine[th])
  <2>1. CASE pc[th] = "restore"
    <3>1. NextSlot(th)  BY <2>1 DEF Check, GetProt, SetProt, ReplaceFails, Store, Restore,
       RestoreFails
    <3> QED  BY <1>1, <2>1, <3>1, NextSlotPasses DEF Passed
  <2>2. CASE pc[th] # "restore" /\ ~Injecting(th)
    <3>1. \/ GetProt(th) \/ SetProt(th) \/ (Check(th) /\ at' = at /\ pc'[th] = "getprot")
          \/ nest' = [nest EXCEPT ![Slot(th)] = Without(nest[Slot(th)], mine[th])]
      BY <1>1, <2>2 DEF Check, ReplaceFails, Store, Restore, RestoreFails, GiveUp, Typed
    <3>2. CASE GetProt(th) \/ SetProt(th) \/ (Check(th) /\ at' = at /\ pc'[th] = "getprot")
      <4>1. /\ pc[th] \in {"check", "getprot", "setprot"} /\ at' = at
            /\ pc'[th] \in {"getprot", "setprot", "store"}
        BY <1>1, <3>2 DEF Check, GetProt, SetProt, Typed
      <4> QED  BY <4>1 DEF Passed
    <3>3. CASE nest' = [nest EXCEPT ![Slot(th)] = Without(nest[Slot(th)], mine[th])]
      <4>1. nest'[Slot(th)] = Without(nest[Slot(th)], mine[th])
        BY <1>1, <1>2, <3>3 DEF Typed
      <4> QED  BY <1>1, <4>1, WithoutNInv
    <3> QED  BY <3>1, <3>2, <3>3
  <2> QED  BY <2>1, <2>2
<1> QED  BY <1>1, <1>2, <1>3, <1>4, <1>5, PassNInv

\* What the store of an inject does.
LEMMA StoreHook ==
    ASSUME IInv, NEW th \in Thread, Store(th), Injecting(th)
    PROVE  LET s == Slot(th)
               h == mine[th]
               e == [h |-> h, under |-> got[s]]
           IN  /\ e \in Hooked
               /\ nest'[s] = Append(nest[s], e)
               /\ \A r \in Slots : r # s => nest'[r] = nest[r] /\ got'[r] = got[r]
               /\ got'[s] = helper[h].detour
               /\ helper[h] \in HelperRec
               /\ helper'[h] = [helper[h] EXCEPT !.origin = got[s]]
               /\ helper'[h] \in HelperRec
               /\ \A g \in Helper : g # h => helper'[g] = helper[g]
               /\ UNCHANGED <<req, mine, ret, token, resolving>>
<1> DEFINE s == Slot(th)
           h == mine[th]
           e == [h |-> h, under |-> got[s]]
<1>1. /\ pc[th] \in AtSlot /\ Typed /\ s \in Slots /\ h \in Helper /\ helper[h] \in HelperRec
  BY SlotIs DEF Store, AtSlot, IInv
<1>2. got[s] \in Content /\ e \in Hooked  BY <1>1 DEF Typed, Hooked
<1>3. /\ got' = [got EXCEPT ![s] = helper[h].detour]
      /\ helper' = [helper EXCEPT ![h] = [helper[h] EXCEPT !.origin = got[s]]]
      /\ nest' = [nest EXCEPT ![s] = Append(nest[s], e)]
      /\ UNCHANGED <<req, mine, ret, token, resolving>>
  BY <1>1 DEF Store, NewFunc, Saved, Typed
<1>4. [helper[h] EXCEPT !.origin = got[s]] \in HelperRec  BY <1>1, <1>2 DEF HelperRec
<1> HIDE DEF e, s, h
<1>5. /\ nest'[s] = Append(nest[s], e) /\ got'[s] = helper[h].detour
      /\ helper'[h] = [helper[h] EXCEPT !.origin = got[s]]
      /\ \A g \in Helper : g # h => helper'[g] = helper[g]
      /\ \A r \in Slots : r # s => nest'[r] = nest[r] /\ got'[r] = got[r]
  BY <1>1, <1>3 DEF Typed
<1> QED  BY <1>1, <1>2, <1>3, <1>4, <1>5 DEF e, s, h

\* Where it goes.
LEMMA StorePasses ==
    ASSUME Typed, NEW th \in Thread, Store(th)
    PROVE  /\ Passed(th)' = Passed(th) \cup {at[th]}
           /\ pc'[th] \in {"restore", "visit", "finish"}
           /\ pc'[th] = "finish" => at'[th] = "dyn"
<1>1. CASE oldProt[th] # "RW"
  <2>1. pc'[th] = "restore" /\ at' = at /\ pc[th] = "store"  BY <1>1 DEF Store, Typed
  <2> QED  BY <2>1 DEF Passed
<1>2. CASE oldProt[th] = "RW"
  <2>1. NextSlot(th)  BY <1>2 DEF Store
  <2> QED  BY <2>1, NextSlotPasses
<1> QED  BY <1>1, <1>2

LEMMA StoreNInv ==
    ASSUME IInv, NInv, NEW th \in Thread, Store(th), Injecting(th)
    PROVE  NInv'
<1> DEFINE s == Slot(th)
           h == mine[th]
           e == [h |-> h, under |-> got[s]]
<1>1. /\ pc[th] = "store" /\ pc[th] \in AtSlot /\ pc[th] \in Inner \ {"finish"} /\ Step(th)
      /\ Typed
  BY DEF Store, AtSlot, Inner, Step, IInv
<1>2. /\ s \in Slots /\ h \in Helper /\ helper[h] \in HelperRec /\ helper[h] # Free
      /\ at[th] \in helper[h].info /\ helper[h].symbol = req[th].symbol
  BY <1>1, SlotIs, GotAssumption DEF IInv, Calls, Allocated
<1>3. s[1] = req[th].symbol /\ s[2] = at[th]  BY <1>2 DEF Slot
<1>4. /\ e \in Hooked /\ nest'[s] = Append(nest[s], e)
      /\ \A r \in Slots : r # s => nest'[r] = nest[r]
      /\ helper'[h] = [helper[h] EXCEPT !.origin = got[s]]
      /\ helper'[h] \in HelperRec
      /\ \A g \in Helper : g # h => helper'[g] = helper[g]
      /\ UNCHANGED <<req, mine, ret>>
  BY StoreHook
<1>5. ~Has(nest[s], h)
  <2>1. at[th] \notin Passed(th)  BY <1>1, NotPassed
  <2>2. req[th].op = "inject"  BY DEF Injecting
  <2> QED  BY <1>1, <1>2, <1>3, <2>1, <2>2 DEF NInv, Walked, SlotsOf
<1>6. nest[s] \in Seq(Hooked) /\ Distinct(nest[s]) /\ e.h = h
  BY <1>1, <1>2 DEF Typed, NInv, HungOnce
<1>7. got[s] # NoOrigin  BY <1>1, <1>2, GotAssumption DEF Typed
<1> HIDE DEF e, s, h
<1>8. \A g : Has(nest'[s], g) <=> Has(nest[s], g) \/ g = h
  BY <1>4, <1>6, AppendIs, SMTT(30) DEF Has
<1>9. Distinct(nest'[s])
  <2> DEFINE n == Len(nest[s])
  <2>1. /\ Len(nest'[s]) = n + 1 /\ nest'[s][n + 1] = e /\ n \in Nat
        /\ \A i \in 1 .. n : nest'[s][i] = nest[s][i]
        /\ \A i \in 1 .. n + 1 : i = n + 1 \/ i \in 1 .. n
    BY <1>4, <1>6, AppendIs
  <2>2. \A i \in 1 .. n : nest[s][i].h # h  BY <1>5 DEF Has
  <2> HIDE DEF n
  <2> SUFFICES ASSUME NEW i \in 1 .. n + 1, NEW j \in 1 .. n + 1,
                      nest'[s][i].h = nest'[s][j].h
               PROVE  i = j
    BY <2>1 DEF Distinct
  <2>3. \A a, b \in 1 .. n : nest[s][a].h = nest[s][b].h => a = b  BY <1>6 DEF Distinct, n
  <2> QED  BY <1>6, <2>1, <2>2, <2>3
<1>10. Hung'
  <2> SUFFICES ASSUME NEW r \in Slots, NEW g \in Helper, Has(nest'[r], g)
               PROVE  /\ helper'[g] # Free /\ helper'[g].symbol = r[1]
                      /\ r[2] \in helper'[g].info /\ helper'[g].origin # NoOrigin
    BY DEF Hung
  <2>1. helper'[h] # Free /\ helper'[h].symbol = helper[h].symbol
        /\ helper'[h].info = helper[h].info /\ helper'[h].origin = got[s]
    BY <1>2, <1>4, GotAssumption DEF HelperRec
  <2>2. CASE g = h
    <3>1. CASE r = s  BY <1>2, <1>3, <1>7, <2>1, <2>2, <3>1
    <3>2. CASE r # s
      <4>1. Has(nest[r], h)  BY <1>4, <2>2, <3>2
      <4> QED  BY <1>2, <1>7, <2>1, <2>2, <4>1 DEF NInv, Hung
    <3> QED  BY <3>1, <3>2
  <2>3. CASE g # h
    <3>1. Has(nest[r], g)  BY <1>4, <1>8, <2>3
    <3> QED  BY <1>4, <2>3, <3>1 DEF NInv, Hung
  <2> QED  BY <2>2, <2>3
<1>11. HungOnce'  BY <1>4, <1>9 DEF HungOnce, NInv
<1>12. \A r \in Slots, g \in Helper : g # mine[th] => (Has(nest'[r], g) <=> Has(nest[r], g))
  BY <1>4, <1>8 DEF h
<1>13. ASSUME NEW r \in SlotsOf(req'[th].symbol),
              r[2] \in Passed(th)' <=> req'[th].op = "uninject"
       PROVE  ~Has(nest'[r], mine'[th])
  <2>1. r \in Slots /\ r[2] \notin Passed(th)' /\ r \in SlotsOf(req[th].symbol)
        /\ req[th].op = "inject"
    BY <1>4, <1>13 DEF SlotsOf, Injecting
  <2>2. r[2] \notin Passed(th) /\ r # s  BY <1>1, <1>3, <2>1, StorePasses
  <2>3. ~Has(nest[r], h)  BY <1>1, <2>1, <2>2 DEF NInv, Walked, h
  <2> QED  BY <1>4, <2>1, <2>2, <2>3 DEF h
<1>14. ret[th] # "error"  BY <1>1 DEF NInv, Ended
<1> QED  BY <1>1, <1>4, <1>10, <1>11, <1>12, <1>13, <1>14, StorePasses, StepNInv

\* An inject that fails at the only slot of its symbol has no hook there.
LEMMA ReplaceFailsNInv ==
    ASSUME Whole, IInv, NInv, NEW th \in Thread, ReplaceFails(th), Injecting(th)
    PROVE  NInv'
<1>1. /\ pc[th] \in {"getprot", "setprot"} /\ pc[th] \in AtSlot /\ pc[th] \in Inner
      /\ Step(th) /\ Typed /\ MayFailAtSlot
      /\ UNCHANGED <<req, mine, helper, nest>> /\ pc'[th] = "finish" /\ ret'[th] = "error"
      /\ at' = at
  BY DEF ReplaceFails, AtSlot, Inner, Step, IInv, GiveUp, Typed, MayFailAtSlot
<1>2. /\ Slot(th) \in Slots /\ mine[th] \in Helper
      /\ helper[mine[th]].symbol = req[th].symbol /\ Busy(th)
  BY <1>1, SlotIs, GotAssumption DEF IInv, Allocated
<1>3. \A s \in Slots : ~Has(nest[s], mine[th])
  <2> SUFFICES ASSUME NEW s \in Slots, Has(nest[s], mine[th])  PROVE FALSE  OBVIOUS
  <2>1. s[1] = req[th].symbol  BY <1>2 DEF NInv, Hung
  <2>2. s = Slot(th)  BY <1>1, <1>2, <2>1 DEF Whole, Slot
  <2>3. s[2] = at[th] /\ at[th] \notin Passed(th)  BY <1>1, <2>2, NotPassed DEF Slot
  <2>4. req[th].op = "inject"  BY DEF Injecting
  <2> QED  BY <1>1, <2>1, <2>3, <2>4 DEF NInv, Walked, SlotsOf
<1>4. Hung' /\ HungOnce'  BY <1>1, HungKept DEF NInv, Hung
<1>5. Injecting(th)'  BY <1>1 DEF Injecting
<1>6. \A s \in SlotsOf(req'[th].symbol) : s \in Slots  BY DEF SlotsOf
<1> QED  BY <1>1, <1>3, <1>4, <1>5, <1>6, StepNInv

\* The helper that a step frees is on no slot.
LEMMA FreedNInv ==
    ASSUME IInv, NInv, NEW th \in Thread, Step(th), nest' = nest, pc'[th] \in {"return", "idle"},
           \A h \in Helper : helper'[h] = helper[h] \/ \A s \in Slots : ~Has(nest[s], h)
    PROVE  NInv'
<1>1. Hung' /\ HungOnce'  BY HungKept DEF NInv, Hung
<1> QED  BY <1>1, StepNInv DEF Inner

LEMMA EndNInv ==
    ASSUME IInv, NInv, NEW th \in Thread,
           FinishInject(th) \/ ReturnInject(th) \/ ReturnUninject(th)
    PROVE  NInv'
<1>1. Step(th) /\ Typed /\ nest' = nest /\ pc'[th] \in {"return", "idle"}
  BY DEF Step, IInv, Typed, FinishInject, ReturnInject, ReturnUninject, Return
<1>2. CASE FinishInject(th)
  <2>1. pc[th] = "finish" /\ pc[th] \in Inner /\ Injecting(th)
    BY <1>2 DEF FinishInject, Inner
  <2>2. \A h \in Helper : h # mine[th] => helper'[h] = helper[h]
    BY <1>1, <1>2 DEF FinishInject, Typed
  <2>3. mine[th] \in Helper  BY <2>1 DEF IInv, Calls
  <2>4. ASSUME NEW s \in Slots, Has(nest[s], mine[th])
        PROVE  helper' = helper
    <3>1. helper[mine[th]].info # {} /\ helper[mine[th]].origin # NoOrigin
      BY <2>3, <2>4 DEF NInv, Hung
    <3>2. ret[th] # "error"  BY <2>1, <2>4 DEF NInv, Ended
    <3> QED  BY <1>2, <3>1, <3>2 DEF FinishInject, Result
  <2> QED  BY <1>1, <2>2, <2>4, FreedNInv
<1>3. CASE ReturnInject(th)
  <2>1. helper' = helper  BY <1>3 DEF ReturnInject
  <2> QED  BY <1>1, <2>1, FreedNInv
<1>4. CASE ReturnUninject(th)
  <2>1. pc[th] = "finish" /\ pc[th] \in Inner /\ ~Injecting(th)
    BY <1>4 DEF ReturnUninject, Inner
  <2>2. /\ mine[th] \in Helper /\ req[th].op = "uninject" /\ at[th] = "dyn"
        /\ helper[mine[th]].symbol = req[th].symbol
    <3>1. Busy(th) /\ req[th] \in Request /\ mine[th] \in Helper
      BY <2>1 DEF IInv, Calls, Busy
    <3>2. at[th] = "dyn"  BY <2>1 DEF NInv, Ended
    <3>3. helper[mine[th]].symbol = req[th].symbol  BY <3>1, GotAssumption DEF IInv, Allocated
    <3> QED  BY <2>1, <3>1, <3>2, <3>3 DEF Injecting, Busy, Request
  <2>3. Passed(th) = Kind  BY <2>1, <2>2 DEF Passed, Kind
  <2>4. \A s \in Slots : ~Has(nest[s], mine[th])
    <3> SUFFICES ASSUME NEW s \in Slots, Has(nest[s], mine[th])  PROVE FALSE  OBVIOUS
    <3>1. s[1] = req[th].symbol /\ s[2] \in Kind  BY <2>2, GotAssumption DEF NInv, Hung
    <3> QED  BY <2>1, <2>2, <2>3, <3>1 DEF NInv, Walked, SlotsOf
  <2>5. \A h \in Helper : h # mine[th] => helper'[h] = helper[h]
    BY <1>1, <1>4 DEF ReturnUninject, Typed
  <2> QED  BY <1>1, <2>4, <2>5, FreedNInv
<1> QED  BY <1>2, <1>3, <1>4

LEMMA SameNInv ==
    ASSUME NInv, UNCHANGED <<helper, pc, req, mine, at, ret, nest>>
    PROVE  NInv'
<1>1. \A th \in Thread : Passed(th)' = Passed(th) /\ Injecting(th)' = Injecting(th)
  BY DEF Passed, Injecting
<1>2. Hung' /\ HungOnce'  BY DEF NInv, Hung, HungOnce
<1>3. Walked'  BY <1>1 DEF NInv, Walked, SlotsOf
<1>4. Ended'  BY <1>1 DEF NInv, Ended
<1> QED  BY <1>2, <1>3, <1>4 DEF NInv

LEMMA NextNInv == Whole /\ IInv /\ NInv /\ [Next]_vars => NInv'
<1> SUFFICES ASSUME Whole, IInv, NInv, [Next]_vars PROVE NInv'  OBVIOUS
<1>1. CASE Halt  BY <1>1, HaltKeeps, SameNInv
<1>2. CASE Loader
  BY <1>2, SameNInv DEF Loader, StartResolve, EndResolve, local
<1>3. ASSUME NEW th \in Thread, Begin(th) PROVE NInv'  BY <1>3, BeginNInv
<1>4. ASSUME NEW th \in Thread, Step(th) PROVE NInv'
  BY <1>4, LookupNInv, VisitNInv, AtSlotNInv, StoreNInv, ReplaceFailsNInv, EndNInv DEF Step
<1> QED  BY <1>1, <1>2, <1>3, <1>4, NextRuns DEF Run

THEOREM GotHooksHung ==
    ASSUME Whole
    PROVE  Spec => []NInv
<1>1. Init => NInv  BY InitNInv
<1>2. IInv /\ NInv /\ [Next]_vars => NInv'  BY NextNInv
<1> QED  BY <1>1, <1>2, GotInvariant, PTL DEF Spec

\* If an inject cannot fail between the two slots of a symbol, every hook in a
\* slot has a helper that can take it off, whatever the order hooks are taken off
\* in, with which detours, and whether or not an uninject fails.
THEOREM GotNoOrphan ==
    ASSUME Whole
    PROVE  Spec => []NoOrphan
<1>1. IInv /\ NInv => NoOrphan
  <2> SUFFICES ASSUME IInv, NInv, NEW s \in Slots, NEW i \in DOMAIN nest[s]
               PROVE  helper[nest[s][i].h] # Free
    BY DEF NoOrphan
  <2>1. nest[s] \in Seq(Hooked) /\ i \in 1 .. Len(nest[s])  BY DEF IInv, Typed
  <2>2. nest[s][i].h \in Helper
    <3>1. nest[s][i] \in Hooked  BY <2>1, ElementOfSeq
    <3> QED  BY <3>1 DEF Hooked
  <2>3. Has(nest[s], nest[s][i].h)  BY <2>1 DEF Has
  <2> QED  BY <2>2, <2>3 DEF NInv, Hung
<1> QED  BY <1>1, GotHooksHung, GotInvariant, PTL

----------------------------------------------------------------------------
(* The invariant of the stacks *)

OnTop(hooks, h) == hooks # <<>> /\ hooks[Len(hooks)].h = h

\* How many hooks on a slot are below that of a call
Depth(hooks, h) == IF OnTop(hooks, h) THEN Len(hooks) - 1 ELSE Len(hooks)

SameBelow(hooks, others, h) ==
    /\ Depth(hooks, h) = Depth(others, h)
    /\ \A i \in 1 .. Depth(hooks, h) : hooks[i].h = others[i].h

\* The hook of a call is the newest on every slot it has or has still to take off
Newest(th) ==
    /\ pc[th] \in Inner =>
          \A s \in SlotsOf(req[th].symbol) :
              (s[2] \in Passed(th) <=> req[th].op = "inject") => OnTop(nest[s], mine[th])
    /\ pc[th] = "return" /\ mine[th] # NoHelper =>
          \A s \in SlotsOf(req[th].symbol) : OnTop(nest[s], mine[th])
    /\ pc[th] = "return" /\ ret[th] = "success" => mine[th] # NoHelper
    /\ pc[th] \in Inner /\ Injecting(th) => ret[th] # "error"

\* Below it, the slots carry the same hooks
LevelBelow(th) ==
    Busy(th) => \A s, r \in SlotsOf(req[th].symbol) : SameBelow(nest[s], nest[r], mine[th])

\* A detour that is about to be stored in a slot is not there yet
Fresh(th) ==
    Injecting(th) =>
        /\ pc[th] = "lookup" =>
              \A s \in SlotsOf(req[th].symbol) : got[s] # req[th].detour
        /\ pc[th] \in Inner =>
              \A s \in SlotsOf(req[th].symbol) :
                  s[2] \notin Passed(th) => got[s] # helper[mine[th]].detour

CallOrderly(th) == Newest(th) /\ LevelBelow(th) /\ Fresh(th)

CallsOrderly == \A th \in Thread : CallOrderly(th)

\* The helper of a token that no call has is on every slot of its symbol
Kept ==
    \A k \in Token : token[k] # NoHelper /\ (\A th \in Thread : Busy(th) => req[th].token # k) =>
        \A s \in SlotsOf(helper[token[k]].symbol) : Has(nest[s], token[k])

Level ==
    \A sym \in Symbol : Quiet(sym) =>
        \A s, r \in SlotsOf(sym) : SameBelow(nest[s], nest[r], NoHelper)

\* What a slot holds that has no hook on it
Natural(s) == IF s \in Bound THEN {"impl"} ELSE {"impl", "lazy"}

\* What a slot may hold when its i-th hook is the newest
Leading(s, i) ==
    IF i = 0 THEN Natural(s)
    ELSE {helper[nest[s][i].h].detour} \cup (IF s \in Bound THEN {} ELSE Natural(s))

StackedAt(s) ==
    /\ got[s] \in Leading(s, Len(nest[s]))
    /\ \A i \in 1 .. Len(nest[s]) :
          /\ nest[s][i].under \in Leading(s, i - 1)
          /\ helper[nest[s][i].h].origin \in Leading(s, i - 1)

Stacked == \A s \in Slots : StackedAt(s)

\* The loader resolves lazy symbols only
LazyOnly ==
    /\ resolving \subseteq Lazy
    /\ \A h \in Helper : helper[h] # Free /\ helper[h].origin = "lazy" => helper[h].symbol \in Lazy

SInv == CallsOrderly /\ Kept /\ Level /\ Stacked /\ LazyOnly

----------------------------------------------------------------------------
(* Hooks below the newest *)

LEMMA SameBelowIs ==
    ASSUME NEW h, NEW a \in Seq(Hooked), NEW b \in Seq(Hooked), NEW c \in Seq(Hooked)
    PROVE  /\ SameBelow(a, a, h)
           /\ SameBelow(a, b, h) => SameBelow(b, a, h)
           /\ SameBelow(a, b, h) /\ SameBelow(b, c, h) => SameBelow(a, c, h)
  BY DEF SameBelow

\* Adding a hook, or taking off the newest, changes nothing below it.
LEMMA AppendSameBelow ==
    ASSUME NEW hooks \in Seq(Hooked), NEW e \in Hooked, ~Has(hooks, e.h)
    PROVE  SameBelow(Append(hooks, e), hooks, e.h) /\ OnTop(Append(hooks, e), e.h)
<1> DEFINE more == Append(hooks, e)
           n == Len(hooks)
<1>1. /\ more \in Seq(Hooked) /\ n \in Nat /\ Len(more) = n + 1 /\ more[n + 1] = e
      /\ \A i \in 1 .. n : more[i] = hooks[i]
  BY AppendIs
<1> HIDE DEF more
<1>2. OnTop(more, e.h)
  <2>1. more # <<>>  BY <1>1, EmptySeq
  <2> QED  BY <1>1, <2>1 DEF OnTop
<1>3. Depth(more, e.h) = n  BY <1>1, <1>2 DEF Depth
<1>4. ~OnTop(hooks, e.h)
  <2>1. ASSUME hooks # <<>> PROVE n \in 1 .. n  BY <2>1, EmptySeq
  <2> QED  BY <2>1 DEF OnTop, Has
<1>5. Depth(hooks, e.h) = n  BY <1>4 DEF Depth
<1> QED  BY <1>1, <1>2, <1>3, <1>5 DEF SameBelow, more

LEMMA WithoutNewest ==
    ASSUME NEW hooks \in Seq(Hooked), NEW h, OnTop(hooks, h), Distinct(hooks)
    PROVE  LET n == Len(hooks)
               front == Without(hooks, h)
           IN  /\ n \in Nat \ {0} /\ hooks[n].h = h /\ n \in 1 .. n
               /\ front \in Seq(Hooked) /\ Len(front) = n - 1
               /\ \A i \in 1 .. n - 1 : front[i] = hooks[i] /\ i \in 1 .. n
               /\ ~Has(front, h) /\ SameBelow(front, hooks, h)
<1> DEFINE n == Len(hooks)
           front == Without(hooks, h)
           its == {i \in 1 .. n : hooks[i].h = h}
           i == CHOOSE j \in its : TRUE
           rest == [j \in 1 .. n - 1 |-> IF j < i THEN hooks[j] ELSE hooks[j + 1]]
<1>1. n \in Nat \ {0} /\ hooks[n].h = h /\ n \in 1 .. n  BY EmptySeq DEF OnTop
<1>2. its = {n}  BY <1>1 DEF Distinct
<1>3. i = n /\ its # {}  BY <1>2
<1>4. front = rest  BY <1>3 DEF Without
<1> HIDE DEF i, its
<1>5. rest = [j \in 1 .. n - 1 |-> hooks[j]]
  <2> HIDE DEF n
  <2>1. \A j \in 1 .. n - 1 : j < i  BY <1>1, <1>3
  <2> QED  BY <2>1
<1> HIDE DEF rest
<1>6. \A j \in 1 .. n - 1 : hooks[j] \in Hooked /\ j \in 1 .. n  BY <1>1
<1>7. front \in Seq(Hooked) /\ Len(front) = n - 1 /\ \A j \in 1 .. n - 1 : front[j] = hooks[j]
  <2> DEFINE m == n - 1
  <2>1. m \in Nat  BY <1>1
  <2>2. rest \in [1 .. m -> Hooked] /\ \A j \in 1 .. m : rest[j] = hooks[j]  BY <1>5, <1>6
  <2> HIDE DEF m
  <2>3. rest \in Seq(Hooked) /\ Len(rest) = m  BY <2>1, <2>2
  <2> QED  BY <1>4, <2>2, <2>3 DEF m
<1>8. ~Has(front, h)  BY WithoutIs
<1> HIDE DEF front, n
<1>9. ~OnTop(front, h)
  <2>1. ASSUME front # <<>> PROVE Len(front) \in 1 .. Len(front)  BY <1>7, <2>1, EmptySeq
  <2> QED  BY <1>8, <2>1 DEF OnTop, Has
<1>10. Depth(front, h) = n - 1 /\ Depth(hooks, h) = n - 1  BY <1>7, <1>9 DEF Depth, n
<1>11. SameBelow(front, hooks, h)  BY <1>7, <1>10 DEF SameBelow
<1> QED  BY <1>1, <1>6, <1>7, <1>8, <1>11 DEF n, front

\* A helper that is on neither slot: the same hooks all the way.
LEMMA SameBelowNone ==
    ASSUME NEW a \in Seq(Hooked), NEW b \in Seq(Hooked), NEW h, ~Has(a, h), ~Has(b, h)
    PROVE  SameBelow(a, b, h) <=> SameBelow(a, b, NoHelper)
<1>1. ASSUME NEW c \in Seq(Hooked), NEW g, ~Has(c, g)  PROVE Depth(c, g) = Len(c)
  <2>1. ASSUME c # <<>> PROVE Len(c) \in 1 .. Len(c)  BY <1>1, <2>1, EmptySeq
  <2> QED  BY <1>1, <2>1 DEF Depth, OnTop, Has
<1>2. ASSUME NEW c \in Seq(Hooked)  PROVE ~Has(c, NoHelper)
  <2>1. \A i \in 1 .. Len(c) : c[i] \in Hooked  BY <1>2, ElementOfSeq
  <2> QED  BY <2>1, GotAssumption DEF Has, Hooked
<1> QED  BY <1>1, <1>2 DEF SameBelow

\* A helper that is the newest on both.
LEMMA SameBelowTop ==
    ASSUME NEW a \in Seq(Hooked), NEW b \in Seq(Hooked), NEW h, OnTop(a, h), OnTop(b, h)
    PROVE  SameBelow(a, b, h) <=> SameBelow(a, b, NoHelper)
<1>1. ASSUME NEW c \in Seq(Hooked), OnTop(c, h)
      PROVE  /\ Len(c) \in Nat \ {0} /\ Len(c) \in 1 .. Len(c) /\ c[Len(c)].h = h
             /\ Depth(c, h) = Len(c) - 1 /\ Depth(c, NoHelper) = Len(c)
  <2>1. Len(c) \in Nat \ {0} /\ Len(c) \in 1 .. Len(c)  BY <1>1, EmptySeq DEF OnTop
  <2>2. c[Len(c)] \in Hooked  BY <1>1, <2>1, ElementOfSeq
  <2>3. c[Len(c)].h # NoHelper  BY <2>2, GotAssumption DEF Hooked
  <2> QED  BY <1>1, <2>1, <2>3 DEF OnTop, Depth
<1>2. Len(a) = Len(b) =>
         \A i \in 1 .. Len(a) : (i = Len(a) /\ a[i].h = b[i].h) \/ i \in 1 .. Len(a) - 1
  BY <1>1
<1>3. \A i \in 1 .. Len(a) - 1 : i \in 1 .. Len(a)  BY <1>1
<1>4. ASSUME SameBelow(a, b, h)  PROVE SameBelow(a, b, NoHelper)
  <2>1. Len(a) = Len(b) /\ \A i \in 1 .. Len(a) - 1 : a[i].h = b[i].h
    BY <1>1, <1>4 DEF SameBelow
  <2> QED  BY <1>1, <1>2, <2>1 DEF SameBelow
<1>5. ASSUME SameBelow(a, b, NoHelper)  PROVE SameBelow(a, b, h)
  <2>1. Len(a) = Len(b) /\ \A i \in 1 .. Len(a) : a[i].h = b[i].h
    BY <1>1, <1>5 DEF SameBelow
  <2> QED  BY <1>1, <1>3, <2>1 DEF SameBelow
<1> QED  BY <1>4, <1>5

----------------------------------------------------------------------------
(* What a step of one call leaves as it is for the others *)

LEMMA InitSInv == Init => SInv
<1> SUFFICES ASSUME Init PROVE SInv  OBVIOUS
<1>1. \A s \in Slots : nest[s] = <<>> /\ Len(nest[s]) = 0 /\ nest[s] \in Seq(Hooked)
  BY DEF Init
<1>2. CallsOrderly
  BY DEF Init, CallsOrderly, CallOrderly, Newest, LevelBelow, Fresh, Injecting, Busy, Inner
<1>3. Kept  BY DEF Init, Kept
<1>4. Level  BY <1>1, SameBelowIs DEF Level, SlotsOf
<1>5. Stacked
  <2> SUFFICES ASSUME NEW s \in Slots PROVE StackedAt(s)  BY DEF Stacked
  <2>1. got[s] \in Natural(s)  BY DEF Init, Natural, Bound, InitGot
  <2> QED  BY <1>1, <2>1 DEF StackedAt, Leading
<1>6. LazyOnly  BY DEF Init, LazyOnly
<1> QED  BY <1>2, <1>3, <1>4, <1>5, <1>6 DEF SInv

\* Slots of other symbols
LEMMA Elsewhere ==
    ASSUME IInv, NEW th \in Thread, Begin(th) \/ Step(th), NEW s \in Slots,
           Busy(th) => s[1] # req[th].symbol
    PROVE  nest'[s] = nest[s] /\ got'[s] = got[s]
<1>1. Typed  BY DEF IInv
<1>2. CASE pc[th] \in AtSlot
  <2>1. Slot(th) \in Slots /\ Slot(th)[1] = req[th].symbol /\ Busy(th)
    BY <1>2, SlotIs, GotAssumption DEF IInv, Allocated, Slot
  <2>2. s # Slot(th)  BY <2>1
  <2>3. Step(th)  BY <1>2 DEF Begin, BeginInject, BeginUninject, AtSlot
  <2> QED
    BY <1>1, <1>2, <2>1, <2>2, <2>3 DEF Typed, AtSlot, Step, Lookup, LookupFails, Visit,
       Check, GiveUp, GetProt, SetProt, ReplaceFails, Store, Restore, RestoreFails,
       FinishInject, ReturnInject, ReturnUninject, Return
<1>3. CASE pc[th] \notin AtSlot
  BY <1>3 DEF AtSlot, Begin, BeginInject, BeginUninject, Step, Lookup, LookupFails, Visit,
     Check, GetProt, SetProt, ReplaceFails, Store, Restore, RestoreFails, FinishInject,
     ReturnInject, ReturnUninject, Return
<1> QED  BY <1>2, <1>3

\* Helpers of others
LEMMA HelpersStay ==
    ASSUME IInv, NEW th \in Thread, Begin(th) \/ Step(th), NEW g \in Helper,
           g # mine[th], helper[g] # Free
    PROVE  helper'[g] = helper[g]
  BY DEF IInv, Typed, Begin, Step, BeginInject, BeginUninject, Lookup, LookupFails, Visit,
     Check, GetProt, SetProt, ReplaceFails, Store, Restore, RestoreFails, FinishInject,
     ReturnInject, ReturnUninject, Return

\* Their hooks
LEMMA HooksStay ==
    ASSUME IInv, NInv, NEW th \in Thread, Begin(th) \/ Step(th), NEW g, g # mine[th],
           NEW s \in Slots, Has(nest[s], g)
    PROVE  Has(nest'[s], g)
<1>1. Typed /\ nest[s] \in Seq(Hooked) /\ Distinct(nest[s])
  BY DEF IInv, Typed, NInv, HungOnce
<1>2. CASE Store(th) /\ Injecting(th)
  <2> DEFINE e == [h |-> mine[th], under |-> got[Slot(th)]]
  <2>1. /\ e \in Hooked /\ nest'[Slot(th)] = Append(nest[Slot(th)], e)
        /\ \A r \in Slots : r # Slot(th) => nest'[r] = nest[r]
    BY <1>2, StoreHook
  <2>2. CASE s = Slot(th)
    <3> HIDE DEF e
    <3>1. /\ Len(nest[s]) \in Nat /\ Len(nest'[s]) = Len(nest[s]) + 1
          /\ \A i \in 1 .. Len(nest[s]) : nest'[s][i] = nest[s][i]
      BY <1>1, <2>1, <2>2, AppendIs
    <3> QED  BY <3>1 DEF Has
  <2> QED  BY <2>1, <2>2
<1>3. CASE ~(Store(th) /\ Injecting(th))
  <2>1. \/ nest' = nest
        \/ nest' = [nest EXCEPT ![Slot(th)] = Without(nest[Slot(th)], mine[th])]
    BY <1>3 DEF Begin, BeginInject, BeginUninject, Step, Lookup, LookupFails, Visit, Check,
       GiveUp, GetProt, SetProt, ReplaceFails, Store, Restore, RestoreFails, FinishInject,
       ReturnInject, ReturnUninject, Return
  <2>2. nest'[s] = nest[s] \/ nest'[s] = Without(nest[s], mine[th])
    BY <1>1, <2>1 DEF Typed
  <2>3. Has(Without(nest[s], mine[th]), g)  BY <1>1, WithoutIs
  <2> QED  BY <2>2, <2>3
<1> QED  BY <1>2, <1>3

\* A slot that a step leaves alone, with the helpers of its hooks, stays stacked.
LEMMA StackedKept ==
    ASSUME Typed, NEW s \in Slots, StackedAt(s), nest'[s] = nest[s], got'[s] = got[s],
           \A g \in Helper : Has(nest[s], g) =>
              helper'[g].detour = helper[g].detour /\ helper'[g].origin = helper[g].origin
    PROVE  StackedAt(s)'
<1>1. nest[s] \in Seq(Hooked) /\ Len(nest[s]) \in Nat  BY LenProperties DEF Typed
<1>2. ASSUME NEW i \in 1 .. Len(nest[s])
      PROVE  /\ helper'[nest[s][i].h].detour = helper[nest[s][i].h].detour
             /\ helper'[nest[s][i].h].origin = helper[nest[s][i].h].origin
  <2>1. nest[s][i] \in Hooked  BY <1>1, ElementOfSeq
  <2>2. nest[s][i].h \in Helper  BY <2>1 DEF Hooked
  <2> QED  BY <2>2 DEF Has
<1>3. \A i \in 0 .. Len(nest[s]) : Leading(s, i)' = Leading(s, i)
  <2> TAKE i \in 0 .. Len(nest[s])
  <2>1. i # 0 => i \in 1 .. Len(nest[s])  OBVIOUS
  <2> QED  BY <1>2, <2>1 DEF Leading, Natural
<1>4. /\ Len(nest[s]) \in 0 .. Len(nest[s])
      /\ \A i \in 1 .. Len(nest[s]) : i - 1 \in 0 .. Len(nest[s])
  BY <1>1
<1> QED  BY <1>2, <1>3, <1>4 DEF StackedAt

\* A call stays orderly while others step.
LEMMA OthersOrderly ==
    ASSUME IInv, CallsOrderly, NEW th \in Thread, Begin(th) \/ Step(th),
           NEW u \in Thread, u # th
    PROVE  CallOrderly(u)'
<1>1. /\ pc'[u] = pc[u] /\ at'[u] = at[u] /\ mine'[u] = mine[u] /\ req'[u] = req[u]
      /\ ret'[u] = ret[u] /\ Passed(u)' = Passed(u) /\ Injecting(u)' = Injecting(u)
      /\ mine[u] # NoHelper => helper'[mine[u]] = helper[mine[u]]
  BY OthersStay
<1>2. CallOrderly(u)  BY DEF CallsOrderly
<1>3. CASE ~Busy(u)
  <2>1. pc'[u] = "idle"  BY <1>1, <1>3 DEF Busy
  <2> QED
    BY <2>1 DEF CallOrderly, Newest, LevelBelow, Fresh, Injecting, Busy, Inner
<1>4. CASE Busy(u)
  <2>1. \A s \in SlotsOf(req[u].symbol) : nest'[s] = nest[s] /\ got'[s] = got[s]
    <3> TAKE s \in SlotsOf(req[u].symbol)
    <3>1. s \in Slots /\ s[1] = req[u].symbol  BY DEF SlotsOf
    <3>2. Busy(th) => s[1] # req[th].symbol  BY <1>4, <3>1 DEF IInv, Apart
    <3> QED  BY <3>1, <3>2, Elsewhere
  <2>2. Newest(u)'
    <3>1. Newest(u)  BY <1>2 DEF CallOrderly
    <3>2. \A s \in SlotsOf(req[u].symbol) : OnTop(nest'[s], mine[u]) <=> OnTop(nest[s], mine[u])
      BY <2>1
    <3> QED  BY <1>1, <3>1, <3>2 DEF Newest, SlotsOf
  <2>3. LevelBelow(u)'
    <3>1. \A s, r \in SlotsOf(req[u].symbol) : SameBelow(nest'[s], nest'[r], mine[u])
      BY <1>2, <1>4, <2>1 DEF CallOrderly, LevelBelow
    <3> QED  BY <1>1, <3>1 DEF LevelBelow, SlotsOf
  <2>4. Fresh(u)'
    <3>1. pc[u] \in Inner => mine[u] # NoHelper  BY GotAssumption DEF IInv, Calls
    <3>2. Fresh(u)  BY <1>2 DEF CallOrderly
    <3> QED  BY <1>1, <2>1, <3>1, <3>2 DEF Fresh, SlotsOf
  <2> QED  BY <2>2, <2>3, <2>4 DEF CallOrderly
<1> QED  BY <1>3, <1>4

\* What a step has to show for the invariant: that its own call is orderly and the
\* slots of its symbol are stacked, and at the end of the call that they are level
\* and what becomes of the token.
LEMMA StepSInv ==
    ASSUME IInv, NInv, SInv, NEW th \in Thread, Begin(th) \/ Step(th),
           CallOrderly(th)',
           Busy(th) => \A s \in SlotsOf(req[th].symbol) : StackedAt(s)',
           LazyOnly',
           Busy(th) /\ ~Busy(th)' =>
              /\ \A s, r \in SlotsOf(req[th].symbol) : SameBelow(nest'[s], nest'[r], NoHelper)
              /\ \A g \in Helper : token'[req[th].token] = g =>
                    \A s \in SlotsOf(helper'[g].symbol) : Has(nest'[s], g)
    PROVE  SInv'
<1>0. IInv' /\ Typed /\ Typed'
  <2>1. Run  BY DEF Run
  <2> QED  BY <2>1, RunIInv DEF IInv
<1>1. CallsOrderly'  BY OthersOrderly DEF SInv, CallsOrderly
<1>2. \A u \in Thread : u # th => (Busy(u)' <=> Busy(u)) /\ req'[u] = req[u]
  BY OthersStay DEF Busy
<1>3. /\ Busy(th) /\ Busy(th)' => req'[th] = req[th]
      /\ token' = token \/ (Busy(th) /\ ~Busy(th)')
      /\ \A k \in Token : (Busy(th) => k # req[th].token) => token'[k] = token[k]
  BY <1>0, SMTT(30)
  DEF Typed, Busy, Begin, Step, BeginInject, BeginUninject, Lookup, LookupFails,
     Visit, Check, GetProt, SetProt, ReplaceFails, Store, Restore, RestoreFails,
     FinishInject, ReturnInject, ReturnUninject, Return
<1>4. Kept'
  <2> SUFFICES ASSUME NEW k \in Token, token'[k] # NoHelper,
                      \A u \in Thread : Busy(u)' => req'[u].token # k,
                      NEW s \in Slots, s[1] = helper'[token'[k]].symbol
               PROVE  Has(nest'[s], token'[k])
    BY DEF Kept, SlotsOf
  <2>1. CASE Busy(th) /\ req[th].token = k
    <3>1. ~Busy(th)'  BY <1>3, <2>1
    <3>2. token'[k] \in Helper  BY <1>0 DEF Typed
    <3> QED  BY <2>1, <3>1, <3>2 DEF SlotsOf
  <2>2. CASE ~(Busy(th) /\ req[th].token = k)
    <3>1. token'[k] = token[k]  BY <1>3, <2>2
    <3>2. token[k] \in Helper /\ helper[token[k]] # Free
      BY <1>0, <3>1, GotAssumption DEF Typed, IInv, Allocated
    <3>3. token[k] # mine[th]
      <4>1. mine[th] # NoHelper => Busy(th) /\ req[th] \in Request  BY DEF IInv, Calls
      <4>2. Busy(th) /\ req[th].op = "uninject" => token[req[th].token] = mine[th]
        BY DEF IInv, Calls
      <4>3. mine[th] # NoHelper => req[th].op \in {"inject", "uninject"} /\ req[th].token \in Token
        BY <4>1 DEF Request
      <4>4. CASE mine[th] # NoHelper /\ req[th].op = "inject"
        BY <4>1, <4>4 DEF IInv, Owners
      <4>5. CASE mine[th] # NoHelper /\ req[th].op = "uninject"
        BY <2>2, <4>1, <4>2, <4>3, <4>5 DEF IInv, Owners
      <4> QED  BY <3>1, <4>3, <4>4, <4>5
    <3>4. helper'[token[k]] = helper[token[k]]  BY <3>2, <3>3, HelpersStay
    <3>5. \A u \in Thread : Busy(u) => req[u].token # k
      BY <1>2, <2>2
    <3>6. Has(nest[s], token[k])  BY <3>1, <3>2, <3>4, <3>5 DEF SInv, Kept, SlotsOf
    <3> QED  BY <3>1, <3>3, <3>6, HooksStay
  <2> QED  BY <2>1, <2>2
<1>5. Level'
  <2> SUFFICES ASSUME NEW sym \in Symbol, Quiet(sym)', NEW s \in SlotsOf(sym), NEW r \in SlotsOf(sym)
               PROVE  SameBelow(nest'[s], nest'[r], NoHelper)
    BY DEF Level, SlotsOf
  <2>1. \A u \in Thread : Busy(u)' => req'[u].symbol # sym  BY DEF Quiet, InFlight, Busy
  <2>2. CASE Busy(th) /\ req[th].symbol = sym
    <3>1. ~Busy(th)'  BY <1>3, <2>1, <2>2
    <3> QED  BY <2>2, <3>1
  <2>3. CASE ~(Busy(th) /\ req[th].symbol = sym)
    <3>1. Quiet(sym)  BY <1>2, <2>1, <2>3 DEF Quiet, InFlight, Busy
    <3>2. SameBelow(nest[s], nest[r], NoHelper)  BY <3>1 DEF SInv, Level
    <3>3. nest'[s] = nest[s] /\ nest'[r] = nest[r]  BY <2>3, Elsewhere DEF SlotsOf
    <3> QED  BY <3>2, <3>3
  <2> QED  BY <2>2, <2>3
<1>6. Stacked'
  <2> SUFFICES ASSUME NEW s \in Slots PROVE StackedAt(s)'  BY DEF Stacked
  <2>1. CASE Busy(th) /\ s[1] = req[th].symbol  BY <2>1 DEF SlotsOf
  <2>2. CASE ~(Busy(th) /\ s[1] = req[th].symbol)
    <3>1. nest'[s] = nest[s] /\ got'[s] = got[s]  BY <2>2, Elsewhere
    <3>2. ASSUME NEW g \in Helper, Has(nest[s], g)  PROVE helper'[g] = helper[g]
      <4>1. helper[g] # Free /\ helper[g].symbol = s[1]  BY <3>2 DEF NInv, Hung
      <4>2. g # mine[th]
        <5> SUFFICES ASSUME g = mine[th] PROVE FALSE  OBVIOUS
        <5>1. mine[th] # NoHelper  BY GotAssumption
        <5> QED  BY <2>2, <4>1, <5>1 DEF IInv, Calls, Allocated
      <4> QED  BY <4>1, <4>2, HelpersStay
    <3> QED  BY <1>0, <3>1, <3>2, StackedKept DEF SInv, Stacked
  <2> QED  BY <2>1, <2>2
<1> QED  BY <1>1, <1>4, <1>5, <1>6 DEF SInv

----------------------------------------------------------------------------
(* The steps *)

LEMMA BeginSInv ==
    ASSUME Orderly, IInv, NInv, SInv, NEW th \in Thread, Begin(th)
    PROVE  SInv'
<1>1. /\ Typed /\ ~Busy(th) /\ mine[th] = NoHelper
      /\ UNCHANGED <<got, helper, token, resolving, nest>>
  BY DEF IInv, Calls, Begin, BeginInject, BeginUninject, Busy
<1>2. LazyOnly'  BY <1>1 DEF SInv, LazyOnly
<1>3. CallOrderly(th)'
  <2>1. CASE \E k \in Token, sym \in Symbol, d \in Detour : BeginInject(th, k, sym, d)
    <3> PICK k \in Token, sym \in Symbol, d \in Detour : BeginInject(th, k, sym, d)  BY <2>1
    <3>1. /\ pc'[th] = "lookup" /\ req'[th].symbol = sym /\ req'[th].detour = d
          /\ mine'[th] = NoHelper
          /\ \A s \in Slots : s[1] = sym => got[s] # d
      BY <1>1 DEF BeginInject, Typed, Orderly
    <3>2. Quiet(sym)  BY DEF BeginInject, MayCall, Quiet
    <3>3. \A s, r \in SlotsOf(sym) : SameBelow(nest[s], nest[r], NoHelper)
      BY <3>2 DEF SInv, Level
    <3>4. Newest(th)'  BY <3>1 DEF Newest, Inner
    <3>5. LevelBelow(th)'  BY <1>1, <3>1, <3>3 DEF LevelBelow, SlotsOf
    <3>6. Fresh(th)'  BY <1>1, <3>1 DEF Fresh, Inner, SlotsOf
    <3> QED  BY <3>4, <3>5, <3>6 DEF CallOrderly
  <2>2. CASE \E k \in Token : BeginUninject(th, k)
    <3> PICK k \in Token : BeginUninject(th, k)  BY <2>2
    <3> DEFINE h == token[k]
               sym == helper[h].symbol
    <3>1. /\ pc'[th] = "visit" /\ at'[th] = "plt" /\ req'[th].symbol = sym
          /\ req'[th].op = "uninject" /\ mine'[th] = h /\ h # NoHelper
          /\ MayCall(k, sym)
          /\ \A s \in Slots : s[1] = sym /\ nest[s] # <<>> => nest[s][Len(nest[s])].h = h
      BY <1>1 DEF BeginUninject, Typed, Orderly
    <3>2. helper[h] \in HelperRec /\ sym \in Symbol
      BY <3>1 DEF IInv, Allocated, HelperRec
    <3>3. \A u \in Thread : Busy(u) => req[u].token # k  BY <3>1 DEF MayCall, InFlight, Busy
    <3>4. \A s \in SlotsOf(sym) : nest[s] \in Seq(Hooked) /\ OnTop(nest[s], h)
      <4> TAKE s \in SlotsOf(sym)
      <4>1. Has(nest[s], h)  BY <3>1, <3>3 DEF SInv, Kept
      <4>2. s \in Slots /\ s[1] = sym /\ nest[s] \in Seq(Hooked)
        BY <1>1 DEF Typed, SlotsOf
      <4>3. nest[s] # <<>>  BY <4>1 DEF Has
      <4> QED  BY <3>1, <4>2, <4>3 DEF OnTop
    <3>5. Quiet(sym)  BY <3>1 DEF MayCall, Quiet
    <3>6. \A s, r \in SlotsOf(sym) : SameBelow(nest[s], nest[r], h)
      <4> TAKE s, r \in SlotsOf(sym)
      <4>1. SameBelow(nest[s], nest[r], NoHelper)  BY <3>2, <3>5 DEF SInv, Level
      <4> QED  BY <3>4, <4>1, SameBelowTop
    <3> HIDE DEF h, sym
    <3>7. Newest(th)'  BY <1>1, <3>1, <3>4 DEF Newest, Inner, Injecting, SlotsOf
    <3>8. LevelBelow(th)'  BY <1>1, <3>1, <3>6 DEF LevelBelow, SlotsOf
    <3>9. Fresh(th)'  BY <3>1 DEF Fresh, Injecting
    <3> QED  BY <3>7, <3>8, <3>9 DEF CallOrderly
  <2> QED  BY <2>1, <2>2 DEF Begin
<1> QED  BY <1>1, <1>2, <1>3, StepSInv

LEMMA LookupSInv ==
    ASSUME IInv, NInv, SInv, NEW th \in Thread, Lookup(th) \/ LookupFails(th)
    PROVE  SInv'
<1>1. /\ Typed /\ Step(th) /\ pc[th] = "lookup" /\ Busy(th) /\ mine[th] = NoHelper
      /\ req[th].op = "inject" /\ req[th] \in Request /\ CallOrderly(th)
      /\ UNCHANGED <<got, token, req, resolving, nest>>
  BY DEF IInv, Calls, Lookup, LookupFails, Step, Busy, SInv, CallsOrderly
<1>2. CASE Lookup(th)
  <2> DEFINE rec == NewHelper(req[th].symbol, req[th].detour)
             own == SlotsOf(req[th].symbol)
  <2>1. PICK h \in Helper : /\ helper[h] = Free /\ helper' = [helper EXCEPT ![h] = rec]
                            /\ mine' = [mine EXCEPT ![th] = h]
    BY <1>2 DEF Lookup
  <2>2. /\ pc'[th] = "visit" /\ mine'[th] = h /\ at'[th] = "plt" /\ ret' = ret
        /\ helper'[h] = rec /\ \A g \in Helper : g # h => helper'[g] = helper[g]
    BY <1>1, <1>2, <2>1 DEF Lookup, Typed
  <2>3. rec.detour = req[th].detour /\ rec.origin = NoOrigin  BY DEF NewHelper
  <2> HIDE DEF rec
  <2>4. \A s \in Slots : ~Has(nest[s], h)  BY <2>1 DEF NInv, Hung
  <2>5. Newest(th)'
    <3>1. Passed(th)' = {}  BY <2>2 DEF Passed
    <3>2. ret[th] # "error"  BY <1>1 DEF NInv, Ended, Injecting
    <3> QED  BY <1>1, <2>2, <3>1, <3>2 DEF Newest
  <2>6. \A s, r \in own : SameBelow(nest[s], nest[r], h)
    <3> TAKE s, r \in own
    <3>1. SameBelow(nest[s], nest[r], NoHelper)  BY <1>1 DEF CallOrderly, LevelBelow
    <3>2. nest[s] \in Seq(Hooked) /\ nest[r] \in Seq(Hooked)  BY <1>1 DEF Typed, SlotsOf
    <3> QED  BY <2>4, <3>1, <3>2, SameBelowNone DEF SlotsOf
  <2>7. LevelBelow(th)'  BY <1>1, <2>2, <2>6 DEF LevelBelow, SlotsOf
  <2>8. Fresh(th)'
    <3>1. \A s \in own : got[s] # req[th].detour  BY <1>1 DEF CallOrderly, Fresh, Injecting
    <3> QED  BY <1>1, <2>2, <2>3, <3>1 DEF Fresh, SlotsOf
  <2>9. \A s \in own : StackedAt(s)'
    <3> TAKE s \in own
    <3>1. s \in Slots /\ StackedAt(s)  BY DEF SInv, Stacked, SlotsOf
    <3>2. \A g \in Helper : Has(nest[s], g) => helper'[g] = helper[g]  BY <2>2, <2>4, <3>1
    <3> QED  BY <1>1, <3>1, <3>2, StackedKept
  <2>10. LazyOnly'
    <3>1. NoOrigin # "lazy"  BY GotAssumption DEF Content
    <3> QED  BY <1>1, <2>2, <2>3, <3>1 DEF SInv, LazyOnly
  <2>11. Busy(th)'  BY <2>2 DEF Busy
  <2> QED  BY <1>1, <2>5, <2>7, <2>8, <2>9, <2>10, <2>11, StepSInv DEF CallOrderly
<1>3. CASE LookupFails(th)
  <2>1. pc'[th] = "return" /\ ret'[th] = "error" /\ UNCHANGED <<helper, mine>>
    BY <1>1, <1>3 DEF LookupFails, Typed
  <2>2. Newest(th)'  BY <1>1, <2>1 DEF Newest, Inner
  <2>3. LevelBelow(th)'  BY <1>1, <2>1 DEF CallOrderly, LevelBelow, SlotsOf
  <2>4. Fresh(th)'  BY <2>1 DEF Fresh, Inner
  <2>5. \A s \in SlotsOf(req[th].symbol) : StackedAt(s)'
    BY <1>1, <2>1, StackedKept DEF SInv, Stacked, SlotsOf
  <2>6. LazyOnly'  BY <1>1, <2>1 DEF SInv, LazyOnly
  <2>7. Busy(th)'  BY <2>1 DEF Busy
  <2> QED  BY <1>1, <2>2, <2>3, <2>4, <2>5, <2>6, <2>7, StepSInv DEF CallOrderly
<1> QED  BY <1>2, <1>3

\* Steps between the changes of slots.
LEMMA PassSInv ==
    ASSUME IInv, NInv, SInv, NEW th \in Thread, Step(th), pc[th] \in Inner, pc'[th] \in Inner,
           UNCHANGED <<got, nest, req, mine, ret, resolving>>,
           \A s \in SlotsOf(req[th].symbol) : s[2] \in Passed(th)' <=> s[2] \in Passed(th),
           \A h \in Helper : \/ helper'[h] = helper[h]
                             \/ /\ helper[h] # Free
                                /\ helper'[h].symbol = helper[h].symbol
                                /\ helper'[h].detour = helper[h].detour
                                /\ helper'[h].origin = helper[h].origin
    PROVE  SInv'
<1>1. /\ Typed /\ Busy(th) /\ Busy(th)' /\ mine[th] \in Helper
      /\ helper'[mine[th]].detour = helper[mine[th]].detour /\ CallOrderly(th)
      /\ Injecting(th)' = Injecting(th) /\ pc'[th] \notin {"lookup", "return"}
  BY DEF IInv, Calls, SInv, CallsOrderly, Busy, Injecting, Inner
<1>2. Newest(th)'
  <2>1. Newest(th)  BY <1>1 DEF CallOrderly
  <2> QED  BY <1>1, <2>1 DEF Newest, SlotsOf
<1>3. LevelBelow(th)'  BY <1>1 DEF CallOrderly, LevelBelow, SlotsOf
<1>4. Fresh(th)'
  <2>1. Fresh(th)  BY <1>1 DEF CallOrderly
  <2> QED  BY <1>1, <2>1 DEF Fresh, SlotsOf
<1>5. \A s \in SlotsOf(req[th].symbol) : StackedAt(s)'
  <2> TAKE s \in SlotsOf(req[th].symbol)
  <2>1. s \in Slots /\ StackedAt(s)  BY DEF SInv, Stacked, SlotsOf
  <2> QED  BY <1>1, <2>1, StackedKept
<1>6. LazyOnly'  BY DEF SInv, LazyOnly
<1> QED  BY <1>1, <1>2, <1>3, <1>4, <1>5, <1>6, StepSInv DEF CallOrderly

LEMMA VisitSInv ==
    ASSUME IInv, NInv, SInv, NEW th \in Thread, Visit(th)
    PROVE  SInv'
<1>1. /\ pc[th] = "visit" /\ pc[th] \in Inner /\ Step(th) /\ Typed
      /\ UNCHANGED <<got, nest, req, mine, ret, resolving>>
  BY DEF Visit, Inner, Step, IInv
<1>2. /\ mine[th] \in Helper /\ helper[mine[th]] # Free /\ helper[mine[th]] \in HelperRec
      /\ helper[mine[th]].symbol = req[th].symbol /\ Busy(th) /\ req[th] \in Request
  BY <1>1, GotAssumption DEF IInv, Calls, Allocated, Busy
<1>3. CASE HasSlot(th)
  <2>1. /\ helper' = [helper EXCEPT ![mine[th]].info = @ \cup {at[th]}]
        /\ pc' = [pc EXCEPT ![th] = "check"] /\ at' = at
    BY <1>3 DEF Visit
  <2>2. /\ helper'[mine[th]] = [helper[mine[th]] EXCEPT !.info = @ \cup {at[th]}]
        /\ \A h \in Helper : h # mine[th] => helper'[h] = helper[h]
        /\ pc'[th] = "check"
    BY <1>1, <1>2, <2>1 DEF Typed
  <2>3. /\ helper'[mine[th]].symbol = helper[mine[th]].symbol
        /\ helper'[mine[th]].detour = helper[mine[th]].detour
        /\ helper'[mine[th]].origin = helper[mine[th]].origin
    BY <1>2, <2>2 DEF HelperRec
  <2>4. Passed(th)' = Passed(th) /\ pc'[th] \in Inner  BY <1>1, <2>1, <2>2 DEF Passed, Inner
  <2> QED  BY <1>1, <1>2, <2>2, <2>3, <2>4, PassSInv
<1>4. CASE ~HasSlot(th)
  <2>1. NextSlot(th) /\ helper' = helper  BY <1>4 DEF Visit
  <2>2. /\ Passed(th)' = Passed(th) \cup {at[th]} /\ pc'[th] \in Inner
    BY <1>1, <2>1, NextSlotPasses DEF Inner
  <2>3. ASSUME NEW s \in SlotsOf(req[th].symbol), s[2] = at[th]  PROVE FALSE
    <3>1. s \in Slots /\ s = <<s[1], s[2]>> /\ s[1] = req[th].symbol
      BY GotAssumption DEF SlotsOf
    <3>2. s = Slot(th)  BY <1>2, <2>3, <3>1 DEF Slot
    <3>3. ~Injecting(th) /\ at[th] \notin helper[mine[th]].info
      BY <1>4, <3>1, <3>2 DEF HasSlot
    <3>4. req[th].op = "uninject"  BY <1>2, <3>3 DEF Injecting, Busy, Request
    <3>5. s[2] \notin Passed(th)  BY <1>1, <2>3, NotPassed
    <3>6. OnTop(nest[s], mine[th])
      BY <1>1, <3>4, <3>5 DEF SInv, CallsOrderly, CallOrderly, Newest
    <3>7. Has(nest[s], mine[th])
      <4>1. nest[s] \in Seq(Hooked)  BY <1>1, <3>1 DEF Typed
      <4>2. Len(nest[s]) \in 1 .. Len(nest[s])  BY <3>6, <4>1, EmptySeq DEF OnTop
      <4> QED  BY <3>6, <4>2 DEF OnTop, Has
    <3> QED  BY <1>2, <2>3, <3>1, <3>3, <3>7 DEF NInv, Hung
  <2> QED  BY <1>1, <2>1, <2>2, <2>3, PassSInv
<1> QED  BY <1>3, <1>4

\* Looking at the protection of a page, changing it and putting it back.
LEMMA ProtSInv ==
    ASSUME IInv, NInv, SInv, NEW th \in Thread,
           \/ GetProt(th) \/ SetProt(th) \/ Restore(th) \/ RestoreFails(th)
           \/ Check(th) /\ got[Slot(th)] # NewFunc(th)
    PROVE  SInv'
<1>1. /\ pc[th] \in AtSlot /\ pc[th] \in Inner /\ Step(th) /\ Typed
      /\ UNCHANGED <<got, nest, helper, req, mine, ret, resolving>>
  BY DEF GetProt, SetProt, Restore, RestoreFails, Check, AtSlot, Inner, Step, IInv
<1>2. CASE Restore(th) \/ RestoreFails(th)
  <2>1. NextSlot(th) /\ pc[th] = "restore"  BY <1>2 DEF Restore, RestoreFails
  <2>2. Passed(th)' = Passed(th) /\ pc'[th] \in Inner
    BY <1>1, <2>1, NextSlotPasses DEF Passed, Inner
  <2> QED  BY <1>1, <2>2, PassSInv
<1>3. CASE GetProt(th) \/ SetProt(th) \/ (Check(th) /\ got[Slot(th)] # NewFunc(th))
  <2>1. /\ pc[th] \in {"check", "getprot", "setprot"} /\ at' = at
        /\ pc'[th] \in {"getprot", "setprot", "store"}
    BY <1>1, <1>3 DEF Check, GetProt, SetProt, Typed
  <2>2. Passed(th)' = Passed(th) /\ pc'[th] \in Inner  BY <2>1 DEF Passed, Inner
  <2> QED  BY <1>1, <2>2, PassSInv
<1> QED  BY <1>2, <1>3

\* The slot of an uninject and the newest hook on it, which is its own.
LEMMA PopIs ==
    ASSUME IInv, NInv, SInv, NEW th \in Thread, ~Injecting(th),
           pc[th] \in {"check", "store"}
    PROVE  LET s == Slot(th)
               h == mine[th]
               n == Len(nest[s])
               front == Without(nest[s], h)
           IN  /\ s \in Slots /\ s[1] = req[th].symbol /\ s[2] = at[th]
               /\ h \in Helper /\ helper[h] \in HelperRec /\ Busy(th)
               /\ req[th].op = "uninject" /\ at[th] \notin Passed(th)
               /\ nest[s] \in Seq(Hooked) /\ n \in Nat \ {0} /\ nest[s][n].h = h
               /\ n \in 1 .. n
               /\ front \in Seq(Hooked) /\ Len(front) = n - 1
               /\ \A i \in 1 .. n - 1 : front[i] = nest[s][i] /\ i \in 1 .. n
               /\ ~Has(front, h) /\ SameBelow(front, nest[s], h)
               /\ NewFunc(th) = helper[h].origin
               /\ helper[h].origin \in Leading(s, n - 1)
<1> DEFINE s == Slot(th)
           h == mine[th]
           n == Len(nest[s])
<1>1. pc[th] \in AtSlot /\ pc[th] \in Inner /\ Typed  BY DEF AtSlot, Inner, IInv
<1>2. s \in Slots /\ h \in Helper /\ helper[h] \in HelperRec /\ Busy(th)  BY <1>1, SlotIs
<1>3. req[th] \in Request /\ helper[h].symbol = req[th].symbol
  BY <1>2, GotAssumption DEF IInv, Calls, Allocated
<1>4. req[th].op = "uninject"  BY <1>2, <1>3 DEF Injecting, Busy, Request
<1>5. s[1] = req[th].symbol /\ s[2] = at[th]  BY <1>3 DEF Slot
<1>6. at[th] \notin Passed(th)  BY NotPassed
<1>7. OnTop(nest[s], h)
  BY <1>1, <1>2, <1>4, <1>5, <1>6 DEF SInv, CallsOrderly, CallOrderly, Newest, SlotsOf
<1>8. nest[s] \in Seq(Hooked) /\ Distinct(nest[s]) /\ StackedAt(s)
  BY <1>1, <1>2 DEF Typed, NInv, HungOnce, SInv, Stacked
<1> HIDE DEF s, h
<1>9. /\ n \in Nat \ {0} /\ nest[s][n].h = h /\ n \in 1 .. n
      /\ LET front == Without(nest[s], h)
         IN  /\ front \in Seq(Hooked) /\ Len(front) = n - 1
             /\ \A i \in 1 .. n - 1 : front[i] = nest[s][i] /\ i \in 1 .. n
             /\ ~Has(front, h) /\ SameBelow(front, nest[s], h)
  BY <1>7, <1>8, WithoutNewest
<1>10. helper[h].origin \in Leading(s, n - 1)  BY <1>8, <1>9 DEF StackedAt
<1>11. NewFunc(th) = helper[h].origin  BY DEF NewFunc, h
<1> QED  BY <1>2, <1>4, <1>5, <1>6, <1>8, <1>9, <1>10, <1>11 DEF s, h

\* Slots whose hooks below that of a call stay the same stay level.
LEMMA LevelKept ==
    ASSUME Typed, Typed', NEW th \in Thread, LevelBelow(th), Busy(th), NEW h, h = mine[th],
           \A s \in SlotsOf(req[th].symbol) : SameBelow(nest'[s], nest[s], h)
    PROVE  \A s, r \in SlotsOf(req[th].symbol) : SameBelow(nest'[s], nest'[r], h)
<1> TAKE s, r \in SlotsOf(req[th].symbol)
<1>1. /\ nest[s] \in Seq(Hooked) /\ nest[r] \in Seq(Hooked)
      /\ nest'[s] \in Seq(Hooked) /\ nest'[r] \in Seq(Hooked)
  BY DEF Typed, SlotsOf
<1>2. SameBelow(nest[s], nest[r], h)  BY DEF LevelBelow
<1>3. SameBelow(nest'[s], nest[s], h) /\ SameBelow(nest'[r], nest[r], h)  OBVIOUS
<1>4. SameBelow(nest'[s], nest[r], h) /\ SameBelow(nest[r], nest'[r], h)
  BY <1>1, <1>2, <1>3, SameBelowIs
<1> QED  BY <1>1, <1>4, SameBelowIs

\* What may be in a slot depends on the detour of the hook below only.
LEMMA LeadingKept ==
    ASSUME NEW s \in Slots, NEW i,
           i # 0 => /\ nest'[s][i].h = nest[s][i].h
                    /\ helper'[nest[s][i].h].detour = helper[nest[s][i].h].detour
    PROVE  Leading(s, i)' = Leading(s, i)
  BY DEF Leading, Natural

LEMMA SomeStep ==
    ASSUME IInv, NEW th \in Thread, Step(th)
    PROVE  Typed /\ Typed'
<1>1. Run  BY DEF Run
<1> QED  BY <1>1, RunIInv DEF IInv

LEMMA PopSInv ==
    ASSUME IInv, NInv, SInv, NEW th \in Thread, ~Injecting(th),
           \/ Store(th)
           \/ Check(th) /\ got[Slot(th)] = NewFunc(th)
    PROVE  SInv'
<1>1. /\ pc[th] \in {"check", "store"} /\ pc[th] \in Inner /\ Step(th) /\ CallOrderly(th)
  BY DEF Store, Check, Inner, Step, SInv, CallsOrderly
<1>2. Typed /\ Typed'  BY <1>1, SomeStep
<1>3. PICK s \in Slots : s = Slot(th)  BY <1>1, PopIs
<1>4. PICK h \in Helper : h = mine[th]  BY <1>1, PopIs
<1>5. PICK n \in Nat \ {0} : n = Len(nest[s])  BY <1>1, <1>3, PopIs
<1> DEFINE front == Without(nest[s], h)
<1>6. /\ s \in Slots /\ s[1] = req[th].symbol /\ s[2] = at[th]
      /\ h \in Helper /\ helper[h] \in HelperRec /\ Busy(th)
      /\ req[th].op = "uninject" /\ at[th] \notin Passed(th)
      /\ nest[s] \in Seq(Hooked) /\ n \in Nat \ {0}
      /\ front \in Seq(Hooked) /\ Len(front) = n - 1
      /\ \A i \in 1 .. n - 1 : front[i] = nest[s][i] /\ i \in 1 .. n
      /\ SameBelow(front, nest[s], h)
      /\ NewFunc(th) = helper[h].origin
      /\ helper[h].origin \in Leading(s, n - 1)
  BY <1>1, <1>3, <1>4, <1>5, PopIs
<1>7. /\ nest' = [nest EXCEPT ![s] = front]
      /\ \/ got' = got /\ got[s] = NewFunc(th)
         \/ got' = [got EXCEPT ![s] = NewFunc(th)]
      /\ UNCHANGED <<helper, req, mine, ret, resolving>>
  BY <1>3, <1>4 DEF Store, Check, GiveUp
<1>8. /\ Passed(th)' = Passed(th) \cup {at[th]} /\ pc'[th] \in Inner
      /\ pc'[th] \notin {"lookup", "return"}
  <2>1. CASE Store(th)  BY <1>2, <2>1, StorePasses DEF Inner
  <2>2. CASE Check(th) /\ got[s] = NewFunc(th)
    <3>1. NextSlot(th)  BY <1>3, <2>2 DEF Check
    <3> QED  BY <1>2, <3>1, NextSlotPasses DEF Inner
  <2> QED  BY <1>3, <2>1, <2>2
<1> HIDE DEF front
<1>9. /\ nest'[s] = front /\ got'[s] = helper[h].origin
      /\ \A r \in Slots : r # s => nest'[r] = nest[r] /\ got'[r] = got[r]
  BY <1>2, <1>6, <1>7 DEF Typed
<1>10. Busy(th)' /\ ~Injecting(th)'  BY <1>6, <1>7, <1>8 DEF Busy, Injecting, Inner
<1>11. Newest(th)'
  <2>1. ASSUME NEW r \in SlotsOf(req[th].symbol), r[2] \notin Passed(th)'
        PROVE  OnTop(nest'[r], h)
    <3>1. r # s /\ r[2] \notin Passed(th) /\ r \in Slots  BY <1>6, <1>8, <2>1 DEF SlotsOf
    <3>2. OnTop(nest[r], h)  BY <1>1, <1>6, <1>4, <3>1 DEF CallOrderly, Newest
    <3> QED  BY <1>9, <3>1, <3>2
  <2> QED  BY <1>6, <1>7, <1>8, <1>10, <1>4, <2>1 DEF Newest, SlotsOf
<1>12. LevelBelow(th)'
  <2>1. \A r \in SlotsOf(req[th].symbol) : SameBelow(nest'[r], nest[r], h)
    <3> TAKE r \in SlotsOf(req[th].symbol)
    <3>1. r \in Slots /\ nest[r] \in Seq(Hooked)  BY <1>2 DEF Typed, SlotsOf
    <3> QED  BY <1>6, <1>9, <3>1, SameBelowIs
  <2>2. \A r, q \in SlotsOf(req[th].symbol) : SameBelow(nest'[r], nest'[q], h)
    BY <1>1, <1>2, <1>6, <1>4, <2>1, LevelKept DEF CallOrderly
  <2> QED  BY <1>7, <1>4, <2>2 DEF LevelBelow, SlotsOf
<1>13. Fresh(th)'  BY <1>10 DEF Fresh
<1>14. \A r \in SlotsOf(req[th].symbol) : StackedAt(r)'
  <2> TAKE r \in SlotsOf(req[th].symbol)
  <2>1. r \in Slots /\ StackedAt(r)  BY DEF SInv, Stacked, SlotsOf
  <2>2. CASE r # s  BY <1>2, <1>7, <1>9, <2>1, <2>2, StackedKept
  <2>3. CASE r = s
    <3>1. \A i \in 0 .. n - 1 : Leading(s, i)' = Leading(s, i)
      <4> TAKE i \in 0 .. n - 1
      <4>1. i # 0 => i \in 1 .. n - 1  BY <1>6
      <4>2. i # 0 => nest'[s][i] = nest[s][i]  BY <1>6, <1>9, <4>1
      <4>3. s \in Slots /\ helper' = helper  BY <1>6, <1>7
      <4> QED  BY <4>2, <4>3, LeadingKept
    <3>2. n - 1 \in 0 .. n - 1 /\ \A i \in 1 .. n - 1 : i - 1 \in 0 .. n - 1  BY <1>6
    <3>3. \A i \in 1 .. n - 1 : /\ nest[s][i].under \in Leading(s, i - 1)
                                /\ helper[nest[s][i].h].origin \in Leading(s, i - 1)
      BY <1>6, <1>5, <2>1, <2>3 DEF StackedAt
    <3>4. Len(nest'[s]) = n - 1 /\ got'[s] \in Leading(s, n - 1)'
      BY <1>6, <1>9, <3>1, <3>2
    <3>5. ASSUME NEW i \in 1 .. n - 1
          PROVE  /\ nest'[s][i].under \in Leading(s, i - 1)'
                 /\ helper'[nest'[s][i].h].origin \in Leading(s, i - 1)'
      <4>1. nest'[s][i] = nest[s][i] /\ helper' = helper  BY <1>6, <1>7, <1>9
      <4>2. Leading(s, i - 1)' = Leading(s, i - 1)  BY <3>1, <3>2
      <4> QED  BY <3>3, <4>1, <4>2
    <3> QED  BY <2>3, <3>4, <3>5 DEF StackedAt
  <2> QED  BY <2>2, <2>3
<1>15. LazyOnly'  BY <1>7 DEF SInv, LazyOnly
<1> QED  BY <1>1, <1>10, <1>11, <1>12, <1>13, <1>14, <1>15, StepSInv DEF CallOrderly

\* A slot that may hold the stub is one the loader writes to.
LEMMA LazyIs ==
    ASSUME Typed, Hung, NEW s \in Slots, NEW i \in 0 .. Len(nest[s]), "lazy" \in Leading(s, i)
    PROVE  s \notin Bound /\ s[1] \in Lazy
<1>1. s \notin Bound
  <2> SUFFICES ASSUME s \in Bound PROVE FALSE  OBVIOUS
  <2>1. CASE i = 0  BY <2>1 DEF Leading, Natural
  <2>2. CASE i # 0
    <3>1. i \in 1 .. Len(nest[s]) /\ nest[s] \in Seq(Hooked)  BY <2>2 DEF Typed
    <3>2. nest[s][i] \in Hooked  BY <3>1, ElementOfSeq
    <3>3. nest[s][i].h \in Helper /\ Has(nest[s], nest[s][i].h)
      BY <3>1, <3>2 DEF Hooked, Has
    <3>4. helper[nest[s][i].h] \in HelperRec  BY <3>3 DEF Hung, Typed
    <3>5. helper[nest[s][i].h].detour \in Detour  BY <3>4 DEF HelperRec
    <3> QED  BY <2>2, <3>5, GotAssumption DEF Leading
  <2> QED  BY <2>1, <2>2
<1>2. InitGot[s] # "impl"  BY <1>1 DEF Bound
<1> QED  BY <1>1, <1>2 DEF InitGot

\* The store of an inject: its hook is not on the slot yet.
LEMMA PushIs ==
    ASSUME IInv, NInv, NEW th \in Thread, Store(th), Injecting(th)
    PROVE  LET s == Slot(th)
               h == mine[th]
           IN  /\ s \in Slots /\ s[1] = req[th].symbol /\ s[2] = at[th]
               /\ h \in Helper /\ helper[h] \in HelperRec /\ Busy(th)
               /\ req[th].op = "inject" /\ at[th] \notin Passed(th)
               /\ helper[h].symbol = req[th].symbol
               /\ ~Has(nest[s], h)
<1>1. pc[th] = "store" /\ pc[th] \in AtSlot /\ pc[th] \in Inner  BY DEF Store, AtSlot, Inner
<1>2. /\ Slot(th) \in Slots /\ mine[th] \in Helper /\ helper[mine[th]] \in HelperRec
      /\ Busy(th) /\ helper[mine[th]].symbol = req[th].symbol
  BY <1>1, SlotIs, GotAssumption DEF IInv, Allocated
<1>3. Slot(th)[1] = req[th].symbol /\ Slot(th)[2] = at[th]  BY <1>2 DEF Slot
<1>4. at[th] \notin Passed(th) /\ req[th].op = "inject"  BY <1>1, NotPassed DEF Injecting
<1> QED  BY <1>1, <1>2, <1>3, <1>4 DEF NInv, Walked, SlotsOf

\* When both slots of a symbol carry the hooks of others alike, what the second is
\* found with may have been under the hook on the first.
LEMMA LeadingAcross ==
    ASSUME Typed, NEW s \in Bound, NEW r \in Slots, NEW n \in Nat,
           n # 0 => nest[s][n].h = nest[r][n].h
    PROVE  Leading(s, n) \subseteq Leading(r, n)
  BY DEF Leading, Natural

LEMMA PushSInv ==
    ASSUME IInv, NInv, SInv, NEW th \in Thread, Store(th), Injecting(th)
    PROVE  SInv'
<1>1. /\ pc[th] = "store" /\ pc[th] \in Inner /\ Step(th) /\ CallOrderly(th)
  BY DEF Store, Inner, Step, SInv, CallsOrderly
<1>2. Typed /\ Typed'  BY <1>1, SomeStep
<1>3. PICK s \in Slots : s = Slot(th)  BY PushIs
<1>4. PICK h \in Helper : h = mine[th]  BY PushIs
<1>5. PICK n \in Nat : n = Len(nest[s])  BY <1>2, LenProperties DEF Typed
<1>6. /\ s[1] = req[th].symbol /\ s[2] = at[th] /\ helper[h] \in HelperRec /\ Busy(th)
      /\ req[th].op = "inject" /\ at[th] \notin Passed(th) /\ helper[h].symbol = s[1]
      /\ nest[s] \in Seq(Hooked) /\ ~Has(nest[s], h) /\ StackedAt(s)
  BY <1>2, <1>3, <1>4, PushIs DEF Typed, SInv, Stacked
<1>7. PICK e \in Hooked :
         /\ e.h = h /\ e.under = got[s] /\ nest'[s] = Append(nest[s], e)
         /\ \A r \in Slots : r # s => nest'[r] = nest[r] /\ got'[r] = got[r]
         /\ got'[s] = helper[h].detour
         /\ helper'[h] = [helper[h] EXCEPT !.origin = got[s]]
         /\ \A g \in Helper : g # h => helper'[g] = helper[g]
         /\ UNCHANGED <<req, mine, ret, resolving>>
  <2> DEFINE e == [h |-> h, under |-> got[s]]
  <2>1. e \in Hooked /\ nest'[s] = Append(nest[s], e)  BY <1>3, <1>4, StoreHook
  <2>2. /\ \A r \in Slots : r # s => nest'[r] = nest[r] /\ got'[r] = got[r]
        /\ got'[s] = helper[h].detour
        /\ helper'[h] = [helper[h] EXCEPT !.origin = got[s]]
        /\ \A g \in Helper : g # h => helper'[g] = helper[g]
        /\ UNCHANGED <<req, mine, ret, resolving>>
    BY <1>3, <1>4, StoreHook
  <2>3. e.h = h /\ e.under = got[s]  OBVIOUS
  <2> HIDE DEF e
  <2> QED  BY <2>1, <2>2, <2>3
<1>8. /\ helper'[h].symbol = helper[h].symbol /\ helper'[h].detour = helper[h].detour
      /\ helper'[h].origin = got[s]
  BY <1>6, <1>7 DEF HelperRec
<1>9. /\ Passed(th)' = Passed(th) \cup {at[th]} /\ pc'[th] \in Inner
      /\ pc'[th] \notin {"lookup", "return"}
  BY <1>2, StorePasses DEF Inner
<1>10. Busy(th)' /\ Injecting(th)'  BY <1>6, <1>7, <1>9 DEF Busy, Injecting, Inner
<1>11. /\ SameBelow(nest'[s], nest[s], h) /\ OnTop(nest'[s], h)
       /\ Len(nest'[s]) = n + 1 /\ nest'[s][n + 1] = e
       /\ \A i \in 1 .. n : nest'[s][i] = nest[s][i]
       /\ \A i \in 1 .. n + 1 : i = n + 1 \/ i \in 1 .. n
  BY <1>5, <1>6, <1>7, AppendSameBelow, AppendIs
<1>12. \A r \in SlotsOf(req[th].symbol) :
          r \in Slots /\ r[1] = s[1] /\ (r[2] = at[th] => r = s)
  <2> TAKE r \in SlotsOf(req[th].symbol)
  <2>1. r \in Slots /\ r[1] = req[th].symbol  BY DEF SlotsOf
  <2>2. r = <<r[1], r[2]>> /\ s = <<s[1], s[2]>>  BY <2>1, GotAssumption
  <2> QED  BY <1>6, <2>1, <2>2
<1>13. Newest(th)'
  <2>1. ASSUME NEW r \in SlotsOf(req[th].symbol), r[2] \in Passed(th)'
        PROVE  OnTop(nest'[r], h)
    <3>1. CASE r = s  BY <1>11, <3>1
    <3>2. CASE r # s
      <4>1. r \in Slots /\ r[2] \in Passed(th)  BY <1>9, <1>12, <2>1, <3>2
      <4>2. OnTop(nest[r], h)  BY <1>1, <1>4, <1>6, <4>1 DEF CallOrderly, Newest
      <4> QED  BY <1>7, <3>2, <4>1, <4>2
    <3> QED  BY <3>1, <3>2
  <2>2. ret[th] # "error"  BY <1>1 DEF CallOrderly, Newest
  <2> QED  BY <1>4, <1>6, <1>7, <1>9, <2>1, <2>2 DEF Newest, SlotsOf
<1>14. LevelBelow(th)'
  <2>1. \A r \in SlotsOf(req[th].symbol) : SameBelow(nest'[r], nest[r], h)
    <3> TAKE r \in SlotsOf(req[th].symbol)
    <3>1. r \in Slots /\ nest[r] \in Seq(Hooked)  BY <1>2 DEF Typed, SlotsOf
    <3>2. CASE r = s  BY <1>11, <3>2
    <3>3. CASE r # s  BY <1>7, <3>1, <3>3, SameBelowIs
    <3> QED  BY <3>2, <3>3
  <2>2. \A r, q \in SlotsOf(req[th].symbol) : SameBelow(nest'[r], nest'[q], h)
    BY <1>1, <1>2, <1>4, <1>6, <2>1, LevelKept DEF CallOrderly
  <2> QED  BY <1>4, <1>7, <2>2 DEF LevelBelow, SlotsOf
<1>15. Fresh(th)'
  <2>1. ASSUME NEW r \in SlotsOf(req[th].symbol), r[2] \notin Passed(th)'
        PROVE  got'[r] # helper'[h].detour
    <3>1. r \in Slots /\ r # s /\ r[2] \notin Passed(th)  BY <1>6, <1>9, <1>12, <2>1
    <3>2. got[r] # helper[h].detour  BY <1>1, <1>4, <3>1 DEF CallOrderly, Fresh
    <3> QED  BY <1>7, <1>8, <3>1, <3>2
  <2> QED  BY <1>4, <1>7, <1>9, <2>1 DEF Fresh, SlotsOf
<1>16. \A r \in SlotsOf(req[th].symbol) : StackedAt(r)'
  <2> TAKE r \in SlotsOf(req[th].symbol)
  <2>1. r \in Slots /\ StackedAt(r)  BY <1>12 DEF SInv, Stacked
  <2>2. \A g \in Helper : helper'[g].detour = helper[g].detour  BY <1>7, <1>8
  <2>3. CASE r = s
    <3>1. ASSUME NEW i \in 1 .. n
          PROVE  nest'[s][i] = nest[s][i] /\ helper'[nest[s][i].h] = helper[nest[s][i].h]
      <4>1. nest[s][i] \in Hooked  BY <1>5, <1>6, ElementOfSeq
      <4>2. nest[s][i].h \in Helper /\ nest[s][i].h # h
        BY <1>5, <1>6, <4>1 DEF Hooked, Has
      <4> QED  BY <1>7, <1>11, <4>2
    <3>2. \A i \in 0 .. n : Leading(s, i)' = Leading(s, i)
      <4> TAKE i \in 0 .. n
      <4>1. i # 0 => i \in 1 .. n  OBVIOUS
      <4> QED  BY <3>1, <4>1, LeadingKept
    <3>3. n \in 0 .. n /\ n + 1 # 0 /\ n + 1 - 1 = n /\ \A i \in 1 .. n : i - 1 \in 0 .. n
      OBVIOUS
    <3>4. got[s] \in Leading(s, n)'  BY <1>5, <1>6, <3>2, <3>3 DEF StackedAt
    <3>5. got'[s] \in Leading(s, n + 1)'  BY <1>7, <1>8, <1>11, <3>3 DEF Leading
    <3>6. ASSUME NEW i \in 1 .. n + 1
          PROVE  /\ nest'[s][i].under \in Leading(s, i - 1)'
                 /\ helper'[nest'[s][i].h].origin \in Leading(s, i - 1)'
      <4>1. CASE i = n + 1
        <5>1. i - 1 = n  BY <4>1
        <5>2. nest'[s][i].under = got[s] /\ helper'[nest'[s][i].h].origin = got[s]
          BY <1>7, <1>8, <1>11, <4>1
        <5> QED  BY <3>4, <5>1, <5>2
      <4>2. CASE i \in 1 .. n
        <5>1. /\ nest[s][i].under \in Leading(s, i - 1)
              /\ helper[nest[s][i].h].origin \in Leading(s, i - 1)
          BY <1>5, <1>6, <4>2 DEF StackedAt
        <5>2. Leading(s, i - 1)' = Leading(s, i - 1)  BY <3>2, <3>3, <4>2
        <5> QED  BY <3>1, <4>2, <5>1, <5>2
      <4> QED  BY <1>11, <4>1, <4>2
    <3> QED  BY <1>11, <2>3, <3>5, <3>6 DEF StackedAt
  <2>4. CASE r # s /\ ~Has(nest[r], h)
    <3>1. \A g \in Helper : Has(nest[r], g) => helper'[g] = helper[g]  BY <1>7, <2>4
    <3> QED  BY <1>2, <1>7, <2>1, <2>4, <3>1, StackedKept
  <2>5. CASE r # s /\ Has(nest[r], h)
    <3>1. r[2] \in Passed(th)
      BY <1>1, <1>4, <1>6, <2>5 DEF NInv, Walked
    <3>2. at[th] = "dyn"  BY <1>1, <3>1 DEF Passed
    <3>3. s \in Bound  BY <1>6, <3>2 DEF Bound, InitGot
    <3>4. OnTop(nest[r], h)  BY <1>1, <1>4, <1>6, <3>1 DEF CallOrderly, Newest
    <3>5. nest[r] \in Seq(Hooked) /\ Distinct(nest[r])
      BY <1>2, <2>1 DEF Typed, NInv, HungOnce
    <3>6. PICK m \in Nat \ {0} : m = Len(nest[r]) /\ nest[r][m].h = h
      BY <3>4, <3>5, WithoutNewest
    <3>7. n = m - 1 /\ \A i \in 1 .. n : nest[s][i].h = nest[r][i].h
      <4>1. s \in SlotsOf(req[th].symbol)  BY <1>6 DEF SlotsOf
      <4>2. SameBelow(nest[s], nest[r], h)
        BY <1>1, <1>4, <1>6, <4>1 DEF CallOrderly, LevelBelow
      <4>3. Depth(nest[r], h) = m - 1  BY <3>4, <3>6 DEF Depth
      <4>4. ~OnTop(nest[s], h)
        <5>1. nest[s] # <<>> => n \in 1 .. n  BY <1>5, <1>6, EmptySeq
        <5> QED  BY <1>5, <1>6, <5>1 DEF OnTop, Has
      <4>5. Depth(nest[s], h) = n  BY <1>5, <4>4 DEF Depth
      <4> QED  BY <4>2, <4>3, <4>5 DEF SameBelow
    <3>8. got[s] \in Leading(r, m - 1)
      <4>1. got[s] \in Leading(s, n)  BY <1>5, <1>6 DEF StackedAt
      <4>2. n # 0 => n \in 1 .. n  OBVIOUS
      <4>3. Leading(s, n) \subseteq Leading(r, n)
        BY <1>2, <2>1, <3>3, <3>7, <4>2, LeadingAcross
      <4> QED  BY <3>7, <4>1, <4>3
    <3>9. nest'[r] = nest[r] /\ got'[r] = got[r]  BY <1>7, <2>1, <2>5
    <3>10. \A i \in 1 .. m : nest[r][i].h \in Helper
      <4> TAKE i \in 1 .. m
      <4>1. nest[r][i] \in Hooked  BY <3>5, <3>6, ElementOfSeq
      <4> QED  BY <4>1 DEF Hooked
    <3>11. \A i \in 0 .. m : Leading(r, i)' = Leading(r, i)
      <4> TAKE i \in 0 .. m
      <4>1. i # 0 => nest[r][i].h \in Helper  BY <3>10
      <4> QED  BY <2>1, <2>2, <3>9, <4>1, LeadingKept
    <3>12. ASSUME NEW i \in 1 .. m
           PROVE  helper'[nest[r][i].h].origin \in Leading(r, i - 1)
      <4>1. CASE i = m  BY <1>8, <3>6, <3>8, <4>1
      <4>2. CASE i # m
        <5>1. nest[r][i].h # h  BY <3>5, <3>6, <4>2 DEF Distinct
        <5>2. helper'[nest[r][i].h] = helper[nest[r][i].h]  BY <1>7, <3>10, <5>1
        <5> QED  BY <2>1, <3>6, <5>2 DEF StackedAt
      <4> QED  BY <4>1, <4>2
    <3>13. m \in 0 .. m /\ \A i \in 1 .. m : i - 1 \in 0 .. m  OBVIOUS
    <3> QED  BY <2>1, <3>6, <3>9, <3>11, <3>12, <3>13 DEF StackedAt
  <2> QED  BY <2>3, <2>4, <2>5
<1>17. LazyOnly'
  <2>1. got[s] = "lazy" => s[1] \in Lazy
    <3>1. got[s] \in Leading(s, n) /\ n \in 0 .. Len(nest[s])  BY <1>5, <1>6 DEF StackedAt
    <3> QED  BY <1>2, <3>1, LazyIs DEF NInv
  <2> QED  BY <1>6, <1>7, <1>8, <2>1, ZenonT(60) DEF SInv, LazyOnly
<1> QED  BY <1>1, <1>10, <1>13, <1>14, <1>15, <1>16, <1>17, StepSInv DEF CallOrderly

\* An inject does not find its detour in a slot.
LEMMA CheckSInv ==
    ASSUME IInv, NInv, SInv, NEW th \in Thread, Check(th)
    PROVE  SInv'
<1>1. CASE got[Slot(th)] # NewFunc(th)  BY <1>1, ProtSInv
<1>2. CASE got[Slot(th)] = NewFunc(th) /\ ~Injecting(th)  BY <1>2, PopSInv
<1>3. CASE got[Slot(th)] = NewFunc(th) /\ Injecting(th)
  <2>1. pc[th] = "check" /\ pc[th] \in AtSlot /\ pc[th] \in Inner
    BY DEF Check, AtSlot, Inner
  <2>2. /\ Slot(th) \in Slots /\ mine[th] \in Helper /\ helper[mine[th]].symbol = req[th].symbol
    BY <2>1, SlotIs, GotAssumption DEF IInv, Allocated
  <2>3. Slot(th) \in SlotsOf(req[th].symbol) /\ Slot(th)[2] = at[th]
    BY <2>2 DEF Slot, SlotsOf
  <2>4. at[th] \notin Passed(th)  BY <2>1, NotPassed
  <2>5. got[Slot(th)] # helper[mine[th]].detour
    BY <1>3, <2>1, <2>3, <2>4 DEF SInv, CallsOrderly, CallOrderly, Fresh
  <2> QED  BY <1>3, <2>5 DEF NewFunc
<1> QED  BY <1>1, <1>2, <1>3

\* A helper that a step frees is on no slot, and those it keeps do not change.
LEMMA EndStacked ==
    ASSUME IInv, NInv, SInv, UNCHANGED <<got, nest, resolving>>,
           \A h \in Helper : \/ helper'[h] = helper[h]
                             \/ helper'[h] = Free /\ \A s \in Slots : ~Has(nest[s], h)
    PROVE  (\A s \in Slots : StackedAt(s)') /\ LazyOnly'
<1>1. ASSUME NEW s \in Slots  PROVE StackedAt(s)'
  <2>1. Typed /\ StackedAt(s)  BY DEF IInv, SInv, Stacked
  <2>2. \A g \in Helper : Has(nest[s], g) => helper'[g] = helper[g]  OBVIOUS
  <2> QED  BY <2>1, <2>2, StackedKept
<1>2. LazyOnly'  BY DEF SInv, LazyOnly
<1> QED  BY <1>1, <1>2

LEMMA FinishSInv ==
    ASSUME IInv, NInv, SInv, NEW th \in Thread, FinishInject(th)
    PROVE  SInv'
<1> DEFINE own == SlotsOf(req[th].symbol)
<1>1. /\ pc[th] = "finish" /\ pc[th] \in Inner /\ Step(th) /\ Injecting(th) /\ Busy(th)
      /\ req[th].op = "inject" /\ CallOrderly(th) /\ Typed
  BY DEF FinishInject, Inner, Step, Injecting, Busy, SInv, CallsOrderly, IInv
<1>2. PICK h \in Helper : h = mine[th]  BY <1>1 DEF IInv, Calls
<1>3. h # NoHelper /\ helper[h] \in HelperRec /\ helper[h].symbol = req[th].symbol
  BY <1>2, GotAssumption DEF IInv, Allocated
<1>4. ret[th] # "error" /\ Passed(th) = Kind
  <2>1. ret[th] # "error"  BY <1>1 DEF CallOrderly, Newest
  <2>2. at[th] = "dyn"  BY <1>1, <2>1 DEF NInv, Ended
  <2> QED  BY <1>1, <2>1, <2>2 DEF Passed, Kind
<1>5. \A s \in own : /\ s \in Slots /\ s[2] \in Kind /\ nest[s] \in Seq(Hooked)
                     /\ OnTop(nest[s], h) /\ Has(nest[s], h)
  <2> TAKE s \in own
  <2>1. s \in Slots /\ s[2] \in Kind  BY GotAssumption DEF SlotsOf
  <2>2. nest[s] \in Seq(Hooked)  BY <1>1, <2>1 DEF Typed
  <2>3. OnTop(nest[s], h)  BY <1>1, <1>2, <1>4, <2>1 DEF CallOrderly, Newest
  <2>4. Len(nest[s]) \in 1 .. Len(nest[s])  BY <2>2, <2>3, EmptySeq DEF OnTop
  <2> QED  BY <2>1, <2>2, <2>3, <2>4 DEF OnTop, Has
<1>6. UNCHANGED <<got, nest, req, token, resolving>> /\ pc'[th] = "return"
      /\ ret'[th] = Result(th)
  BY <1>1 DEF FinishInject, Typed
<1>7. CASE Result(th) = "success" /\ helper[h].origin # NoOrigin
  <2>1. helper' = helper /\ mine' = mine  BY <1>2, <1>7 DEF FinishInject
  <2>2. Newest(th)'  BY <1>2, <1>3, <1>5, <1>6, <2>1 DEF Newest, Inner, SlotsOf
  <2>3. LevelBelow(th)'  BY <1>1, <1>6, <2>1 DEF CallOrderly, LevelBelow, SlotsOf
  <2>4. Fresh(th)'  BY <1>6 DEF Fresh, Inner
  <2>5. (\A s \in Slots : StackedAt(s)') /\ LazyOnly'  BY <1>6, <2>1, EndStacked
  <2>6. Busy(th)'  BY <1>6 DEF Busy
  <2> QED  BY <1>1, <2>2, <2>3, <2>4, <2>5, <2>6, StepSInv DEF CallOrderly, SlotsOf
<1>8. CASE ~(Result(th) = "success" /\ helper[h].origin # NoOrigin)
  <2>1. helper' = [helper EXCEPT ![h] = Free] /\ mine' = [mine EXCEPT ![th] = NoHelper]
    BY <1>2, <1>8 DEF FinishInject
  <2>2. mine'[th] = NoHelper /\ helper'[h] = Free
        /\ \A g \in Helper : g # h => helper'[g] = helper[g]
    BY <1>1, <2>1 DEF Typed
  <2>3. own = {}
    <3> SUFFICES ASSUME NEW s \in own PROVE FALSE  OBVIOUS
    <3>1. helper[h].info # {} /\ helper[h].origin # NoOrigin  BY <1>5 DEF NInv, Hung
    <3> QED  BY <1>2, <1>4, <1>8, <3>1 DEF Result
  <2>4. \A s \in Slots : ~Has(nest[s], h)
    <3> SUFFICES ASSUME NEW s \in Slots, Has(nest[s], h) PROVE FALSE  OBVIOUS
    <3>1. s \in own  BY <1>3 DEF NInv, Hung, SlotsOf
    <3> QED  BY <2>3, <3>1
  <2>5. Result(th) = "error"
    <3> SUFFICES ASSUME helper[h].info # {} PROVE FALSE
      BY <1>2 DEF Result
    <3>1. PICK kind : kind \in helper[h].info  OBVIOUS
    <3>2. <<req[th].symbol, kind>> \in Slots  BY <1>3, <3>1, GotAssumption DEF IInv, Noted
    <3>3. <<req[th].symbol, kind>> \in own  BY <3>2 DEF SlotsOf
    <3> QED  BY <2>3, <3>3
  <2>6. Newest(th)'  BY <1>6, <2>2, <2>5 DEF Newest, Inner
  <2>7. LevelBelow(th)'  BY <1>6, <2>3 DEF LevelBelow, SlotsOf
  <2>8. Fresh(th)'  BY <1>6 DEF Fresh, Inner
  <2>9. (\A s \in Slots : StackedAt(s)') /\ LazyOnly'  BY <1>6, <2>2, <2>4, EndStacked
  <2>10. Busy(th)'  BY <1>6 DEF Busy
  <2> QED  BY <1>1, <2>6, <2>7, <2>8, <2>9, <2>10, StepSInv DEF CallOrderly, SlotsOf
<1> QED  BY <1>7, <1>8

\* What a call that has ended leaves to itself.
LEMMA IdleOrderly ==
    ASSUME NEW th \in Thread, pc'[th] = "idle"
    PROVE  CallOrderly(th)' /\ ~Busy(th)'
  BY DEF CallOrderly, Newest, LevelBelow, Fresh, Injecting, Busy, Inner

LEMMA ReturnSInv ==
    ASSUME IInv, NInv, SInv, NEW th \in Thread, ReturnInject(th) \/ ReturnUninject(th)
    PROVE  SInv'
<1> DEFINE own == SlotsOf(req[th].symbol)
           k == req[th].token
           h == mine[th]
<1>1. /\ Step(th) /\ Busy(th) /\ CallOrderly(th) /\ Typed /\ pc'[th] = "idle"
      /\ req[th] \in Request /\ k \in Token
      /\ UNCHANGED <<got, nest, resolving>>
  <2>1. Busy(th) /\ Typed  BY DEF ReturnInject, ReturnUninject, Busy, IInv
  <2>2. req[th] \in Request /\ k \in Token  BY <2>1 DEF IInv, Calls, Request
  <2> QED
    BY <2>1, <2>2 DEF Step, SInv, CallsOrderly, ReturnInject, ReturnUninject, Return, Typed
<1>2. \A s, r \in own : /\ SameBelow(nest[s], nest[r], h)
                        /\ nest[s] \in Seq(Hooked) /\ nest[r] \in Seq(Hooked)
  <2>1. \A s \in own : nest[s] \in Seq(Hooked)  BY <1>1 DEF Typed, SlotsOf
  <2> QED  BY <1>1, <2>1 DEF CallOrderly, LevelBelow
<1>3. CASE ReturnInject(th)
  <2>1. /\ pc[th] = "return" /\ helper' = helper
        /\ token' = IF ret[th] = "success" THEN [token EXCEPT ![k] = h] ELSE token
        /\ token[k] = NoHelper
    BY <1>1, <1>3 DEF ReturnInject, IInv, Calls, Injecting
  <2>2. (\A s \in Slots : StackedAt(s)') /\ LazyOnly'  BY <1>1, <2>1, EndStacked
  <2>3. \A s \in own : h # NoHelper => OnTop(nest[s], h) /\ Has(nest[s], h)
    <3> TAKE s \in own
    <3> HAVE h # NoHelper
    <3>1. OnTop(nest[s], h)  BY <1>1, <2>1 DEF CallOrderly, Newest
    <3>2. Len(nest[s]) \in 1 .. Len(nest[s])  BY <1>2, <3>1, EmptySeq DEF OnTop
    <3> QED  BY <3>1, <3>2 DEF OnTop, Has
  <2>4. \A s, r \in own : SameBelow(nest[s], nest[r], NoHelper)
    <3> TAKE s, r \in own
    <3>1. CASE h = NoHelper  BY <1>2, <3>1
    <3>2. CASE h # NoHelper  BY <1>2, <2>3, <3>2, SameBelowTop
    <3> QED  BY <3>1, <3>2
  <2>5. ASSUME NEW g \in Helper, token'[k] = g
        PROVE  \A s \in SlotsOf(helper'[g].symbol) : Has(nest'[s], g)
    <3>1. g = h /\ h # NoHelper
      <4>1. g # NoHelper  BY GotAssumption
      <4> QED  BY <1>1, <2>1, <2>5, <4>1 DEF Typed
    <3>2. helper[h].symbol = req[th].symbol  BY <3>1 DEF IInv, Allocated
    <3> QED  BY <1>1, <2>1, <2>3, <3>1, <3>2
  <2> QED  BY <1>1, <2>2, <2>4, <2>5, IdleOrderly, StepSInv DEF SlotsOf
<1>4. CASE ReturnUninject(th)
  <2>1. /\ pc[th] = "finish" /\ pc[th] \in Inner /\ ~Injecting(th)
        /\ helper' = [helper EXCEPT ![h] = Free] /\ token' = [token EXCEPT ![k] = NoHelper]
    BY <1>4 DEF ReturnUninject, Inner
  <2>2. req[th].op = "uninject" /\ h \in Helper /\ h # NoHelper
    BY <1>1, <2>1, GotAssumption DEF IInv, Calls, Injecting, Busy, Request
  <2>3. Passed(th) = Kind
    <3>1. at[th] = "dyn"  BY <2>1 DEF NInv, Ended
    <3> QED  BY <2>1, <3>1 DEF Passed, Kind
  <2>4. \A s \in own : ~Has(nest[s], h)
    <3> TAKE s \in own
    <3>1. s[2] \in Kind  BY GotAssumption DEF SlotsOf
    <3> QED  BY <2>1, <2>2, <2>3, <3>1 DEF NInv, Walked
  <2>5. \A s \in Slots : ~Has(nest[s], h)
    <3> SUFFICES ASSUME NEW s \in Slots, Has(nest[s], h) PROVE FALSE  OBVIOUS
    <3>1. s[1] = helper[h].symbol  BY <2>2 DEF NInv, Hung
    <3>2. helper[h].symbol = req[th].symbol  BY <2>2 DEF IInv, Allocated
    <3> QED  BY <2>4, <3>1, <3>2 DEF SlotsOf
  <2>6. (\A s \in Slots : StackedAt(s)') /\ LazyOnly'
    <3>1. \A g \in Helper : helper'[g] = IF g = h THEN Free ELSE helper[g]
      BY <1>1, <2>1 DEF Typed
    <3> QED  BY <1>1, <2>5, <3>1, EndStacked
  <2>7. \A s, r \in own : SameBelow(nest[s], nest[r], NoHelper)
    BY <1>2, <2>4, SameBelowNone
  <2>8. token'[k] = NoHelper  BY <1>1, <2>1 DEF Typed
  <2> QED  BY <1>1, <2>6, <2>7, <2>8, IdleOrderly, StepSInv, GotAssumption DEF SlotsOf
<1> QED  BY <1>3, <1>4

\* The loader binds slots that are not bound, to the function itself.
LEMMA LoaderSInv ==
    ASSUME IInv, NInv, SInv, Loader
    PROVE  SInv'
<1>1. Typed /\ UNCHANGED <<prot, helper, token, pc, req, mine, at, oldProt, ret, nest>>
  BY DEF IInv, Loader, StartResolve, EndResolve, local
<1>2. /\ \A th \in Thread : /\ Passed(th)' = Passed(th) /\ Injecting(th)' = Injecting(th)
                            /\ Busy(th)' = Busy(th)
      /\ \A sym \in Symbol : Quiet(sym)' = Quiet(sym)
      /\ \A s \in Slots : \A i : Leading(s, i)' = Leading(s, i)
  BY <1>1 DEF Passed, Injecting, Busy, Quiet, InFlight, Leading, Natural
<1>3. Kept' /\ Level'  BY <1>1, <1>2 DEF SInv, Kept, Level, SlotsOf, Busy, Quiet, InFlight
<1>4. \A th \in Thread : Newest(th)' /\ LevelBelow(th)'
  <2> TAKE th \in Thread
  <2>1. Newest(th) /\ LevelBelow(th)  BY DEF SInv, CallsOrderly, CallOrderly
  <2> QED  BY <1>1, <1>2, <2>1 DEF Newest, LevelBelow, SlotsOf, Busy
<1>5. CASE \E sym \in Symbol : StartResolve(sym)
  <2> PICK sym \in Symbol : StartResolve(sym)  BY <1>5
  <2>1. got' = got /\ resolving' = resolving \cup {sym} /\ <<sym, "plt">> \in Slots
    BY DEF StartResolve
  <2>2. sym \in Lazy
    <3>1. CASE got[<<sym, "plt">>] = "lazy"
      <4> DEFINE s == <<sym, "plt">>
      <4>1. nest[s] \in Seq(Hooked)  BY <1>1, <2>1 DEF Typed
      <4>2. Len(nest[s]) \in 0 .. Len(nest[s])  BY <4>1, LenProperties
      <4>3. got[s] \in Leading(s, Len(nest[s]))  BY <2>1 DEF SInv, Stacked, StackedAt
      <4>4. "lazy" \in Leading(s, Len(nest[s]))  BY <3>1, <4>3
      <4> HIDE DEF s
      <4>5. s[1] \in Lazy  BY <1>1, <2>1, <4>2, <4>4, LazyIs DEF NInv, s
      <4> QED  BY <4>5 DEF s
    <3>2. CASE \E k \in Token : /\ token[k] # NoHelper
                                /\ helper[token[k]].symbol = sym
                                /\ helper[token[k]].origin = "lazy"
      <4> PICK k \in Token : /\ token[k] # NoHelper
                             /\ helper[token[k]].symbol = sym
                             /\ helper[token[k]].origin = "lazy"
        BY <3>2
      <4>1. token[k] \in Helper /\ helper[token[k]] # Free
        BY <1>1, GotAssumption DEF Typed, IInv, Allocated
      <4> QED  BY <4>1 DEF SInv, LazyOnly
    <3> QED  BY <3>1, <3>2 DEF StartResolve
  <2>3. LazyOnly'  BY <1>1, <2>1, <2>2 DEF SInv, LazyOnly
  <2>4. \A th \in Thread : Fresh(th)'
    <3> TAKE th \in Thread
    <3>1. Fresh(th)  BY DEF SInv, CallsOrderly, CallOrderly
    <3> QED  BY <1>1, <1>2, <2>1, <3>1 DEF Fresh, SlotsOf
  <2>5. Stacked'  BY <1>1, <1>2, <2>1 DEF SInv, Stacked, StackedAt
  <2> QED  BY <1>3, <1>4, <2>3, <2>4, <2>5 DEF SInv, CallsOrderly, CallOrderly
<1>6. CASE \E sym \in Symbol : EndResolve(sym)
  <2> PICK sym \in Symbol : EndResolve(sym)  BY <1>6
  <2> DEFINE s == <<sym, "plt">>
  <2>1. resolving' = resolving \ {sym} /\ got' = [got EXCEPT ![s] = "impl"] /\ sym \in Lazy
    BY DEF EndResolve, SInv, LazyOnly
  <2>2. s \notin Bound  BY <2>1 DEF Bound, InitGot
  <2> HIDE DEF s
  <2>3. \A r \in Slots : got'[r] = got[r] \/ (r = s /\ got'[r] = "impl")
    BY <1>1, <2>1 DEF Typed
  <2>4. LazyOnly'  BY <1>1, <2>1 DEF SInv, LazyOnly
  <2>5. \A th \in Thread : Fresh(th)'
    <3> TAKE th \in Thread
    <3>1. CASE ~Injecting(th)  BY <1>2, <3>1 DEF Fresh
    <3>2. CASE Injecting(th) /\ pc[th] = "lookup"
      <4>1. req[th].detour # "impl"
        <5>1. req[th] \in Request  BY <3>2 DEF IInv, Calls, Busy
        <5> QED  BY <5>1, GotAssumption DEF Request
      <4>2. \A r \in SlotsOf(req[th].symbol) : r \in Slots /\ got[r] # req[th].detour
        BY <3>2 DEF SInv, CallsOrderly, CallOrderly, Fresh, SlotsOf
      <4> QED  BY <1>1, <2>3, <3>2, <4>1, <4>2 DEF Fresh, SlotsOf, Inner
    <3>3. CASE Injecting(th) /\ pc[th] \in Inner
      <4>1. helper[mine[th]].detour # "impl"
        <5>1. mine[th] \in Helper  BY <3>3 DEF IInv, Calls
        <5>2. helper[mine[th]] \in HelperRec  BY <5>1, GotAssumption DEF IInv, Allocated
        <5> QED  BY <5>2, GotAssumption DEF HelperRec
      <4>2. \A r \in SlotsOf(req[th].symbol) :
               r \in Slots /\ (r[2] \notin Passed(th) => got[r] # helper[mine[th]].detour)
        BY <3>3 DEF SInv, CallsOrderly, CallOrderly, Fresh, SlotsOf
      <4>3. pc[th] # "lookup"  BY <3>3 DEF Inner
      <4> QED  BY <1>1, <1>2, <2>3, <3>3, <4>1, <4>2, <4>3 DEF Fresh, SlotsOf
    <3> QED  BY <1>1, <1>2, <3>1, <3>2, <3>3 DEF Fresh
  <2>6. Stacked'
    <3> SUFFICES ASSUME NEW r \in Slots PROVE StackedAt(r)'  BY DEF Stacked
    <3>1. StackedAt(r)  BY DEF SInv, Stacked
    <3>2. got'[r] \in Leading(r, Len(nest[r]))
      <4>1. r = s => "impl" \in Leading(r, Len(nest[r]))  BY <2>2 DEF Leading, Natural
      <4> QED  BY <2>3, <3>1, <4>1 DEF StackedAt
    <3> QED  BY <1>1, <1>2, <3>1, <3>2 DEF StackedAt
  <2> QED  BY <1>3, <1>4, <2>4, <2>5, <2>6 DEF SInv, CallsOrderly, CallOrderly
<1> QED  BY <1>5, <1>6 DEF Loader

LEMMA NextSInv ==
    ASSUME Orderly, IInv, NInv, SInv, [Next]_vars
    PROVE  SInv'
<1>1. CASE Halt
  <2>1. UNCHANGED <<got, helper, token, pc, req, mine, at, ret, resolving, nest>>
    BY <1>1, HaltKeeps
  <2>2. CallsOrderly'
    <3>1. \A th \in Thread : Passed(th)' = Passed(th) /\ Injecting(th)' = Injecting(th)
      BY <2>1 DEF Passed, Injecting
    <3>2. CallsOrderly  BY DEF SInv
    <3> QED
      BY <2>1, <3>1, <3>2 DEF CallsOrderly, CallOrderly, Newest, LevelBelow, Fresh, Busy, SlotsOf
  <2>3. Kept' /\ Level'  BY <2>1 DEF SInv, Kept, Level, Busy, Quiet, InFlight, SlotsOf
  <2>4. Stacked'  BY <2>1 DEF SInv, Stacked, StackedAt, Leading, Natural
  <2>5. LazyOnly'  BY <2>1 DEF SInv, LazyOnly
  <2> QED  BY <2>2, <2>3, <2>4, <2>5 DEF SInv
<1>2. CASE Loader  BY <1>2, LoaderSInv
<1>3. ASSUME NEW th \in Thread, Begin(th) PROVE SInv'  BY <1>3, BeginSInv
<1>4. ASSUME NEW th \in Thread, Step(th) PROVE SInv'
  <2>1. CASE Store(th)  BY <2>1, PopSInv, PushSInv
  <2>2. CASE ReplaceFails(th)  BY <2>2 DEF ReplaceFails, Orderly, MayFailAtSlot
  <2>3. CASE ~Store(th) /\ ~ReplaceFails(th)
    BY <1>4, <2>3, LookupSInv, VisitSInv, CheckSInv, ProtSInv, FinishSInv, ReturnSInv DEF Step
  <2> QED  BY <2>1, <2>2, <2>3
<1> QED  BY <1>1, <1>2, <1>3, <1>4, NextRuns DEF Run

THEOREM GotStacksInvariant ==
    ASSUME Orderly
    PROVE  Spec => [](IInv /\ NInv /\ SInv)
<1>1. Whole  BY DEF Orderly, Whole
<1>2. IInv /\ NInv /\ SInv /\ [Next]_vars => SInv'  BY NextSInv
<1>3. Spec => []NInv  BY <1>1, GotHooksHung
<1> QED  BY <1>2, <1>3, InitSInv, GotInvariant, PTL DEF Spec

----------------------------------------------------------------------------
(* What follows from the stacks *)

\* A bound slot: the hooks displaced, in turn, the function and each other.
LEMMA BoundLeading ==
    ASSUME NEW s \in Bound, NEW i
    PROVE  Leading(s, i) = IF i = 0 THEN {"impl"} ELSE {helper[nest[s][i].h].detour}
  BY DEF Leading, Natural

\* The slots of a symbol that is not lazy are bound.
LEMMA BoundSlots ==
    ASSUME NEW s \in Slots, s[1] \notin Lazy
    PROVE  s \in Bound
  BY DEF Bound, InitGot

LEMMA HookOn ==
    ASSUME Typed, NInv, NEW s \in Slots, NEW i \in 1 .. Len(nest[s])
    PROVE  /\ nest[s][i] \in Hooked /\ nest[s][i].h \in Helper
           /\ Has(nest[s], nest[s][i].h) /\ helper[nest[s][i].h] # Free
<1>1. nest[s] \in Seq(Hooked)  BY DEF Typed
<1>2. nest[s][i] \in Hooked  BY <1>1, ElementOfSeq
<1>3. nest[s][i].h \in Helper /\ Has(nest[s], nest[s][i].h)  BY <1>2 DEF Hooked, Has
<1> QED  BY <1>2, <1>3 DEF NInv, Hung

\* token.fcall, the one origin kept for both slots, is what each of them held, for
\* the symbols the loader has bound before.
THEOREM GotOriginIsDisplaced ==
    ASSUME Orderly
    PROVE  Spec => []OriginIsDisplaced
<1>1. IInv /\ NInv /\ SInv => OriginIsDisplaced
  <2> SUFFICES ASSUME IInv, NInv, SInv, NEW s \in Slots, s[1] \notin Lazy,
                      NEW i \in DOMAIN nest[s]
               PROVE  /\ helper[nest[s][i].h] # Free
                      /\ helper[nest[s][i].h].origin = nest[s][i].under
    BY DEF OriginIsDisplaced
  <2>1. i \in 1 .. Len(nest[s])  BY DEF IInv, Typed
  <2>2. /\ nest[s][i].under \in Leading(s, i - 1)
        /\ helper[nest[s][i].h].origin \in Leading(s, i - 1)
    BY <2>1 DEF SInv, Stacked, StackedAt
  <2>3. helper[nest[s][i].h].origin = nest[s][i].under
    BY <2>2, BoundSlots, BoundLeading
  <2> QED  BY <2>1, <2>3, HookOn DEF IInv
<1> QED  BY <1>1, GotStacksInvariant, PTL

\* Both slots of a symbol carry the same hooks whenever no call is changing them,
\* and lead to the newest detour if the loader has bound them before.
THEOREM GotSlotsAgree ==
    ASSUME Orderly
    PROVE  Spec => []SlotsAgree
<1>1. IInv /\ NInv /\ SInv => SlotsAgree
  <2> SUFFICES ASSUME IInv, NInv, SInv, NEW sym \in Symbol, Quiet(sym),
                      NEW s \in SlotsOf(sym)
               PROVE  /\ \A r \in SlotsOf(sym) :
                            [i \in DOMAIN nest[s] |-> nest[s][i].h] =
                            [i \in DOMAIN nest[r] |-> nest[r][i].h]
                      /\ nest[s] # <<>> /\ sym \notin Lazy =>
                            got[s] = helper[nest[s][Len(nest[s])].h].detour
    BY DEF SlotsAgree
  <2>1. s \in Slots /\ s[1] = sym /\ Typed /\ nest[s] \in Seq(Hooked)
    BY DEF SlotsOf, IInv, Typed
  <2>2. ASSUME NEW r \in SlotsOf(sym)
        PROVE  [i \in DOMAIN nest[s] |-> nest[s][i].h] = [i \in DOMAIN nest[r] |-> nest[r][i].h]
    <3>1. nest[r] \in Seq(Hooked)  BY <2>1 DEF Typed, SlotsOf
    <3>2. SameBelow(nest[s], nest[r], NoHelper)  BY DEF SInv, Level
    <3>3. ASSUME NEW hooks \in Seq(Hooked)
          PROVE  Depth(hooks, NoHelper) = Len(hooks) /\ DOMAIN hooks = 1 .. Len(hooks)
      <4>1. hooks # <<>> => Len(hooks) \in 1 .. Len(hooks)  BY EmptySeq
      <4>2. hooks # <<>> => hooks[Len(hooks)] \in Hooked  BY <4>1, ElementOfSeq
      <4> QED  BY <4>2, GotAssumption DEF Depth, OnTop, Hooked
    <3>4. DOMAIN nest[s] = DOMAIN nest[r] /\ \A i \in DOMAIN nest[s] : nest[s][i].h = nest[r][i].h
      BY <2>1, <3>1, <3>2, <3>3 DEF SameBelow
    <3> QED  BY <3>4
  <2>3. ASSUME nest[s] # <<>>, sym \notin Lazy
        PROVE  got[s] = helper[nest[s][Len(nest[s])].h].detour
    <3>1. Len(nest[s]) # 0  BY <2>1, <2>3, EmptySeq
    <3>2. s \in Bound  BY <2>1, <2>3, BoundSlots
    <3>3. got[s] \in Leading(s, Len(nest[s]))  BY <2>1 DEF SInv, Stacked, StackedAt
    <3> QED  BY <3>1, <3>2, <3>3, BoundLeading
  <2> QED  BY <2>2, <2>3
<1> QED  BY <1>1, GotStacksInvariant, PTL

\* Once every hook of a symbol has been taken off, its slots hold what they held;
\* the one the loader binds meanwhile leads to the original, bound or not.
THEOREM GotRestored ==
    ASSUME Orderly
    PROVE  Spec => []Restored
<1>1. IInv /\ NInv /\ SInv => Restored
  <2> SUFFICES ASSUME IInv, NInv, SInv, NEW sym \in Symbol, Unhooked(sym),
                      NEW s \in SlotsOf(sym)
               PROVE  got[s] = InitGot[s] \/ (InitGot[s] = "lazy" /\ got[s] = "impl")
    BY DEF Restored
  <2>1. s \in Slots /\ s[1] = sym /\ Typed /\ nest[s] \in Seq(Hooked)
    BY DEF SlotsOf, IInv, Typed
  <2>2. nest[s] = <<>>
    <3> SUFFICES ASSUME nest[s] # <<>> PROVE FALSE  OBVIOUS
    <3>1. 1 \in 1 .. Len(nest[s])  BY <2>1, EmptySeq
    <3>2. PICK h \in Helper : Has(nest[s], h) /\ helper[h] # Free
      BY <2>1, <3>1, HookOn
    <3>3. helper[h].symbol = sym /\ h # NoHelper
      BY <2>1, <3>2, GotAssumption DEF NInv, Hung
    <3>4. CASE \E k \in Token : token[k] = h  BY <3>3, <3>4 DEF Unhooked
    <3>5. CASE \E th \in Thread : Busy(th) /\ req[th].op = "inject" /\ mine[th] = h
      <4>1. PICK th \in Thread : Busy(th) /\ mine[th] = h  BY <3>5
      <4>2. req[th].symbol = sym  BY <3>3, <4>1 DEF IInv, Allocated
      <4> QED  BY <4>1, <4>2 DEF Unhooked, Quiet, InFlight, Busy
    <3> QED  BY <3>2, <3>4, <3>5 DEF IInv, Owned
  <2>3. got[s] \in Natural(s)
    <3>1. Len(nest[s]) = 0  BY <2>2
    <3> QED  BY <2>1, <3>1 DEF SInv, Stacked, StackedAt, Leading
  <2> QED  BY <2>1, <2>3 DEF Natural, Bound, InitGot
<1> QED  BY <1>1, GotStacksInvariant, PTL

\* An inject that returns success has an original function to call and a token to
\* take the hook off, for callers that hook with fresh detours: the run that finds
\* the two apart stores a detour that is in the slot already.
THEOREM GotSuccessHasOrigin ==
    ASSUME Orderly
    PROVE  Spec => []SuccessHasOrigin
<1>1. IInv /\ NInv /\ SInv => SuccessHasOrigin
  BY DEF SuccessHasOrigin, SInv, CallsOrderly, CallOrderly, Newest, IInv, Allocated
<1> QED  BY <1>1, GotStacksInvariant, PTL

----------------------------------------------------------------------------
(* GotHook implements HookStack *)

\* The stack of contents of a stack of hooks
Unders(hooks) == [i \in DOMAIN hooks |-> hooks[i].under]

LEMMA UndersType ==
    ASSUME NEW hooks \in Seq(Hooked)
    PROVE  /\ Unders(hooks) \in Seq(Content) /\ Len(Unders(hooks)) = Len(hooks)
           /\ \A i \in 1 .. Len(hooks) : Unders(hooks)[i] = hooks[i].under
<1>1. /\ Len(hooks) \in Nat /\ DOMAIN hooks = 1 .. Len(hooks)
      /\ \A i \in 1 .. Len(hooks) : hooks[i] \in Hooked
  BY LenProperties, ElementOfSeq
<1>2. \A i \in 1 .. Len(hooks) : hooks[i].under \in Content  BY <1>1 DEF Hooked
<1>3. Unders(hooks) \in [1 .. Len(hooks) -> Content]  BY <1>1, <1>2 DEF Unders
<1>4. Unders(hooks) \in Seq(Content) /\ Len(Unders(hooks)) = Len(hooks)
  <2> DEFINE n == Len(hooks)
             f == Unders(hooks)
  <2>1. n \in Nat /\ f \in [1 .. n -> Content]  BY <1>1, <1>3
  <2> HIDE DEF n, f
  <2>2. f \in Seq(Content) /\ Len(f) = n  BY <2>1
  <2> QED  BY <2>2 DEF n, f
<1> QED  BY <1>1, <1>4 DEF Unders

LEMMA UndersAppend ==
    ASSUME NEW hooks \in Seq(Hooked), NEW e \in Hooked
    PROVE  Unders(Append(hooks, e)) = Append(Unders(hooks), e.under)
<1> DEFINE s == Unders(Append(hooks, e))
           u == Append(Unders(hooks), e.under)
           n == Len(hooks)
<1>1. /\ Append(hooks, e) \in Seq(Hooked) /\ n \in Nat /\ Len(Append(hooks, e)) = n + 1
      /\ Append(hooks, e)[n + 1] = e /\ \A i \in 1 .. n : Append(hooks, e)[i] = hooks[i]
      /\ \A i \in 1 .. n + 1 : i = n + 1 \/ i \in 1 .. n
  BY AppendIs
<1>2. e.under \in Content  BY DEF Hooked
<1>3. /\ s \in Seq(Content) /\ Len(s) = n + 1
      /\ \A i \in 1 .. n + 1 : s[i] = Append(hooks, e)[i].under
  BY <1>1, UndersType
<1>4. /\ Unders(hooks) \in Seq(Content) /\ Len(Unders(hooks)) = n
      /\ \A i \in 1 .. n : Unders(hooks)[i] = hooks[i].under
  BY UndersType
<1>5. /\ u \in Seq(Content) /\ Len(u) = n + 1 /\ u[n + 1] = e.under
      /\ \A i \in 1 .. n : u[i] = Unders(hooks)[i]
  BY <1>2, <1>4, AppendProperties
<1> HIDE DEF s, u, n
<1>6. \A i \in 1 .. Len(s) : s[i] = u[i]  BY <1>1, <1>3, <1>4, <1>5
<1>7. s = u  BY <1>3, <1>5, <1>6, SeqEqual
<1> QED  BY <1>7 DEF s, u

LEMMA UndersFront ==
    ASSUME NEW hooks \in Seq(Hooked), NEW n \in Nat \ {0}, n = Len(hooks),
           NEW front \in Seq(Hooked), Len(front) = n - 1,
           \A i \in 1 .. n - 1 : front[i] = hooks[i] /\ i \in 1 .. n
    PROVE  Unders(front) = SubSeq(Unders(hooks), 1, Len(Unders(hooks)) - 1)
<1> DEFINE m == n - 1
           u == Unders(hooks)
           s == SubSeq(u, 1, m)
<1>1. m \in Nat  OBVIOUS
<1>2. u \in Seq(Content) /\ Len(u) = n /\ \A i \in 1 .. n : u[i] = hooks[i].under
  BY UndersType
<1>3. /\ Unders(front) \in Seq(Content) /\ Len(Unders(front)) = m
      /\ \A i \in 1 .. m : Unders(front)[i] = front[i].under
  BY UndersType
<1>4. \A i \in 1 .. m : Unders(front)[i] = u[i]  BY <1>2, <1>3
<1>5. \A i \in 1 .. m : u[i] \in Content
  <2>1. \A i \in 1 .. n : u[i] \in Content  BY <1>2, ElementOfSeq
  <2> QED  BY <2>1
<1>6. SubSeq(Unders(hooks), 1, Len(Unders(hooks)) - 1) = s  BY <1>2
<1> HIDE DEF m, u
<1>7. s \in Seq(Content) /\ Len(s) = m /\ \A i \in 1 .. m : s[i] = u[i]
  <2>1. /\ s \in Seq(Content) /\ Len(s) = IF 1 <= m THEN m - 1 + 1 ELSE 0
        /\ \A j \in 1 .. m - 1 + 1 : s[j] = u[1 + j - 1]
    BY <1>1, <1>5, SubSeqProperties
  <2>2. m - 1 + 1 = m /\ (1 <= m \/ m = 0) /\ \A j \in 1 .. m : 1 + j - 1 = j  BY <1>1
  <2> QED  BY <2>1, <2>2
<1> HIDE DEF s
<1>8. Unders(front) = s  BY <1>3, <1>4, <1>7, SeqEqual
<1> QED  BY <1>6, <1>8

cells == [s \in Bound |-> got[s]]
unders == [s \in Bound |-> [i \in DOMAIN nest[s] |-> nest[s][i].under]]

LEMMA UndersIs ==
    /\ \A s \in Bound : unders[s] = Unders(nest[s]) /\ cells[s] = got[s] /\ s \in Slots
    /\ unders' = [s \in Bound |-> Unders(nest'[s])] /\ cells' = [s \in Bound |-> got'[s]]
    /\ unders = [s \in Bound |-> unders[s]] /\ cells = [s \in Bound |-> cells[s]]
<1>1. Bound \subseteq Slots  BY DEF Bound
<1>2. unders' = [s \in Bound |-> Unders(nest'[s])]  BY DEF unders, Unders, Bound
<1>3. cells' = [s \in Bound |-> got'[s]]  BY DEF cells, Bound
<1> QED  BY <1>1, <1>2, <1>3 DEF unders, cells, Unders

LEMMA HookMaps ==
    ASSUME IInv, NInv, NEW th \in Thread, Store(th), Injecting(th)
    PROVE  Hooks!Next \/ UNCHANGED <<cells, unders>>
<1>1. PICK s \in Slots : s = Slot(th)  BY PushIs
<1>2. Typed /\ Typed' /\ nest[s] \in Seq(Hooked)
  BY SomeStep DEF Step, Typed
<1>3. PICK e \in Hooked : e.under = got[s] /\ nest'[s] = Append(nest[s], e)
  <2> DEFINE e == [h |-> mine[th], under |-> got[s]]
  <2>1. e \in Hooked /\ nest'[s] = Append(nest[s], e)  BY <1>1, StoreHook
  <2>2. e.under = got[s]  OBVIOUS
  <2> HIDE DEF e
  <2> QED  BY <2>1, <2>2
<1>4. \A r \in Slots : r # s => nest'[r] = nest[r] /\ got'[r] = got[r]
  BY <1>1, StoreHook
<1>5. CASE s \notin Bound
  <2>1. \A r \in Bound : Unders(nest'[r]) = unders[r] /\ got'[r] = cells[r]
    BY <1>4, <1>5, UndersIs
  <2> QED  BY <2>1, UndersIs
<1>6. CASE s \in Bound
  <2>1. Unders(nest'[s]) = Append(unders[s], cells[s])
    BY <1>2, <1>3, <1>6, UndersAppend, UndersIs
  <2>2. \A r \in Bound : r # s => Unders(nest'[r]) = unders[r] /\ got'[r] = cells[r]
    BY <1>4, UndersIs
  <2>3. unders' = [unders EXCEPT ![s] = Append(unders[s], cells[s])]
    BY <1>6, <2>1, <2>2, UndersIs
  <2>4. cells' \in [Bound -> Content]
    <3>1. \A r \in Bound : got'[r] \in Content  BY <1>2, UndersIs DEF Typed
    <3> QED  BY <3>1, UndersIs
  <2>5. \A r \in Bound \ {s} : cells'[r] = cells[r]  BY <2>2, UndersIs
  <2>6. Hooks!Hook(s)  BY <2>3, <2>4, <2>5 DEF Hooks!Hook, cells, unders
  <2> QED  BY <1>6, <2>6 DEF Hooks!Next
<1> QED  BY <1>5, <1>6

LEMMA UnhookMaps ==
    ASSUME IInv, NInv, SInv, NEW th \in Thread, ~Injecting(th),
           \/ Store(th)
           \/ Check(th) /\ got[Slot(th)] = NewFunc(th)
    PROVE  Hooks!Next \/ UNCHANGED <<cells, unders>>
<1>1. pc[th] \in {"check", "store"} /\ Step(th)  BY DEF Store, Check, Step
<1>2. Typed  BY DEF IInv
<1>3. PICK s \in Slots : s = Slot(th)  BY <1>1, PopIs
<1>4. PICK h \in Helper : h = mine[th]  BY <1>1, PopIs
<1>5. PICK n \in Nat \ {0} : n = Len(nest[s])  BY <1>1, <1>3, PopIs
<1> DEFINE front == Without(nest[s], h)
<1>6. /\ nest[s] \in Seq(Hooked) /\ nest[s][n].h = h /\ n \in 1 .. n
      /\ front \in Seq(Hooked) /\ Len(front) = n - 1
      /\ \A i \in 1 .. n - 1 : front[i] = nest[s][i] /\ i \in 1 .. n
      /\ NewFunc(th) = helper[h].origin
      /\ helper[h].origin \in Leading(s, n - 1)
  BY <1>1, <1>3, <1>4, <1>5, PopIs
<1>7. /\ nest' = [nest EXCEPT ![s] = front]
      /\ \/ got' = got /\ got[s] = NewFunc(th)
         \/ got' = [got EXCEPT ![s] = NewFunc(th)]
  BY <1>3, <1>4 DEF Store, Check, GiveUp
<1> HIDE DEF front
<1>8. /\ nest'[s] = front /\ got'[s] = helper[h].origin
      /\ \A r \in Slots : r # s => nest'[r] = nest[r] /\ got'[r] = got[r]
  BY <1>2, <1>6, <1>7 DEF Typed
<1>9. CASE s \notin Bound
  <2>1. \A r \in Bound : Unders(nest'[r]) = unders[r] /\ got'[r] = cells[r]
    BY <1>8, <1>9, UndersIs
  <2> QED  BY <2>1, UndersIs
<1>10. CASE s \in Bound
  <2>1. helper[h].origin = nest[s][n].under
    <3>1. nest[s][n].under \in Leading(s, n - 1)
      BY <1>5, <1>6 DEF SInv, Stacked, StackedAt
    <3> QED  BY <1>6, <1>10, <3>1, BoundLeading
  <2>2. /\ Unders(nest[s]) \in Seq(Content) /\ Len(Unders(nest[s])) = n
        /\ Unders(nest[s])[n] = nest[s][n].under
    BY <1>5, <1>6, UndersType
  <2>3. unders[s] # <<>> /\ got'[s] = unders[s][Len(unders[s])]
    <3>1. unders[s] = Unders(nest[s])  BY <1>10, UndersIs
    <3> QED  BY <1>8, <2>1, <2>2, <3>1, EmptySeq
  <2>4. Unders(nest'[s]) = SubSeq(unders[s], 1, Len(unders[s]) - 1)
    <3>1. Unders(front) = SubSeq(Unders(nest[s]), 1, Len(Unders(nest[s])) - 1)
      BY <1>5, <1>6, UndersFront
    <3> QED  BY <1>8, <1>10, <3>1, UndersIs
  <2>5. \A r \in Bound : r # s => Unders(nest'[r]) = unders[r] /\ got'[r] = cells[r]
    BY <1>8, UndersIs
  <2>6. unders' = [unders EXCEPT ![s] = SubSeq(unders[s], 1, Len(unders[s]) - 1)]
    BY <1>10, <2>4, <2>5, UndersIs
  <2>7. cells' = [cells EXCEPT ![s] = unders[s][Len(unders[s])]]
    BY <1>10, <2>3, <2>5, UndersIs
  <2>8. Hooks!Unhook(s)  BY <2>3, <2>6, <2>7 DEF Hooks!Unhook, cells, unders
  <2> QED  BY <1>10, <2>8 DEF Hooks!Next
<1> QED  BY <1>9, <1>10

LEMMA StepMaps ==
    ASSUME Orderly, IInv, NInv, SInv, [Next]_vars
    PROVE  Hooks!Next \/ UNCHANGED <<cells, unders>>
<1>1. ASSUME UNCHANGED <<got, nest>>  PROVE UNCHANGED <<cells, unders>>
  BY <1>1 DEF cells, unders
<1>2. CASE Halt  BY <1>1, <1>2, HaltKeeps
<1>3. ASSUME NEW sym \in Symbol, StartResolve(sym) \/ EndResolve(sym)
      PROVE  UNCHANGED <<cells, unders>>
  <2>1. CASE StartResolve(sym)  BY <1>1, <2>1 DEF StartResolve
  <2>2. CASE EndResolve(sym)
    <3>1. sym \in Lazy /\ nest' = nest /\ got' = [got EXCEPT ![<<sym, "plt">>] = "impl"]
      BY <2>2 DEF EndResolve, SInv, LazyOnly
    <3>2. <<sym, "plt">> \notin Bound  BY <3>1 DEF Bound, InitGot
    <3>3. \A r \in Bound : got'[r] = got[r]  BY <3>1, <3>2, UndersIs DEF IInv, Typed
    <3>4. \A r \in Bound : Unders(nest'[r]) = unders[r] /\ got'[r] = cells[r]
      BY <3>1, <3>3, UndersIs
    <3> QED  BY <3>4, UndersIs
  <2> QED  BY <1>3, <2>1, <2>2
<1>4. ASSUME NEW th \in Thread, Begin(th)  PROVE UNCHANGED <<cells, unders>>
  BY <1>1, <1>4 DEF Begin, BeginInject, BeginUninject
<1>5. ASSUME NEW th \in Thread, Step(th)
      PROVE  Hooks!Next \/ UNCHANGED <<cells, unders>>
  <2>1. CASE Store(th)  BY <2>1, HookMaps, UnhookMaps
  <2>2. CASE Check(th) /\ got[Slot(th)] = NewFunc(th)
    <3>1. CASE Injecting(th)  BY <1>1, <2>2, <3>1 DEF Check, GiveUp
    <3> QED  BY <2>2, <3>1, UnhookMaps
  <2>3. CASE Check(th) /\ got[Slot(th)] # NewFunc(th)  BY <1>1, <2>3 DEF Check
  <2>4. CASE ReplaceFails(th)  BY <2>4 DEF ReplaceFails, Orderly, MayFailAtSlot
  <2>5. CASE ~Store(th) /\ ~Check(th) /\ ~ReplaceFails(th)
    BY <1>1, <1>5, <2>5 DEF Step, Lookup, LookupFails, Visit, GetProt, SetProt, Restore,
       RestoreFails, FinishInject, ReturnInject, ReturnUninject, Return
  <2> QED  BY <2>1, <2>2, <2>3, <2>4, <2>5
<1> QED  BY <1>2, <1>3, <1>4, <1>5, NextRuns DEF Run, Loader

\* Seen from outside, concurrent hooking of slots is the abstract hook stack: the
\* store of an inject, and what an uninject does to a slot with its hook, are its
\* steps, all others stutter.
THEOREM GotIsAHookStack ==
    ASSUME Orderly
    PROVE  Spec => IsAHookStack
<1>1. Init => Hooks!Init
  <2> SUFFICES ASSUME Init PROVE Hooks!Init  OBVIOUS
  <2>1. cells = [s \in Bound |-> "impl"]  BY DEF Init, cells, Bound
  <2>2. unders = [s \in Bound |-> <<>>]  BY DEF Init, unders, Bound
  <2> QED  BY <2>1, <2>2 DEF Hooks!Init, cells, unders
<1>2. IInv /\ NInv /\ SInv /\ [Next]_vars => [Hooks!Next]_<<cells, unders>>
  BY StepMaps
<1> QED  BY <1>1, <1>2, GotStacksInvariant, PTL DEF Spec, IsAHookStack, Hooks!Spec, cells, unders
=============================================================================
