------------------------------ MODULE GotHook ------------------------------
(***************************************************************************)
(* Hooks on the global offset table: uhook_inject_got and uhook_uninject of *)
(* src/src/uhook.c and their implementation in src/src/os/elf.c, called by  *)
(* several threads.                                                         *)
(*                                                                         *)
(* A symbol has at most one slot that is patched in .rel(a).plt and one in  *)
(* .rel(a).dyn.  Each is replaced by _elf_replace_function, step by step:   *)
(* look at the slot, ask /proc/self/maps for the protection of its page,    *)
(* make the page writable, store, put the old protection back.              *)
(*                                                                         *)
(* External: the loader, which binds a lazy slot when it is first called,   *)
(* and whose dl_iterate_phdr runs callbacks under its own lock, so that two *)
(* injects are never both at work; an uninject takes no lock.               *)
(***************************************************************************)
EXTENDS Integers, Sequences, FiniteSets

CONSTANTS
    Thread, Symbol, Detour, Token, Helper,
    NoHelper, Free, NoRequest, NoOrigin,
    Page,
    Slots,       \* the <<symbol, kind>> that have a relocation
    SlotPage,    \* the page each slot lies in
    InitProt,    \* "R" for a page the loader made read-only, else "RW"
    Lazy,        \* the symbols whose plt slot the loader binds at the first call
    Faults,      \* the steps that may fail
    Serial,      \* "page": no two calls in flight have slots in one page;
                 \* "symbol": only calls on one symbol are serialized
    Lifo,        \* the newest hook of a symbol is taken off first
    FreshDetour  \* no symbol is hooked with a detour that is in its slots

Kind == {"plt", "dyn"}

\* What a slot holds: the function, the loader's stub that will bind it, a detour
Content == {"impl", "lazy"} \cup Detour

HelperRec == [symbol : Symbol, detour : Detour, origin : Content \cup {NoOrigin},
              info : SUBSET Kind]

ASSUME GotAssumption ==
    /\ Detour \cap {"impl", "lazy"} = {}  \* a detour is a function of its own
    /\ Slots \subseteq Symbol \X Kind
    /\ SlotPage \in [Slots -> Page]
    /\ InitProt \in [Page -> {"R", "RW"}]
    /\ NoHelper \notin Helper /\ NoOrigin \notin Content /\ Free \notin HelperRec
    /\ Lazy \subseteq Symbol /\ Lifo \in BOOLEAN /\ FreshDetour \in BOOLEAN
    /\ Faults \subseteq {"calloc", "lookup", "getprot", "setprot", "restore", "uninject"}
    /\ Serial \in {"page", "symbol"}

VARIABLES
    got,       \* the content of each slot
    prot,      \* the protection of each page
    helper,    \* the allocated inject_got_ctx_t, or Free
    token,     \* uhook_token_t.token
    pc, req,   \* where each thread is in its call, and the arguments
    mine,      \* the helper it works on
    at,        \* the kind of slot it works on
    oldProt,   \* old_prot of _elf_replace_function
    ret,       \* what the last call of a thread returned
    resolving, \* the symbols the loader is binding
    nest,      \* history: the hooks on a slot, the oldest first, each with
               \* the content it found
    dead       \* the process has been killed

local == <<pc, req, mine, at, oldProt, ret>>
vars == <<got, prot, helper, token, local, resolving, nest, dead>>

Request == [op : {"inject", "uninject"}, token : Token, symbol : Symbol,
            detour : Detour]
Hooked == [h : Helper, under : Content]

InitGot == [s \in Slots |-> IF s[1] \in Lazy /\ s[2] = "plt" THEN "lazy" ELSE "impl"]

Init ==
    /\ got = InitGot
    /\ prot = InitProt
    /\ helper = [h \in Helper |-> Free]
    /\ token = [k \in Token |-> NoHelper]
    /\ pc = [th \in Thread |-> "idle"]
    /\ req = [th \in Thread |-> NoRequest]
    /\ mine = [th \in Thread |-> NoHelper]
    /\ at = [th \in Thread |-> "plt"]
    /\ oldProt = [th \in Thread |-> "R"]
    /\ ret = [th \in Thread |-> "none"]
    /\ resolving = {}
    /\ nest = [s \in Slots |-> <<>>]
    /\ dead = FALSE

----------------------------------------------------------------------------
(* What the caller promises *)

PagesOf(sym) == {SlotPage[s] : s \in {x \in Slots : x[1] = sym}}

InFlight == {th \in Thread : pc[th] # "idle"}

MayCall(k, sym) ==
    \A th \in InFlight :
        /\ req[th].token # k
        /\ req[th].symbol # sym
        /\ Serial = "page" => PagesOf(req[th].symbol) \cap PagesOf(sym) = {}

\* uhook_inject_got(&k, sym, d); k is not in use for another hook
BeginInject(th, k, sym, d) ==
    /\ pc[th] = "idle"
    /\ token[k] = NoHelper
    /\ MayCall(k, sym)
    /\ FreshDetour => \A s \in Slots : s[1] = sym => got[s] # d
    /\ pc' = [pc EXCEPT ![th] = "lookup"]
    /\ req' = [req EXCEPT ![th] =
                 [op |-> "inject", token |-> k, symbol |-> sym, detour |-> d]]
    /\ ret' = [ret EXCEPT ![th] = "none"]
    /\ UNCHANGED <<got, prot, helper, token, mine, at, oldProt, resolving, nest>>

\* uhook_uninject(&k)
BeginUninject(th, k) ==
    /\ pc[th] = "idle"
    /\ token[k] # NoHelper
    /\ LET h == token[k]
           sym == helper[h].symbol
       IN  /\ MayCall(k, sym)
           /\ Lifo => \A s \in Slots : s[1] = sym /\ nest[s] # <<>>
                                          => nest[s][Len(nest[s])].h = h
           /\ mine' = [mine EXCEPT ![th] = h]
           /\ req' = [req EXCEPT ![th] =
                        [op |-> "uninject", token |-> k, symbol |-> sym,
                         detour |-> helper[h].detour]]
    /\ pc' = [pc EXCEPT ![th] = "visit"]
    /\ at' = [at EXCEPT ![th] = "plt"]
    /\ ret' = [ret EXCEPT ![th] = "none"]
    /\ UNCHANGED <<got, prot, helper, token, oldProt, resolving, nest>>

----------------------------------------------------------------------------
(* elf_inject_got_patch, up to the slots *)

Injecting(th) == pc[th] # "idle" /\ req[th].op = "inject"

\* The loader's lock is held by a callback of dl_iterate_phdr
Iterating(th) == Injecting(th) /\ pc[th] \notin {"lookup", "return"}

\* calloc, and what elf_inject_got_patch fills in; mutant: malloc
Uninitialized(sym, d) == [symbol |-> sym, detour |-> d, origin |-> Free, info |-> {}]
NewHelper(sym, d) == [symbol |-> sym, detour |-> d, origin |-> NoOrigin, info |-> {}]

\* Allocation, then the first object with the symbol
Lookup(th) ==
    /\ pc[th] = "lookup"
    /\ \A u \in Thread : ~Iterating(u)
    /\ \E h \in Helper :
          /\ helper[h] = Free
          /\ helper' = [helper EXCEPT ![h] = NewHelper(req[th].symbol, req[th].detour)]
          /\ mine' = [mine EXCEPT ![th] = h]
    /\ pc' = [pc EXCEPT ![th] = "visit"]
    /\ at' = [at EXCEPT ![th] = "plt"]
    /\ UNCHANGED <<got, prot, token, req, oldProt, ret, resolving, nest>>

\* The result of calloc is not checked: without memory NULL is dereferenced
CallocFails(th) ==
    /\ pc[th] = "lookup"
    /\ "calloc" \in Faults
    /\ ~dead /\ dead' = TRUE
    /\ UNCHANGED <<got, prot, helper, token, local, resolving, nest>>

LookupFails(th) ==
    /\ pc[th] = "lookup"
    /\ "lookup" \in Faults
    /\ pc' = [pc EXCEPT ![th] = "return"]
    /\ ret' = [ret EXCEPT ![th] = "error"]
    /\ UNCHANGED <<got, prot, helper, token, req, mine, at, oldProt, resolving, nest>>

----------------------------------------------------------------------------
(* One slot after the other *)

Slot(th) == <<helper[mine[th]].symbol, at[th]>>

\* Mutant: .rel(a).dyn is skipped if the symbol was found in .rel(a).plt
NextSlotFirstOnly(th) ==
    IF at[th] = "plt" /\ Slot(th) \notin Slots
    THEN /\ at' = [at EXCEPT ![th] = "dyn"]
         /\ pc' = [pc EXCEPT ![th] = "visit"]
    ELSE /\ pc' = [pc EXCEPT ![th] = "finish"]
         /\ UNCHANGED at

NextSlot(th) ==
    IF at[th] = "plt"
    THEN /\ at' = [at EXCEPT ![th] = "dyn"]
         /\ pc' = [pc EXCEPT ![th] = "visit"]
    ELSE /\ pc' = [pc EXCEPT ![th] = "finish"]
         /\ UNCHANGED at

\* Mutant: an uninject forgets .rel(a).dyn
HasSlotPltOnly(th) == IF Injecting(th) THEN Slot(th) \in Slots ELSE at[th] = "plt"

\* An inject takes the slots that have a relocation and notes their addresses;
\* an uninject takes those whose address was noted.
HasSlot(th) == IF Injecting(th) THEN Slot(th) \in Slots
               ELSE at[th] \in helper[mine[th]].info

Visit(th) ==
    /\ pc[th] = "visit"
    /\ IF HasSlot(th)
       THEN /\ helper' = [helper EXCEPT ![mine[th]].info = @ \cup {at[th]}]
            /\ pc' = [pc EXCEPT ![th] = "check"]
            /\ UNCHANGED at
       ELSE NextSlot(th) /\ UNCHANGED helper
    /\ UNCHANGED <<got, prot, token, req, mine, oldProt, ret, resolving, nest>>

----------------------------------------------------------------------------
(* _elf_replace_function *)

\* Mutant: an uninject stores the address of the function itself
NewFuncLoaded(th) == IF Injecting(th) THEN helper[mine[th]].detour ELSE "impl"

NewFunc(th) == IF Injecting(th) THEN helper[mine[th]].detour
               ELSE helper[mine[th]].origin

\* The hooks without that of h, of which there is at most one
Without(hooks, h) ==
    LET its == {i \in 1 .. Len(hooks) : hooks[i].h = h}
        i == CHOOSE j \in its : TRUE
    IN  IF its = {} THEN hooks
        ELSE [j \in 1 .. Len(hooks) - 1 |-> IF j < i THEN hooks[j] ELSE hooks[j + 1]]

\* An uninject that leaves a slot as it is has given up its hook there
GiveUp(th) ==
    nest' = IF Injecting(th) THEN nest
            ELSE [nest EXCEPT ![Slot(th)] = Without(@, mine[th])]

Check(th) ==
    /\ pc[th] = "check"
    /\ IF got[Slot(th)] = NewFunc(th)
       THEN NextSlot(th) /\ GiveUp(th)
       ELSE pc' = [pc EXCEPT ![th] = "getprot"] /\ UNCHANGED <<at, nest>>
    /\ UNCHANGED <<got, prot, helper, token, req, mine, oldProt, ret, resolving>>

GetProt(th) ==
    /\ pc[th] = "getprot"
    /\ oldProt' = [oldProt EXCEPT ![th] = prot[SlotPage[Slot(th)]]]
    /\ pc' = [pc EXCEPT ![th] = IF oldProt'[th] = "RW" THEN "store" ELSE "setprot"]
    /\ UNCHANGED <<got, prot, helper, token, req, mine, at, ret, resolving, nest>>

SetProt(th) ==
    /\ pc[th] = "setprot"
    /\ prot' = [prot EXCEPT ![SlotPage[Slot(th)]] = "RW"]
    /\ pc' = [pc EXCEPT ![th] = "store"]
    /\ UNCHANGED <<got, helper, token, req, mine, at, oldProt, ret, resolving, nest>>

\* Mutants of ReplaceFails: the failure is ignored; mprotect is tried again
ReplaceFailsIgnored(th) ==
    /\ pc[th] \in {"getprot", "setprot"} /\ pc[th] \in Faults
    /\ ~Injecting(th) => "uninject" \in Faults
    /\ pc' = [pc EXCEPT ![th] = "store"]
    /\ UNCHANGED <<got, prot, helper, token, req, mine, at, oldProt, ret, resolving, nest>>
ReplaceFailsRetries(th) ==
    /\ pc[th] \in {"getprot", "setprot"} /\ pc[th] \in Faults
    /\ ~Injecting(th) => "uninject" \in Faults
    /\ pc' = [pc EXCEPT ![th] = "getprot"]
    /\ UNCHANGED <<got, prot, helper, token, req, mine, at, oldProt, ret, resolving, nest>>

\* An inject returns the error at once, an uninject does not look at it
ReplaceFails(th) ==
    /\ pc[th] \in {"getprot", "setprot"}
    /\ pc[th] \in Faults
    /\ ~Injecting(th) => "uninject" \in Faults
    /\ IF Injecting(th)
       THEN /\ ret' = [ret EXCEPT ![th] = "error"]
            /\ pc' = [pc EXCEPT ![th] = "finish"]
            /\ UNCHANGED at
       ELSE NextSlot(th) /\ UNCHANGED ret
    /\ GiveUp(th)
    /\ UNCHANGED <<got, prot, helper, token, req, mine, oldProt, resolving>>

Writable(th) == prot[SlotPage[Slot(th)]] = "RW"

\* What is kept as origin of a slot; mutant: read after the slot was written
SavedLate(th)  == NewFunc(th)
Saved(th)      == got[Slot(th)]

Store(th) ==
    LET s == Slot(th)
        h == mine[th]
    IN  /\ pc[th] = "store"
        /\ Writable(th)
        /\ got' = [got EXCEPT ![s] = NewFunc(th)]
        /\ IF Injecting(th)
           THEN /\ helper' = [helper EXCEPT ![h].origin = Saved(th)]
                /\ nest' = [nest EXCEPT ![s] = Append(@, [h |-> h, under |-> got[s]])]
           ELSE /\ nest' = [nest EXCEPT ![s] = Without(@, h)]
                /\ UNCHANGED helper
        /\ IF oldProt[th] # "RW"
           THEN pc' = [pc EXCEPT ![th] = "restore"] /\ UNCHANGED at
           ELSE NextSlot(th)
        /\ UNCHANGED <<prot, token, req, mine, oldProt, ret, resolving>>

\* Mutant: the needed protection is put back, not the old one
RestoreNeeded(th) ==
    /\ pc[th] = "restore"
    /\ prot' = [prot EXCEPT ![SlotPage[Slot(th)]] = "RW"]
    /\ NextSlot(th)
    /\ UNCHANGED <<got, helper, token, req, mine, oldProt, ret, resolving, nest>>

Restore(th) ==
    /\ pc[th] = "restore"
    /\ prot' = [prot EXCEPT ![SlotPage[Slot(th)]] = oldProt[th]]
    /\ NextSlot(th)
    /\ UNCHANGED <<got, helper, token, req, mine, oldProt, ret, resolving, nest>>

\* Mutant: returned as an error of the inject
RestoreFailsInject(th) ==
    /\ pc[th] = "restore"
    /\ "restore" \in Faults
    /\ IF Injecting(th)
       THEN /\ ret' = [ret EXCEPT ![th] = "error"]
            /\ pc' = [pc EXCEPT ![th] = "finish"]
            /\ UNCHANGED at
       ELSE NextSlot(th) /\ UNCHANGED ret
    /\ UNCHANGED <<got, prot, helper, token, req, mine, oldProt, resolving, nest>>

\* Only logged
RestoreFails(th) ==
    /\ pc[th] = "restore"
    /\ "restore" \in Faults
    /\ NextSlot(th)
    /\ UNCHANGED <<got, prot, helper, token, req, mine, oldProt, ret, resolving, nest>>

----------------------------------------------------------------------------
(* The end of a call *)

\* inject_ret
Result(th) == IF ret[th] = "error" \/ helper[mine[th]].info = {}
              THEN "error" ELSE "success"

\* Mutant of FinishInject: the helper of a failed inject is never freed
FinishInjectLeaks(th) ==
    /\ pc[th] = "finish" /\ Injecting(th)
    /\ ret' = [ret EXCEPT ![th] = Result(th)]
    /\ mine' = IF Result(th) = "success" THEN mine ELSE [mine EXCEPT ![th] = NoHelper]
    /\ pc' = [pc EXCEPT ![th] = "return"]
    /\ UNCHANGED <<got, prot, helper, token, req, at, oldProt, resolving, nest>>

\* elf_inject_got_patch: without an origin the helper is freed and ret, which
\* may be success, is returned; the token is set only on success.
FinishInject(th) ==
    LET h == mine[th]
        keep == Result(th) = "success" /\ helper[h].origin # NoOrigin
    IN  /\ pc[th] = "finish" /\ Injecting(th)
        /\ ret' = [ret EXCEPT ![th] = Result(th)]
        /\ helper' = IF keep THEN helper ELSE [helper EXCEPT ![h] = Free]
        /\ mine' = IF keep THEN mine ELSE [mine EXCEPT ![th] = NoHelper]
        /\ pc' = [pc EXCEPT ![th] = "return"]
        /\ UNCHANGED <<got, prot, token, req, at, oldProt, resolving, nest>>

Return(th) ==
    /\ pc' = [pc EXCEPT ![th] = "idle"]
    /\ req' = [req EXCEPT ![th] = NoRequest]
    /\ mine' = [mine EXCEPT ![th] = NoHelper]
    /\ at' = [at EXCEPT ![th] = "plt"]
    /\ oldProt' = [oldProt EXCEPT ![th] = "R"]
    /\ UNCHANGED <<got, prot, resolving, nest>>

ReturnInject(th) ==
    /\ pc[th] = "return" /\ Injecting(th)
    /\ token' = IF ret[th] = "success"
                THEN [token EXCEPT ![req[th].token] = mine[th]] ELSE token
    /\ Return(th)
    /\ UNCHANGED <<helper, ret>>

\* elf_inject_got_unpatch frees the helper, uhook_uninject zeroes the token
ReturnUninject(th) ==
    /\ pc[th] = "finish" /\ ~Injecting(th)
    /\ helper' = [helper EXCEPT ![mine[th]] = Free]
    /\ token' = [token EXCEPT ![req[th].token] = NoHelper]
    /\ ret' = [ret EXCEPT ![th] = "success"]
    /\ Return(th)

----------------------------------------------------------------------------
(* External: the program calls the loader's stub, through the slot or through *)
(* token.fcall; the loader finds the function and stores it in the slot.      *)

StartResolve(sym) ==
    /\ <<sym, "plt">> \in Slots
    /\ \/ got[<<sym, "plt">>] = "lazy"
       \/ \E k \in Token : /\ token[k] # NoHelper
                           /\ helper[token[k]].symbol = sym
                           /\ helper[token[k]].origin = "lazy"
    /\ resolving' = resolving \cup {sym}
    /\ UNCHANGED <<got, prot, helper, token, local, nest>>

EndResolve(sym) ==
    /\ sym \in resolving
    /\ resolving' = resolving \ {sym}
    /\ got' = [got EXCEPT ![<<sym, "plt">>] = "impl"]
    /\ UNCHANGED <<prot, helper, token, local, nest>>

----------------------------------------------------------------------------

Begin(th) ==
    \E k \in Token :
        \/ BeginUninject(th, k)
        \/ \E sym \in Symbol, d \in Detour : BeginInject(th, k, sym, d)

Step(th) ==
    \/ Lookup(th) \/ LookupFails(th)
    \/ Visit(th) \/ Check(th)
    \/ GetProt(th) \/ SetProt(th) \/ ReplaceFails(th)
    \/ Store(th) \/ Restore(th) \/ RestoreFails(th)
    \/ FinishInject(th) \/ ReturnInject(th) \/ ReturnUninject(th)

Loader == \E sym \in Symbol : StartResolve(sym) \/ EndResolve(sym)

\* What the threads and the loader do while the process lives
Alive == ~dead /\ UNCHANGED dead
Run == (\E th \in Thread : Begin(th) \/ Step(th)) \/ Loader

Next == (Run /\ Alive) \/ \E th \in Thread : CallocFails(th)

\* Threads that are in a call get to run, and one that waits for the loader's
\* lock gets it in the end
Fairness == \A th \in Thread : WF_vars(Step(th) /\ Alive) /\ SF_vars(Lookup(th) /\ Alive)

Spec == Init /\ [][Next]_vars /\ Fairness

----------------------------------------------------------------------------
(* Properties *)

\* The types of what the calls and the loader write
Typed ==
    /\ got \in [Slots -> Content]
    /\ prot \in [Page -> {"R", "RW"}]
    /\ helper \in [Helper -> HelperRec \cup {Free}]
    /\ token \in [Token -> Helper \cup {NoHelper}]
    /\ pc \in [Thread -> {"idle", "lookup", "visit", "check", "getprot", "setprot",
                          "store", "restore", "finish", "return"}]
    /\ req \in [Thread -> Request \cup {NoRequest}]
    /\ mine \in [Thread -> Helper \cup {NoHelper}]
    /\ at \in [Thread -> Kind]
    /\ oldProt \in [Thread -> {"R", "RW"}]
    /\ ret \in [Thread -> {"none", "success", "error"}]
    /\ resolving \subseteq Symbol
    /\ nest \in [Slots -> Seq(Hooked)]

TypeOK == Typed /\ dead \in BOOLEAN

SlotsOf(sym) == {s \in Slots : s[1] = sym}

Quiet(sym) == \A th \in InFlight : req[th].symbol # sym

Unhooked(sym) ==
    /\ Quiet(sym)
    /\ \A k \in Token : token[k] # NoHelper => helper[token[k]].symbol # sym

\* The store into a slot hits a writable page: the protection that was read
\* from /proc/self/maps some steps before is still the one of the page.
SlotWritable == \A th \in Thread : pc[th] = "store" => Writable(th)

\* Once every hook of a symbol has been taken off, its slots hold what they held;
\* the one the loader binds meanwhile leads to the original, bound or not.
Restored ==
    \A sym \in Symbol : Unhooked(sym) =>
        \A s \in SlotsOf(sym) :
            \/ got[s] = InitGot[s]
            \/ InitGot[s] = "lazy" /\ got[s] = "impl"

\* The slots nobody but uhook writes to
Bound == {s \in Slots : InitGot[s] = "impl"}

\* A page that no call works on has the protection the loader gave it.
ProtRestored ==
    \A p \in Page :
        (\A th \in InFlight : p \notin PagesOf(req[th].symbol)) => prot[p] = InitProt[p]

\* Both slots of a symbol carry the same hooks, in the same order, whenever no
\* call is changing them: a call through either runs the newest detour, unless
\* the loader has bound the symbol since.
SlotsAgree ==
    \A sym \in Symbol : Quiet(sym) =>
        \A s \in SlotsOf(sym) :
            /\ \A r \in SlotsOf(sym) :
                  [i \in DOMAIN nest[s] |-> nest[s][i].h] =
                  [i \in DOMAIN nest[r] |-> nest[r][i].h]
            /\ nest[s] # <<>> /\ sym \notin Lazy => got[s] = helper[nest[s][Len(nest[s])].h].detour

\* token.fcall, the one origin kept for both slots, is what each of them held,
\* for the symbols the loader has bound before.
OriginIsDisplaced ==
    \A s \in {x \in Slots : x[1] \notin Lazy} : \A i \in DOMAIN nest[s] :
        LET e == nest[s][i] IN helper[e.h] # Free /\ helper[e.h].origin = e.under

\* Every helper is owned by one token or by one call that has not returned it
\* yet, and no token has a helper that was freed.
HelpersOwned ==
    LET holders(h) == {k \in Token : token[k] = h}
        making(h) == {th \in Thread : Injecting(th) /\ mine[th] = h}
        ending(h) == {th \in InFlight : ~Injecting(th) /\ mine[th] = h}
    IN  \A h \in Helper :
            /\ Cardinality(holders(h)) + Cardinality(making(h)) =
                  IF helper[h] = Free THEN 0 ELSE 1
            /\ Cardinality(ending(h)) <= Cardinality(holders(h))

\* An inject that returns success has an original function to call and a token
\* to take the hook off: test/pltgot_shared.cpp:20-21 asserts both together.
SuccessHasOrigin ==
    \A th \in Thread :
        pc[th] = "return" /\ Injecting(th) /\ ret[th] = "success" =>
            mine[th] # NoHelper /\ helper[mine[th]].origin # NoOrigin

\* Every hook that is in a slot has a helper that can take it off again: an
\* inject that failed has left none behind.  For symbols with one slot: one that
\* fails at a second slot leaves the detour in the first (elf.c:620).
NoOrphan ==
    \A s \in Slots : \A i \in DOMAIN nest[s] : helper[nest[s][i].h] # Free

\* A call to uhook_inject_got or uhook_uninject returns.
CallsReturn == \A th \in Thread : pc[th] # "idle" ~> pc[th] = "idle"

\* Hooks on slots are hooks: every store is one atomic hook or unhook of its
\* slot, and no other step changes what a slot holds.  The slots that the loader
\* writes to as well are left out.
Hooks == INSTANCE HookStack WITH
            Cell <- Bound,
            Content <- Content,
            Pristine <- [s \in Bound |-> "impl"],
            cell <- [s \in Bound |-> got[s]],
            under <- [s \in Bound |-> [i \in DOMAIN nest[s] |-> nest[s][i].under]]

IsAHookStack == Hooks!Spec
=============================================================================
