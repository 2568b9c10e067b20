----------------------------- MODULE InlineHook -----------------------------
(***************************************************************************)
(* Inline hooks on x86-64: uhook_inject and uhook_uninject of               *)
(* src/src/uhook.c, their implementation in src/src/arch/x86_64.c, and      *)
(* _system_modify_opcode of src/src/os/os.c, called by several threads.     *)
(*                                                                         *)
(* The code of a target is an image: for each of its first bytes, the code  *)
(* that byte belongs to, the original function or the jump to a detour.     *)
(* What token.fcall runs, the copy of a function with its branches patched,  *)
(* is the subject of X86Trampoline and left out here.                       *)
(*                                                                         *)
(* The library has no lock: which calls may be in flight together, and in   *)
(* which order hooks are taken off, is up to the caller.  The constants     *)
(* Serial and Lifo say what the caller promises.                            *)
(***************************************************************************)
EXTENDS OsPages, Sequences, FiniteSets

CONSTANTS
    Thread, Target, Detour, Token, Handle,
    Original, Int3,   \* owners of a byte beside the detours
    NoHandle, Free, NoRequest,
    Addr,             \* address of each target
    FuncSize,         \* its size, from the ELF symbol
    RedirectSize,     \* bytes of the jump from a target to a detour
    InjectFaults,     \* the steps that may fail in an inject
    UninjectFaults,   \* and in an uninject
    Serial,           \* "page": no two calls in flight share a page of code;
                      \* "target": only calls on one target are serialized
    Lifo              \* the newest hook of a target is taken off first

\* redirect_opcode and backup_opcode hold a far jump
OpcodeSize == 14
Offsets == 0 .. OpcodeSize - 1

Owner == {Original, Int3} \cup Detour
Image == [Offsets -> Owner]

\* x86_64_trampoline_t
HandleRec == [target : Target, detour : Detour, size : {2, 5, 14}, backup : Image]

ASSUME InlineAssumption ==
    /\ Addr \in [Target -> Nat]
    /\ FuncSize \in [Target -> Nat]
    /\ RedirectSize \in [Target -> [Detour -> {2, 5, 14}]]
    /\ NoHandle \notin Handle
    /\ Free \notin HandleRec
    /\ InjectFaults \subseteq {"prepare", "unprotect", "reprotect"}
    /\ UninjectFaults \subseteq {"unprotect", "reprotect"}
    /\ Serial \in {"page", "target"}
    /\ Lifo \in BOOLEAN

VARIABLES
    code,    \* the image of each target
    prot,    \* the protection of each page of code
    handle,  \* the allocated x86_64_trampoline_t, or Free
    token,   \* uhook_token_t.token; a zeroed token has NoHandle
    pc,      \* the next step of the call a thread is in, or "idle"
    req,     \* the arguments of that call
    mine,    \* the handle it works on
    nest     \* history: the hooks on a target, the oldest first, each with
             \* the image it found

vars == <<code, prot, handle, token, pc, req, mine, nest>>

Request == [op : {"inject", "uninject"}, token : Token, target : Target,
            detour : Detour]
Hooked == [h : Handle, under : Image]

\* The pages that hold the first bytes of a target
TargetPages(t) == {PageOf(Addr[t] + o) : o \in Offsets}
AllPages == UNION {TargetPages(t) : t \in Target}

OriginalImage == [o \in Offsets |-> Original]

\* memcpy of size bytes from src over the image dst
Overwrite(dst, src, size) ==
    [o \in Offsets |-> IF o < size THEN src[o] ELSE dst[o]]

JumpTo(d) == [o \in Offsets |-> d]

Init ==
    /\ code = [t \in Target |-> OriginalImage]
    /\ prot = [p \in AllPages |-> "RX"]
    /\ handle = [h \in Handle |-> Free]
    /\ token = [k \in Token |-> NoHandle]
    /\ pc = [th \in Thread |-> "idle"]
    /\ req = [th \in Thread |-> NoRequest]
    /\ mine = [th \in Thread |-> NoHandle]
    /\ nest = [t \in Target |-> <<>>]

----------------------------------------------------------------------------
(* What the caller promises *)

SharePage(t, u) == TargetPages(t) \cap TargetPages(u) # {}

InFlight == {th \in Thread : pc[th] # "idle"}

MayCall(k, t) ==
    \A th \in InFlight :
        /\ req[th].token # k
        /\ req[th].target # t
        /\ Serial = "page" => ~SharePage(req[th].target, t)

----------------------------------------------------------------------------
(* The calls *)

\* uhook_inject(&k, t, d); k is not in use for another hook
BeginInject(th, k, t, d) ==
    /\ pc[th] = "idle"
    /\ token[k] = NoHandle
    /\ MayCall(k, t)
    /\ pc' = [pc EXCEPT ![th] = "prepare"]
    /\ req' = [req EXCEPT ![th] =
                 [op |-> "inject", token |-> k, target |-> t, detour |-> d]]
    /\ UNCHANGED <<code, prot, handle, token, mine, nest>>

\* uhook_uninject(&k)
BeginUninject(th, k) ==
    /\ pc[th] = "idle"
    /\ token[k] # NoHandle
    /\ LET h == token[k]
           t == handle[h].target
       IN  /\ MayCall(k, t)
           /\ Lifo => nest[t] # <<>> /\ nest[t][Len(nest[t])].h = h
           /\ mine' = [mine EXCEPT ![th] = h]
           /\ req' = [req EXCEPT ![th] =
                        [op |-> "uninject", token |-> k, target |-> t,
                         detour |-> handle[h].detour]]
    /\ pc' = [pc EXCEPT ![th] = "unprotect"]
    /\ UNCHANGED <<code, prot, handle, token, nest>>

\* What backup_opcode, filled with 0xcc, holds of an image; mutant: of a
\* near jump whatever the size
BackupNear(image, size) == Overwrite([o \in Offsets |-> Int3], image, 5)
Backup(image, size) == Overwrite([o \in Offsets |-> Int3], image, size)

NewHandle(t, d) ==
    LET size == RedirectSize[t][d]
    IN  [target |-> t, detour |-> d, size |-> size, backup |-> Backup(code[t], size)]

\* Size, allocation, redirect code, backup, and the trampoline
Prepare(th) ==
    LET t == req[th].target
        d == req[th].detour
    IN  /\ pc[th] = "prepare"
        /\ RedirectSize[t][d] <= FuncSize[t]
        /\ \E h \in Handle :
              /\ handle[h] = Free
              /\ handle' = [handle EXCEPT ![h] = NewHandle(t, d)]
              /\ mine' = [mine EXCEPT ![th] = h]
        /\ pc' = [pc EXCEPT ![th] = "unprotect"]
        /\ UNCHANGED <<code, prot, token, req, nest>>

\* NOFUNCSIZE, NOMEM, SMALLFUNC or UNKNOWN: a handle that was allocated is freed
PrepareFails(th) ==
    /\ pc[th] = "prepare"
    /\ \/ "prepare" \in InjectFaults
       \/ RedirectSize[req[th].target][req[th].detour] > FuncSize[req[th].target]
    /\ pc' = [pc EXCEPT ![th] = "return"]
    /\ UNCHANGED <<code, prot, handle, token, req, mine, nest>>

----------------------------------------------------------------------------
(* _system_modify_opcode *)

MayFail(th, step) ==
    step \in IF req[th].op = "inject" THEN InjectFaults ELSE UninjectFaults

\* The pages whose protection the call of th changes
Region(th) == Pages(Addr[handle[mine[th]].target], handle[mine[th]].size)

\* Mutants: no right to execute; the write protection of one page only
ProtectAsData(th, mode) ==
    prot' = [p \in AllPages |-> IF p \in Region(th) THEN "RW" ELSE prot[p]]
ProtectLast(th, mode) ==
    prot' = [p \in AllPages |->
                IF p \in Region(th) /\ (mode = "RWX" \/ p + PageSize \notin Region(th))
                THEN mode ELSE prot[p]]

Protect(th, mode) ==
    prot' = [p \in AllPages |-> IF p \in Region(th) THEN mode ELSE prot[p]]

Unprotect(th) ==
    /\ pc[th] = "unprotect"
    /\ Protect(th, "RWX")
    /\ pc' = [pc EXCEPT ![th] = "write"]
    /\ UNCHANGED <<code, handle, token, req, mine, nest>>

\* The hooks without that of h, of which there is at most one
Without(hooks, h) ==
    LET its == {i \in 1 .. Len(hooks) : hooks[i].h = h}
        i == CHOOSE j \in its : TRUE
    IN  IF its = {} THEN hooks
        ELSE [j \in 1 .. Len(hooks) - 1 |-> IF j < i THEN hooks[j] ELSE hooks[j + 1]]

\* An inject frees its handle and fails; mutant: it tries again
DropHandleRetries(th) ==
    /\ handle' = [handle EXCEPT ![mine[th]] = Free]
    /\ mine' = [mine EXCEPT ![th] = NoHandle]
    /\ pc' = [pc EXCEPT ![th] = "prepare"]
DropHandle(th) ==
    /\ handle' = [handle EXCEPT ![mine[th]] = Free]
    /\ mine' = [mine EXCEPT ![th] = NoHandle]
    /\ pc' = [pc EXCEPT ![th] = "return"]

\* _system_modify_opcode returns -1; an uninject goes on as if its hook had been
\* taken off.
UnprotectFails(th) ==
    /\ pc[th] = "unprotect"
    /\ MayFail(th, "unprotect")
    /\ \/ /\ req[th].op = "inject"
          /\ DropHandle(th)
          /\ UNCHANGED nest
       \/ /\ req[th].op = "uninject"
          /\ nest' = [nest EXCEPT ![req[th].target] = Without(@, mine[th])]
          /\ pc' = [pc EXCEPT ![th] = "return"]
          /\ UNCHANGED <<handle, mine>>
    /\ UNCHANGED <<code, prot, token, req>>

\* The processor lets the callback write every byte it is about to write
Writable(th) ==
    LET h == handle[mine[th]]
    IN  \A o \in 0 .. h.size - 1 : prot[PageOf(Addr[h.target] + o)] = "RWX"

\* _x86_64_do_inject
DoInject(th) ==
    LET h == mine[th]
        t == handle[h].target
    IN  /\ pc[th] = "write" /\ req[th].op = "inject"
        /\ Writable(th)
        /\ code' = [code EXCEPT ![t] =
                       Overwrite(@, JumpTo(handle[h].detour), handle[h].size)]
        /\ nest' = [nest EXCEPT ![t] = Append(@, [h |-> h, under |-> code[t]])]
        /\ pc' = [pc EXCEPT ![th] = "reprotect"]
        /\ UNCHANGED <<prot, handle, token, req, mine>>

\* memcpy of the backup; mutants: all of backup_opcode; a near jump of it
UndoAll(image, rec)  == Overwrite(image, rec.backup, OpcodeSize)
UndoNear(image, rec) == Overwrite(image, rec.backup, 5)
Undo(image, rec)     == Overwrite(image, rec.backup, rec.size)

\* _x86_64_undo_inject
UndoInject(th) ==
    LET h == mine[th]
        t == handle[h].target
    IN  /\ pc[th] = "write" /\ req[th].op = "uninject"
        /\ Writable(th)
        /\ code' = [code EXCEPT ![t] = Undo(@, handle[h])]
        /\ nest' = [nest EXCEPT ![t] = Without(@, h)]
        /\ pc' = [pc EXCEPT ![th] = "reprotect"]
        /\ UNCHANGED <<prot, handle, token, req, mine>>

Reprotect(th) ==
    /\ pc[th] = "reprotect"
    /\ Protect(th, "RX")
    /\ pc' = [pc EXCEPT ![th] = "return"]
    /\ UNCHANGED <<code, handle, token, req, mine, nest>>

\* With NDEBUG the failed assertion is compiled out and 0 is returned
ReprotectFails(th) ==
    /\ pc[th] = "reprotect"
    /\ MayFail(th, "reprotect")
    /\ pc' = [pc EXCEPT ![th] = "return"]
    /\ UNCHANGED <<code, prot, handle, token, req, mine, nest>>

----------------------------------------------------------------------------

EndCall(th) ==
    /\ pc' = [pc EXCEPT ![th] = "idle"]
    /\ req' = [req EXCEPT ![th] = NoRequest]
    /\ mine' = [mine EXCEPT ![th] = NoHandle]
    /\ UNCHANGED <<code, prot, nest>>

\* uhook_inject stores the token, if there is a hook
ReturnInject(th) ==
    /\ pc[th] = "return" /\ req[th].op = "inject"
    /\ token' = IF mine[th] = NoHandle THEN token
                ELSE [token EXCEPT ![req[th].token] = mine[th]]
    /\ EndCall(th)
    /\ UNCHANGED handle

\* Mutant of ReturnUninject: the handle is never freed
ReturnUninjectLeaks(th) ==
    /\ pc[th] = "return" /\ req[th].op = "uninject"
    /\ token' = [token EXCEPT ![req[th].token] = NoHandle]
    /\ EndCall(th)
    /\ UNCHANGED handle

\* uhook_x86_64_uninject frees the handle, uhook_uninject zeroes the token
ReturnUninject(th) ==
    /\ pc[th] = "return" /\ req[th].op = "uninject"
    /\ handle' = [handle EXCEPT ![mine[th]] = Free]
    /\ token' = [token EXCEPT ![req[th].token] = NoHandle]
    /\ EndCall(th)

Begin(th) ==
    \E k \in Token :
        \/ BeginUninject(th, k)
        \/ \E t \in Target, d \in Detour : BeginInject(th, k, t, d)

Step(th) ==
    \/ Prepare(th) \/ PrepareFails(th)
    \/ Unprotect(th) \/ UnprotectFails(th)
    \/ DoInject(th) \/ UndoInject(th)
    \/ Reprotect(th) \/ ReprotectFails(th)
    \/ ReturnInject(th) \/ ReturnUninject(th)

Next == \E th \in Thread : Begin(th) \/ Step(th)

\* Threads that are in a call get to run
Fairness == \A th \in Thread : WF_vars(Step(th))

Spec == Init /\ [][Next]_vars /\ Fairness

----------------------------------------------------------------------------
(* Properties *)

TypeOK ==
    /\ code \in [Target -> Image]
    /\ prot \in [AllPages -> {"RX", "RWX"}]
    /\ handle \in [Handle -> HandleRec \cup {Free}]
    /\ token \in [Token -> Handle \cup {NoHandle}]
    /\ pc \in [Thread -> {"idle", "prepare", "unprotect", "write", "reprotect", "return"}]
    /\ req \in [Thread -> Request \cup {NoRequest}]
    /\ mine \in [Thread -> Handle \cup {NoHandle}]
    /\ nest \in [Target -> Seq(Hooked)]

\* _system_modify_opcode runs its callback on pages it may write, all of them,
\* also where the jump straddles a page boundary, if calls in flight share no page
\* (Serial): os.c:92, "Remove write protect", is still so at os.c:98, "call callback".
CallbackWritable == \A th \in Thread : pc[th] = "write" => Writable(th)

\* Every handle is owned by exactly one token or by exactly one call that has
\* not stored it yet, and no token or call has a handle that was freed: nothing
\* leaks when a step fails, and nothing is freed twice.
HandlesOwned ==
    LET holders(h) == {k \in Token : token[k] = h}
        making(h) == {th \in InFlight : req[th].op = "inject" /\ mine[th] = h}
        ending(h) == {th \in InFlight : req[th].op = "uninject" /\ mine[th] = h}
    IN  \A h \in Handle :
            /\ Cardinality(holders(h)) + Cardinality(making(h)) =
                  IF handle[h] = Free THEN 0 ELSE 1
            /\ Cardinality(ending(h)) <= Cardinality(holders(h))

\* What the hooks on a target found there: the oldest the original code, each
\* other the image with the jump of the one below it; and the code is the image
\* with the jump of the newest.
Over(t, i) ==
    LET e == nest[t][i]
    IN  Overwrite(e.under, JumpTo(handle[e.h].detour), handle[e.h].size)

StackIntact ==
    \A t \in Target :
        /\ \A i \in 1 .. Len(nest[t]) :
              nest[t][i].under = IF i = 1 THEN OriginalImage ELSE Over(t, i - 1)
        /\ code[t] = IF nest[t] = <<>> THEN OriginalImage ELSE Over(t, Len(nest[t]))

\* Once every hook of a target has been taken off its code is the original one,
\* as test/inline_simple.cpp:27-28 expects after uhook_uninject.
Quiet(t) ==
    /\ \A th \in InFlight : req[th].target # t
    /\ \A k \in Token : token[k] # NoHandle => handle[token[k]].target # t

Restored == \A t \in Target : Quiet(t) => code[t] = OriginalImage

\* Code is writable only while a call that changes it is in progress.
WriteProtectedAtRest ==
    \A p \in AllPages :
        prot[p] = "RWX" =>
            \E th \in InFlight : /\ pc[th] \in {"write", "reprotect"}
                                 /\ p \in TargetPages(req[th].target)

\* A call to uhook_inject or uhook_uninject returns.
CallsReturn == \A th \in Thread : pc[th] # "idle" ~> pc[th] = "idle"

\* Hooks on functions are hooks: seen from outside, an inject and an uninject
\* are one atomic step each, at their write, and a call that fails is none.
Hooks == INSTANCE HookStack WITH
            Cell <- Target,
            Content <- Image,
            Pristine <- [t \in Target |-> OriginalImage],
            cell <- code,
            under <- [t \in Target |->
                        [i \in 1 .. Len(nest[t]) |-> nest[t][i].under]]

IsAHookStack == Hooks!Spec
=============================================================================
