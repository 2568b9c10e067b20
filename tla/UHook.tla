------------------------------- MODULE UHook -------------------------------
(***************************************************************************)
(* The public interface, src/src/uhook.c on x86-64: hooks of both kinds with *)
(* one set of tokens.  An inline hook first asks FuncSize for the size of    *)
(* its target, in all its steps; what follows is one step here, as is a GOT  *)
(* hook of a symbol that one slot, bound already, leads to.                  *)
(*                                                                         *)
(* What a hook does to the code of a function, and how hooks stack, is not   *)
(* here: InlineHook and GotHook have that in all its steps.                  *)
(*                                                                         *)
(* A call to uhook_inject is in flight between BeginInject and its end;      *)
(* calls of other threads on other tokens and functions go on meanwhile.    *)
(***************************************************************************)
EXTENDS FuncSize

CONSTANTS
    Symbol, Detour, Token, Handle,
    Need,     \* the size of the jump from a target to a detour
    NoHandle, NoRequest, Free

Cell == Target \cup Symbol
Held == {"original"} \cup Detour   \* what a slot leads to

INLINE == 1   \* UHOOK_ATTR_INLINE
GOTPLT == 2   \* UHOOK_ATTR_GOTPLT
KindOf(c) == IF c \in Symbol THEN GOTPLT ELSE INLINE

\* A trampoline, or the helper of a GOT hook with what the slot held before
HandleRec == [cell : Target, origin : {Null}] \cup [cell : Symbol, origin : Held]

\* fcall is a function, or the trampoline, which lies in its handle
TokenRec == [fcall : Held \cup Handle \cup {Null}, attrs : {0, INLINE, GOTPLT},
             token : Handle \cup {NoHandle}]
Request == [token : Token, target : Target, detour : Detour]

ASSUME HookAssumption ==
    /\ Need \in [Target \X Detour -> Nat]
    /\ NoHandle \notin Handle /\ Free \notin HandleRec /\ NoRequest \notin Request
    /\ Null \notin Held /\ Target \cap Symbol = {}

VARIABLES
    slot,    \* where the slot of each symbol leads to
    token,   \* uhook_token_t
    handle,  \* the installed trampolines and GOT helpers, or Free
    req      \* the call of uhook_inject in flight

hookVars == <<slot, token, handle>>
vars == <<sizeVars, hookVars, req>>

Zeroed == [fcall |-> Null, attrs |-> 0, token |-> NoHandle]

\* What a call leaves that found its detour in the slot
Hollow == [fcall |-> Null, attrs |-> GOTPLT, token |-> NoHandle]

Init ==
    /\ InitSize
    /\ slot = [s \in Symbol |-> "original"]
    /\ token = [k \in Token |-> Zeroed]
    /\ handle = [h \in Handle |-> Free]
    /\ req = NoRequest

----------------------------------------------------------------------------
(* What the caller promises: a token that holds a hook is not injected into  *)
(* again, and calls on one token, function or symbol come one after another  *)

Unused(k) == pc # "crashed" /\ (req # NoRequest => req.token # k)
Quiet(k, c) == Unused(k) /\ (req # NoRequest => req.target # c)

----------------------------------------------------------------------------

\* A handle is allocated and the token set, on the success of either kind of call
Take(k, c, origin) ==
    \E h \in Handle :
        /\ handle[h] = Free
        /\ handle' = [handle EXCEPT ![h] = [cell |-> c, origin |-> origin]]
        /\ token' = [token EXCEPT ![k] =
                        [fcall |-> IF c \in Symbol THEN origin ELSE h,
                         attrs |-> KindOf(c), token |-> h]]

\* uhook_inject(&k, t, d)
BeginInject(k, t, d) ==
    /\ Quiet(k, t) /\ token[k].attrs = 0
    /\ BeginSize(t) \/ BeginSizeFails(t)
    /\ req' = [token |-> k, target |-> t, detour |-> d]
    /\ UNCHANGED hookVars

SizeOfTarget ==
    /\ SizeStep
    /\ UNCHANGED <<hookVars, req>>

\* Without a size, with one too small, and for lack of memory or of permission:
\* the token is left as it is
InjectFails ==
    /\ EndSize
    /\ req' = NoRequest
    /\ UNCHANGED hookVars

Inject ==
    /\ EndSize
    /\ result >= Need[req.target, req.detour]
    /\ Take(req.token, req.target, Null)
    /\ req' = NoRequest
    /\ UNCHANGED slot

\* uhook_inject_got(&k, s, d); a failure leaves everything as it is
InjectGot(k, s, d) ==
    /\ Quiet(k, s) /\ token[k].attrs = 0
    /\ slot[s] # d
    /\ Take(k, s, slot[s])
    /\ slot' = [slot EXCEPT ![s] = d]
    /\ UNCHANGED <<sizeVars, req>>

\* The detour is in the slot: nothing is replaced and the helper is freed, but
\* the call succeeds
InjectGotAgain(k, s, d) ==
    /\ Quiet(k, s) /\ token[k].attrs = 0
    /\ slot[s] = d
    /\ token' = [token EXCEPT ![k] = Hollow]
    /\ UNCHANGED <<sizeVars, slot, handle, req>>

\* calloc of the helper returns NULL, which is dereferenced
InjectGotNoMemory(k, s) ==
    /\ Quiet(k, s) /\ token[k].attrs = 0
    /\ pc' = "crashed"
    /\ UNCHANGED <<loaded, disk, locals, heap, hookVars, req>>

\* Mutant of Clear: the token is not cleared
ClearNot(k) == UNCHANGED token
Clear(k) == token' = [token EXCEPT ![k] = Zeroed]

\* uhook_uninject(&k), in whatever order; that the slot could not be made
\* writable does not show, and the helper is freed all the same
Uninject(k) ==
    LET h == token[k].token
        c == handle[h].cell
    IN  /\ h # NoHandle
        /\ Quiet(k, c)
        /\ \/ UNCHANGED slot
           \/ c \in Symbol /\ slot' = [slot EXCEPT ![c] = handle[h].origin]
        /\ handle' = [handle EXCEPT ![h] = Free]
        /\ Clear(k)
        /\ UNCHANGED <<sizeVars, req>>

\* The same of a token without a helper, which is dereferenced
UninjectHollow(k) ==
    /\ Unused(k)
    /\ token[k].attrs = GOTPLT /\ token[k].token = NoHandle
    /\ pc' = "crashed"
    /\ UNCHANGED <<loaded, disk, locals, heap, hookVars, req>>

\* The same of a token without a hook: after an inject that failed, or again
UninjectNothing(k) ==
    /\ Unused(k)
    /\ token[k].attrs = 0
    /\ Clear(k)
    /\ UNCHANGED <<sizeVars, slot, handle, req>>

----------------------------------------------------------------------------

Call(k) ==
    \/ \E t \in Target, d \in Detour : BeginInject(k, t, d)
    \/ \E s \in Symbol, d \in Detour : InjectGot(k, s, d) \/ InjectGotAgain(k, s, d)
    \/ \E s \in Symbol : InjectGotNoMemory(k, s)
    \/ Uninject(k) \/ UninjectHollow(k) \/ UninjectNothing(k)

Dlopen == \E o \in Plugin : Load(o) \/ Unload(o)

Next ==
    \/ \E k \in Token : Call(k)
    \/ SizeOfTarget \/ InjectFails \/ Inject
    \/ Dlopen /\ UNCHANGED <<hookVars, req>>

Spec == Init /\ [][Next]_vars

----------------------------------------------------------------------------
(* Properties *)

TypeOK ==
    /\ loaded \in Seq(Object) /\ disk \in Disks
    /\ pc \in {"idle", "maps", "open", "locate", "parse", "scan", "search", "fin",
               "sized", "crashed"}
    /\ pc = "idle" => req = NoRequest
    /\ req = NoRequest => pc \in {"idle", "crashed"}
    /\ pc = "idle" => Idle
    /\ path \in Path \cup {NoPath} /\ file \in File \cup {Null}
    /\ cursor \in Nat /\ sec \in Nat /\ oom \in BOOLEAN
    /\ result # Unknown => result \in Nat \cup {-1}
    /\ pc = "sized" => result # Unknown
    /\ slot \in [Symbol -> Held]
    /\ token \in [Token -> TokenRec]
    /\ handle \in [Handle -> HandleRec \cup {Free}]
    /\ req \in Request \cup {NoRequest}

\* A token says of which kind the one hook is that it alone owns, so that
\* uhook_uninject hands it to the code that made it, and its fcall is the
\* trampoline or what the slot held; without a hook it is all zero, after failures
\* and repeated uninjects too, or hollow; and no hook is ownerless.
TokenOwnsHook ==
    /\ \A k \in Token :
          LET own == token[k]
              of  == handle[own.token]
          IN  \/ own \in {Zeroed, Hollow}
              \/ /\ own.token # NoHandle /\ of # Free
                 /\ own.attrs = KindOf(of.cell)
                 /\ own.fcall = IF of.cell \in Symbol THEN of.origin ELSE own.token
    /\ \A h \in Handle :
          Cardinality({k \in Token : token[k].token = h}) =
              IF handle[h] = Free THEN 0 ELSE 1
=============================================================================
