---------------------------- MODULE UHookProofs ----------------------------
(***************************************************************************)
(* For every number of tokens, functions, symbols and detours, whatever     *)
(* files and objects there are, and whichever steps of a size lookup fail:  *)
(* a token owns at most one hook and knows its kind, and every hook is      *)
(* owned.  A lookup releases what it holds, finds the object a function is  *)
(* in (LaidOut), reads every file that follows the standard as it is meant, *)
(* and returns the size of the function's symbol (Conforming).              *)
(***************************************************************************)
EXTENDS UHook, ElfParserProofs, FiniteSetTheorems, SequenceTheorems, TLAPS

----------------------------------------------------------------------------
(* The inductive invariant *)

\* The variables of the public interface; those of the size lookup do not matter.
HookTypes ==
    /\ slot \in [Symbol -> Held]
    /\ token \in [Token -> TokenRec]
    /\ handle \in [Handle -> HandleRec \cup {Free}]
    /\ req \in Request \cup {NoRequest}
    /\ pc = "idle" => req = NoRequest
    /\ req = NoRequest => pc \in {"idle", "crashed"}

\* A call in flight has a token without a hook
Pending == req # NoRequest => token[req.token] = Zeroed

Owns(k) ==
    LET own == token[k]
        of  == handle[own.token]
    IN  /\ own.token \in Handle /\ of # Free
        /\ own.attrs = KindOf(of.cell)
        /\ own.fcall = IF of.cell \in Symbol THEN of.origin ELSE own.token

Tokens ==
    /\ \A k \in Token : token[k] \in {Zeroed, Hollow} \/ Owns(k)
    /\ \A k, l \in Token : k # l /\ token[k].token # NoHandle => token[k].token # token[l].token
    /\ \A h \in Handle : handle[h] # Free => \E k \in Token : token[k].token = h

HInv == HookTypes /\ Pending /\ Tokens

LEMMA ZeroedIs ==
    /\ Zeroed \in TokenRec /\ Zeroed.token = NoHandle /\ Zeroed.attrs = 0
    /\ Hollow \in TokenRec /\ Hollow.token = NoHandle /\ Hollow.attrs # 0
    /\ \A c \in Cell : KindOf(c) # 0 /\ KindOf(c) \in {0, INLINE, GOTPLT}
  BY DEF Zeroed, Hollow, TokenRec, KindOf, INLINE, GOTPLT

LEMMA InitHInv == Init => HInv
<1> SUFFICES ASSUME Init PROVE HInv  OBVIOUS
<1>1. HookTypes  BY ZeroedIs DEF Init, HookTypes, InitSize, Idle, Held
<1>2. Pending /\ Tokens
  BY ZeroedIs, HookAssumption DEF Init, Pending, Tokens
<1> QED  BY <1>1, <1>2 DEF HInv

\* Steps that leave hooks alone
LEMMA OtherSteps ==
    ASSUME HInv, UNCHANGED hookVars,
           \/ UNCHANGED <<pc, req>>
           \/ pc # "idle" /\ pc' # "idle" /\ UNCHANGED req /\ pc # "crashed"
           \/ pc' = "idle" /\ req' = NoRequest
           \/ pc' = "crashed" /\ UNCHANGED req
           \/ pc' # "idle" /\ req' \in Request /\ token[req'.token] = Zeroed
    PROVE  HInv'
<1>1. HookTypes'  BY HookAssumption DEF HInv, HookTypes, hookVars
<1>2. Pending'  BY DEF HInv, HookTypes, Pending, hookVars
<1>3. token' = token /\ handle' = handle  BY DEF hookVars
<1>4. Tokens'  BY <1>3 DEF HInv, Tokens, Owns
<1> QED  BY <1>1, <1>2, <1>4 DEF HInv

\* A token without attributes has no hook.
LEMMA NoAttrs ==
    ASSUME HInv, NEW k \in Token, token[k].attrs = 0
    PROVE  token[k] = Zeroed
<1>1. CASE token[k] \in {Zeroed, Hollow}  BY <1>1, ZeroedIs
<1>2. CASE Owns(k)
  <2>1. handle[token[k].token].cell \in Cell
    BY <1>2 DEF Owns, HInv, HookTypes, HandleRec, Cell
  <2> QED  BY <1>2, <2>1, ZeroedIs DEF Owns
<1> QED  BY <1>1, <1>2 DEF HInv, Tokens

\* A hook is made with a free handle and a token that has none.
LEMMA TakeStep ==
    ASSUME HInv, NEW k \in Token, NEW c \in Cell, NEW b, Take(k, c, b),
           IF c \in Symbol THEN b \in Held ELSE b = Null, slot' \in [Symbol -> Held],
           token[k] = Zeroed, req' \in {req, NoRequest}, req' # NoRequest => req'.token # k,
           pc' = "idle" => req' = NoRequest,
           req' = NoRequest => pc' \in {"idle", "crashed"}
    PROVE  HInv'
<1> USE DEF HInv
<1> DEFINE own(h) == [fcall |-> IF c \in Symbol THEN b ELSE h, attrs |-> KindOf(c), token |-> h]
           rec == [cell |-> c, origin |-> b]
<1>1. PICK h \in Handle :
         /\ handle[h] = Free
         /\ handle' = [handle EXCEPT ![h] = rec]
         /\ token' = [token EXCEPT ![k] = own(h)]
  BY DEF Take
<1>2. rec \in HandleRec /\ rec # Free /\ rec.cell = c /\ rec.origin = b
  BY HookAssumption DEF HandleRec, Cell
<1>3. /\ own(h) \in TokenRec /\ own(h).fcall = IF c \in Symbol THEN b ELSE h
      /\ own(h).attrs = KindOf(c) /\ own(h).token = h
  BY ZeroedIs DEF TokenRec
<1>4. h # NoHandle  BY HookAssumption
<1> HIDE DEF own, rec
<1>5. /\ handle'[h] = rec /\ \A g \in Handle : g # h => handle'[g] = handle[g]
      /\ token'[k] = own(h) /\ \A l \in Token : l # k => token'[l] = token[l]
  BY <1>1 DEF HookTypes
<1>6. HookTypes'
  <2>1. token' \in [Token -> TokenRec]  BY <1>1, <1>3 DEF HookTypes
  <2>2. handle' \in [Handle -> HandleRec \cup {Free}]  BY <1>1, <1>2 DEF HookTypes
  <2> QED  BY <2>1, <2>2 DEF HookTypes
<1>7. Pending'  BY <1>5 DEF Pending, HookTypes, Request
<1>8. \A l \in Token : token[l].token # h  BY <1>1, <1>4, ZeroedIs DEF Tokens, Owns
<1>9. Tokens'
  <2>1. \A l \in Token : token'[l] \in {Zeroed, Hollow} \/ Owns(l)'
    <3> TAKE l \in Token
    <3>1. CASE l = k  BY <1>2, <1>3, <1>5, <3>1 DEF Owns
    <3>2. CASE l # k
      <4>1. token'[l] = token[l]  BY <1>5, <3>2
      <4>2. Owns(l) => Owns(l)'
        <5> SUFFICES ASSUME Owns(l) PROVE Owns(l)'  OBVIOUS
        <5>1. handle'[token[l].token] = handle[token[l].token]  BY <1>5, <1>8 DEF Owns
        <5> QED  BY <4>1, <5>1 DEF Owns
      <4> QED  BY <4>1, <4>2 DEF Tokens
    <3> QED  BY <3>1, <3>2
  <2>2. \A l, m \in Token : l # m /\ token'[l].token # NoHandle => token'[l].token # token'[m].token
    BY <1>3, <1>5, <1>8 DEF Tokens
  <2>3. \A g \in Handle : handle'[g] # Free => \E l \in Token : token'[l].token = g
    <3> TAKE g \in Handle
    <3>1. CASE g = h  BY <1>3, <1>5, <3>1
    <3>2. CASE g # h
      <4>1. g # NoHandle  BY HookAssumption
      <4> QED  BY <1>5, <3>2, <4>1, ZeroedIs DEF Tokens
    <3> QED  BY <3>1, <3>2
  <2> QED  BY <2>1, <2>2, <2>3 DEF Tokens
<1> QED  BY <1>6, <1>7, <1>9

\* A hook is taken off with its token, and its handle is freed.
LEMMA UninjectStep ==
    ASSUME HInv, NEW k \in Token, Uninject(k)
    PROVE  HInv'
<1> USE DEF HInv
<1>1. token[k].token # NoHandle  BY DEF Uninject
<1>2. Owns(k) /\ token[k] # Zeroed  BY <1>1, ZeroedIs DEF Tokens
<1>3. PICK h \in Handle : h = token[k].token /\ handle[h] # Free  BY <1>2 DEF Owns
<1>4. handle[h] \in HandleRec  BY <1>3 DEF HookTypes
<1>5. PICK c \in Cell : c = handle[h].cell  BY <1>4 DEF HandleRec, Cell
<1>6. /\ slot' = slot \/ (c \in Symbol /\ slot' = [slot EXCEPT ![c] = handle[h].origin])
      /\ handle' = [handle EXCEPT ![h] = Free]
      /\ token' = [token EXCEPT ![k] = Zeroed]
      /\ req # NoRequest => req.token # k
      /\ UNCHANGED <<pc, req>>
  BY <1>3, <1>5 DEF Uninject, Clear, Quiet, Unused, sizeVars
<1>7. slot' \in [Symbol -> Held]
  <2>1. CASE slot' = slot  BY <2>1 DEF HookTypes
  <2>2. CASE c \in Symbol /\ slot' = [slot EXCEPT ![c] = handle[h].origin]
    <3>1. handle[h].origin \in Held
      BY <1>4, <1>5, <2>2, HookAssumption DEF HandleRec
    <3> QED  BY <2>2, <3>1 DEF HookTypes
  <2> QED  BY <1>6, <2>1, <2>2
<1>8. /\ handle'[h] = Free /\ \A g \in Handle : g # h => handle'[g] = handle[g]
      /\ token'[k] = Zeroed /\ \A l \in Token : l # k => token'[l] = token[l]
  BY <1>6 DEF HookTypes
<1>9. HookTypes'  BY <1>6, <1>7, ZeroedIs DEF HookTypes
<1>10. Pending'  BY <1>6, <1>8 DEF Pending, HookTypes, Request
<1>11. h # NoHandle  BY <1>1, <1>3
<1>12. \A l \in Token : l # k => token[l].token # h  BY <1>3, <1>11 DEF Tokens
<1>13. Tokens'
  <2>1. \A l \in Token : token'[l] \in {Zeroed, Hollow} \/ Owns(l)'
    <3> TAKE l \in Token
    <3>1. CASE l = k  BY <1>8, <3>1
    <3>2. CASE l # k
      <4>1. token'[l] = token[l]  BY <1>8, <3>2
      <4>2. Owns(l) => Owns(l)'
        <5> SUFFICES ASSUME Owns(l) PROVE Owns(l)'  OBVIOUS
        <5>1. handle'[token[l].token] = handle[token[l].token]
          BY <1>8, <1>12, <3>2 DEF Owns
        <5> QED  BY <4>1, <5>1 DEF Owns
      <4> QED  BY <4>1, <4>2 DEF Tokens
    <3> QED  BY <3>1, <3>2
  <2>2. \A l, m \in Token : l # m /\ token'[l].token # NoHandle => token'[l].token # token'[m].token
    BY <1>8, ZeroedIs DEF Tokens
  <2>3. \A g \in Handle : handle'[g] # Free => \E l \in Token : token'[l].token = g
    BY <1>3, <1>8 DEF Tokens
  <2> QED  BY <2>1, <2>2, <2>3 DEF Tokens
<1> QED  BY <1>9, <1>10, <1>13

\* A step of the size lookup neither begins nor ends a call.
LEMMA SizeKeepsCall ==
    ASSUME SizeStep
    PROVE  pc \notin {"idle", "crashed"} /\ pc' # "idle"
  BY DEF SizeStep, ReadLine, NoLine, OpenFile, Locate, ReadFile, ReadFileOom, ReadNoFile,
     SkipSection, ReadSymbols, ReadSymbolsOom, Search, NoSymbol, Release, ReleaseCrashes

LEMMA NextHInv == HInv /\ [Next]_vars => HInv'
<1> SUFFICES ASSUME HInv, [Next]_vars PROVE HInv'  OBVIOUS
<1>1. CASE UNCHANGED vars  BY <1>1, OtherSteps DEF vars, sizeVars
<1>2. ASSUME NEW k \in Token, Call(k) PROVE HInv'
  <2>1. ASSUME NEW t \in Target, NEW d \in Detour, BeginInject(k, t, d) PROVE HInv'
    <3>1. req' = [token |-> k, target |-> t, detour |-> d] /\ UNCHANGED hookVars
          /\ token[k].attrs = 0
      BY <2>1 DEF BeginInject
    <3>2. req' \in Request /\ req'.token = k  BY <3>1 DEF Request
    <3>3. token[k] = Zeroed  BY <3>1, NoAttrs
    <3>4. pc' # "idle"  BY <2>1 DEF BeginInject, BeginSize, BeginSizeFails
    <3> QED  BY <3>1, <3>2, <3>3, <3>4, OtherSteps
  <2>2. ASSUME NEW s \in Symbol, NEW d \in Detour, InjectGot(k, s, d) PROVE HInv'
    <3>1. /\ Take(k, s, slot[s]) /\ UNCHANGED <<pc, req>> /\ token[k].attrs = 0
          /\ req # NoRequest => req.token # k
          /\ slot' = [slot EXCEPT ![s] = d]
      BY <2>2 DEF InjectGot, Quiet, Unused, sizeVars
    <3>2. token[k] = Zeroed  BY <3>1, NoAttrs
    <3>3. s \in Cell /\ slot[s] \in Held /\ slot' \in [Symbol -> Held]
      BY <3>1 DEF Cell, HInv, HookTypes, Held
    <3>4. (pc' = "idle" => req' = NoRequest) /\ (req' = NoRequest => pc' \in {"idle", "crashed"})
      BY <3>1 DEF HInv, HookTypes
    <3> QED  BY <3>1, <3>2, <3>3, <3>4, TakeStep
  <2>3. ASSUME NEW s \in Symbol, NEW d \in Detour, InjectGotAgain(k, s, d) PROVE HInv'
    <3>1. /\ token' = [token EXCEPT ![k] = Hollow] /\ UNCHANGED <<pc, slot, handle, req>>
          /\ token[k].attrs = 0 /\ (req # NoRequest => req.token # k)
      BY <2>3 DEF InjectGotAgain, Quiet, Unused, sizeVars
    <3>2. token[k] = Zeroed  BY <3>1, NoAttrs
    <3>3. token'[k] = Hollow /\ \A l \in Token : l # k => token'[l] = token[l]
      BY <3>1 DEF HInv, HookTypes
    <3>4. HookTypes'  BY <3>1, ZeroedIs DEF HInv, HookTypes
    <3>5. Pending'  BY <3>1, <3>3 DEF HInv, HookTypes, Pending, Request
    <3>6. Tokens'
      <4>1. \A l \in Token : token'[l].token = token[l].token  BY <3>2, <3>3, ZeroedIs
      <4>2. \A l \in Token : token'[l] \in {Zeroed, Hollow} \/ Owns(l)'
        BY <3>1, <3>3 DEF HInv, Tokens, Owns
      <4> QED  BY <3>1, <4>1, <4>2 DEF HInv, Tokens
    <3> QED  BY <3>4, <3>5, <3>6 DEF HInv
  <2>4. CASE UninjectHollow(k) \/ \E s \in Symbol : InjectGotNoMemory(k, s)
    BY <2>4, OtherSteps DEF UninjectHollow, InjectGotNoMemory
  <2>5. CASE Uninject(k)  BY <2>5, UninjectStep
  <2>6. CASE UninjectNothing(k)
    <3>1. token[k].attrs = 0 /\ token' = [token EXCEPT ![k] = Zeroed]
          /\ UNCHANGED <<pc, slot, handle, req>>
      BY <2>6 DEF UninjectNothing, Clear, sizeVars
    <3>2. token[k] = Zeroed  BY <3>1, NoAttrs
    <3>3. token' = token  BY <3>1, <3>2 DEF HInv, HookTypes
    <3> QED  BY <3>1, <3>3, OtherSteps DEF hookVars
  <2> QED  BY <1>2, <2>1, <2>2, <2>3, <2>4, <2>5, <2>6 DEF Call
<1>3. CASE SizeOfTarget  BY <1>3, SizeKeepsCall, OtherSteps DEF SizeOfTarget
<1>4. CASE InjectFails  BY <1>4, OtherSteps DEF InjectFails, EndSize
<1>5. CASE Inject
  <2>1. /\ Take(req.token, req.target, Null) /\ req' = NoRequest /\ pc' = "idle"
        /\ pc = "sized" /\ UNCHANGED slot
    BY <1>5 DEF Inject, EndSize
  <2>2. req \in Request /\ token[req.token] = Zeroed
    BY <2>1 DEF HInv, HookTypes, Pending
  <2>3. req.token \in Token /\ req.target \in Cell /\ req.target \notin Symbol
    BY <2>2, HookAssumption DEF Request, Cell
  <2>4. slot' \in [Symbol -> Held]  BY <2>1 DEF HInv, HookTypes
  <2> QED  BY <2>1, <2>2, <2>3, <2>4, TakeStep
<1>6. CASE Dlopen /\ UNCHANGED <<hookVars, req>>
  BY <1>6, OtherSteps DEF Dlopen, Load, Unload
<1> QED  BY <1>1, <1>2, <1>3, <1>4, <1>5, <1>6 DEF Next

THEOREM HookInvariant == Spec => []HInv
  BY InitHInv, NextHInv, PTL DEF Spec

\* Whatever a file holds and whichever calls fail, each token is all zero, hollow
\* because its detour was in the slot already, or owns one hook that nobody else
\* owns and says of which kind it is; every hook has its token.
THEOREM TokensOwnHooks == Spec => []TokenOwnsHook
<1>1. HInv => TokenOwnsHook
  <2> SUFFICES ASSUME HInv PROVE TokenOwnsHook  OBVIOUS
  <2>1. \A k \in Token : Owns(k) => token[k].token # NoHandle
    BY HookAssumption DEF Owns
  <2>2. ASSUME NEW h \in Handle
        PROVE  Cardinality({k \in Token : token[k].token = h}) =
                   IF handle[h] = Free THEN 0 ELSE 1
    <3>1. h # NoHandle  BY HookAssumption
    <3>2. CASE handle[h] = Free
      <4>1. {k \in Token : token[k].token = h} = {}
        BY <3>1, <3>2, ZeroedIs DEF HInv, Tokens, Owns
      <4> QED  BY <3>2, <4>1, FS_EmptySet
    <3>3. CASE handle[h] # Free
      <4>1. PICK k \in Token : token[k].token = h  BY <3>3 DEF HInv, Tokens
      <4>2. {l \in Token : token[l].token = h} = {k}  BY <3>1, <4>1 DEF HInv, Tokens
      <4> QED  BY <3>3, <4>2, FS_Singleton
    <3> QED  BY <3>2, <3>3
  <2> QED  BY <2>1, <2>2 DEF TokenOwnsHook, HInv, Tokens, Owns
<1> QED  BY <1>1, HookInvariant, PTL

----------------------------------------------------------------------------
(* What a size lookup opens and allocates *)

\* Steps at which the infos and lists of a lookup may be there
Reading == {"scan", "search", "fin"}

\* How far a lookup has got, and what its locals are there
Locals ==
    /\ disk \in [Path -> File \cup {NoFile}]
    /\ file \in File \cup {Null}
    /\ pc = "open" => path \in Path
    /\ pc \in {"idle", "maps", "open", "locate"} => info = Uninit
    /\ pc = "parse" => info = Null
    /\ pc \in {"scan", "search"} =>
          file # Null /\ info = ParseFile(Content[file]) /\ ~(info.ret < 0)
    /\ pc = "search" => list # Null
    /\ pc \in {"idle", "maps", "open", "locate", "parse", "scan"} => list = Null

\* One of each is there for each local that points to one.
Heap ==
    pc # "crashed" =>
        heap = [stream |-> IF \/ pc = "maps"
                              \/ pc \in {"locate", "parse"} \cup Reading /\ file # Null
                           THEN 1 ELSE 0,
                info |-> IF pc \in Reading /\ info \notin {Null, Uninit} THEN 1 ELSE 0,
                list |-> IF pc \in Reading /\ list # Null THEN 1 ELSE 0]

LEMMA InitHeap == Init => Locals /\ Heap
<1> SUFFICES ASSUME Init PROVE Locals /\ Heap  OBVIOUS
<1>1. disk \in [Path -> File \cup {NoFile}]  BY SizeAssumption DEF Init, InitSize
<1> QED  BY <1>1 DEF Init, InitSize, Idle, Locals, Heap, Reading

\* A line is that of a mapping.
LEMMA LineIs ==
    ASSUME NEW l \in Ahead
    PROVE  /\ l.start >= cursor
           /\ \/ \E a \in Anonymous : l = Line(a, NoPath)
              \/ \E o \in Object : IsLoaded(o) /\ \E a \in Areas[o] : l = Line(a, PathOf[o])
<1> DEFINE here == {x \in Object : IsLoaded(x)}
           of(o) == {Line(a, PathOf[o]) : a \in Areas[o]}
<1>1. /\ l \in UNION {of(o) : o \in here} \/ l \in {Line(a, NoPath) : a \in Anonymous}
      /\ l.start >= cursor
  BY DEF Ahead, Lines
<1>2. ASSUME l \in UNION {of(o) : o \in here}
      PROVE  \E o \in here : \E a \in Areas[o] : l = Line(a, PathOf[o])
  <2>1. PICK S \in {of(o) : o \in here} : l \in S  BY <1>2
  <2>2. PICK o \in here : S = of(o)  BY <2>1
  <2> QED  BY <2>1, <2>2
<1> QED  BY <1>1, <1>2

LEMMA LineTypes ==
    ASSUME NEW l \in Ahead
    PROVE  l.start \in Nat /\ l.end \in Nat /\ l.path \in Path \cup {NoPath}
<1>1. CASE \E a \in Anonymous : l = Line(a, NoPath)
  <2>1. \A a \in Anonymous : a.start \in Nat /\ a.end \in Nat
    BY SizeAssumption DEF Mapping
  <2> QED  BY <1>1, <2>1 DEF Line
<1>2. CASE \E o \in Object : \E a \in Areas[o] : l = Line(a, PathOf[o])
  <2>1. \A o \in Object : /\ PathOf[o] \in Path
                         /\ \A a \in Areas[o] : a.start \in Nat /\ a.end \in Nat
    BY SizeAssumption DEF Mapping
  <2> QED  BY <1>2, <2>1 DEF Line
<1> QED  BY <1>1, <1>2, LineIs

\* The locals and what is in a file do not matter to the steps up to its parsing.
LEMMA EarlySteps ==
    ASSUME Locals, Heap,
           \/ ReadLine \/ NoLine \/ OpenFile \/ Locate
    PROVE  Locals' /\ Heap'
<1>1. CASE ReadLine
  <2>1. PICK l \in Ahead :
           IF Covers(l)
           THEN /\ path' = l.path /\ pc' = "open"
                /\ heap' = [heap EXCEPT !.stream = @ - 1]
           ELSE UNCHANGED <<path, pc, heap>>
    BY <1>1 DEF ReadLine
  <2>2. pc = "maps" /\ UNCHANGED <<disk, file, info, list>>  BY <1>1 DEF ReadLine
  <2>3. Covers(l) => l.path \in Path  BY LineTypes DEF Covers
  <2> QED  BY <2>1, <2>2, <2>3 DEF Locals, Heap, Reading
<1>2. CASE NoLine  BY <1>2 DEF NoLine, Locals, Heap, Reading
<1>3. CASE OpenFile
  <2>1. disk[path] \in File \cup {NoFile}  BY <1>3 DEF OpenFile, Locals
  <2>2. NoFile \notin File  BY SizeAssumption
  <2> QED  BY <1>3, <2>1, <2>2, NullAssumption DEF OpenFile, Locals, Heap, Reading
<1>4. CASE Locate  BY <1>4, NullAssumption DEF Locate, Locals, Heap, Reading
<1> QED  BY <1>1, <1>2, <1>3, <1>4

LEMMA ParseSteps ==
    ASSUME Locals, Heap, ReadFile \/ ReadFileOom \/ ReadNoFile
    PROVE  Locals' /\ Heap'
<1>1. CASE ReadFile
  <2> DEFINE r == ParseFile(Content[file])
  <2>1. /\ pc = "parse" /\ file \in File /\ file # Null /\ info = Null /\ list = Null
        /\ UNCHANGED <<disk, file, path, reloc, list>>
    BY <1>1 DEF ReadFile, Locals
  <2>2. /\ info' = IF r.ret < 0 THEN Null ELSE r
        /\ heap' = IF r.ret < 0 THEN heap ELSE [heap EXCEPT !.info = @ + 1]
        /\ pc' = IF r.ret # 0 THEN "fin" ELSE "scan"
    BY <1>1 DEF ReadFile
  <2>3. ~(r.ret < 0) => r \notin {Null, Uninit}  BY <2>1, NullAssumption
  <2>4. heap = [stream |-> 1, info |-> 0, list |-> 0]  BY <2>1 DEF Heap, Reading
  <2> HIDE DEF r
  <2> QED  BY <2>1, <2>2, <2>3, <2>4, NullAssumption DEF Locals, Heap, Reading, r
<1>2. CASE ReadFileOom  BY <1>2, NullAssumption DEF ReadFileOom, Locals, Heap, Reading
<1>3. CASE ReadNoFile  BY <1>3 DEF ReadNoFile, Locals, Heap, locals
<1> QED  BY <1>1, <1>2, <1>3

LEMMA SymbolSteps ==
    ASSUME Locals, Heap,
           \/ SkipSection \/ ReadSymbols \/ ReadSymbolsOom \/ Search \/ NoSymbol
    PROVE  Locals' /\ Heap'
<1>1. CASE SkipSection \/ ReadSymbolsOom \/ NoSymbol
  BY <1>1, NullAssumption DEF SkipSection, ReadSymbolsOom, NoSymbol, Locals, Heap, Reading
<1>2. CASE ReadSymbols
  <2> DEFINE s == ParseSymbols(Content[file], info, sec)
  <2>1. /\ pc = "scan" /\ file \in File /\ sec \in DOMAIN info.shdr /\ list = Null
        /\ info = ParseFile(Content[file]) /\ ~(info.ret < 0)
        /\ UNCHANGED <<disk, file, path, reloc, info>>
    BY <1>2 DEF ReadSymbols, Locals
  <2>2. IF s.ret < 0 THEN UNCHANGED <<pc, list, heap>>
        ELSE list' = s.list /\ heap' = [heap EXCEPT !.list = @ + 1] /\ pc' = "search"
    BY <1>2 DEF ReadSymbols
  <2>3. ~(s.ret < 0) => s.list # Null  BY <2>1, NullAssumption
  <2> HIDE DEF s
  <2> QED  BY <2>1, <2>2, <2>3 DEF Locals, Heap, Reading
<1>3. CASE Search
  <2>1. pc = "search" /\ UNCHANGED <<disk, file, path, reloc, info>>  BY <1>3 DEF Search
  <2>2. \/ pc' = "fin" /\ UNCHANGED <<list, heap>>
        \/ pc' = "scan" /\ list' = Null /\ heap' = [heap EXCEPT !.list = @ - 1]
    BY <1>3 DEF Search
  <2> QED  BY <2>1, <2>2, NullAssumption DEF Locals, Heap, Reading
<1> QED  BY <1>1, <1>2, <1>3

LEMMA EndSteps ==
    ASSUME Locals, Heap, Release \/ ReleaseCrashes \/ EndSize
    PROVE  Locals' /\ Heap'
<1>1. CASE Release  BY <1>1 DEF Release, Locals, Heap, Reading, locals
<1>2. CASE ReleaseCrashes  BY <1>2 DEF ReleaseCrashes, Locals, Heap, locals
<1>3. CASE EndSize  BY <1>3 DEF EndSize, Locals, Heap, Reading
<1> QED  BY <1>1, <1>2, <1>3

LEMMA NextHeap == Locals /\ Heap /\ [Next]_vars => Locals' /\ Heap'
<1> SUFFICES ASSUME Locals, Heap, [Next]_vars PROVE Locals' /\ Heap'  OBVIOUS
<1>1. CASE UNCHANGED <<disk, pc, locals, heap>>
  BY <1>1 DEF Locals, Heap, locals
<1>2. CASE UNCHANGED vars  BY <1>1, <1>2 DEF vars, sizeVars
<1>3. ASSUME NEW k \in Token, Call(k) PROVE Locals' /\ Heap'
  <2>1. ASSUME NEW t \in Target, NEW d \in Detour, BeginInject(k, t, d)
        PROVE  Locals' /\ Heap'
    BY <2>1, NullAssumption DEF BeginInject, BeginSize, BeginSizeFails, Locals, Heap, Reading
  <2>2. CASE UNCHANGED sizeVars  BY <1>1, <2>2 DEF sizeVars
  <2>3. ASSUME pc' = "crashed", UNCHANGED <<disk, locals, heap>> PROVE Locals' /\ Heap'
    BY <2>3 DEF Locals, Heap, locals
  <2> QED
    BY <1>3, <2>1, <2>2, <2>3
       DEF Call, InjectGot, InjectGotAgain, InjectGotNoMemory, Uninject, UninjectHollow,
           UninjectNothing
<1>4. CASE SizeOfTarget
  BY <1>4, EarlySteps, ParseSteps, SymbolSteps, EndSteps DEF SizeOfTarget, SizeStep
<1>5. CASE InjectFails \/ Inject  BY <1>5, EndSteps DEF InjectFails, Inject
<1>6. CASE Dlopen  BY <1>1, <1>6 DEF Dlopen, Load, Unload
<1> QED  BY <1>2, <1>3, <1>4, <1>5, <1>6 DEF Next

\* Whatever a file holds and whichever reads and allocations fail, a lookup that
\* returns has given back what it opened and allocated, once.
THEOREM LookupReleasesOnce == Spec => []ReleasedOnce
<1>1. Locals /\ Heap => ReleasedOnce  BY DEF Locals, Heap, ReleasedOnce, Reading
<1> QED  BY <1>1, InitHeap, NextHeap, PTL DEF Spec

----------------------------------------------------------------------------
(* The types of a lookup *)

LookupTypes ==
    /\ loaded \in Seq(Object) /\ disk \in Disks
    /\ pc \in {"idle", "maps", "open", "locate", "parse", "scan", "search", "fin",
               "sized", "crashed"}
    /\ pc = "idle" => Idle
    /\ target \in Target \cup {Unknown}
    /\ pc \notin {"idle", "crashed"} => target # Unknown
    /\ path \in Path \cup {NoPath}
    /\ cursor \in Nat /\ sec \in Nat /\ oom \in BOOLEAN
    /\ result \in Nat \cup {-1, Unknown}
    /\ pc \in {"fin", "sized"} => result # Unknown

\* What is searched are the symbols of the section.
Listing ==
    pc = "search" => /\ ~(ParseSymbols(Content[file], info, sec).ret < 0)
                     /\ list = ParseSymbols(Content[file], info, sec).list

\* The symbols of a table that was read are numbered from 1.
LEMMA SymbolsNumbered ==
    ASSUME NEW c, NEW i, NEW n, ~(ParseSymbols(c, i, n).ret < 0)
    PROVE  \E num : DOMAIN ParseSymbols(c, i, n).list = 1 .. num
<1> DEFINE sh == i.shdr[n]
           layout == SymLayout(i.class)
           stride == SizeOf(layout)
           num == IntOf(sh["sh_size"] \div sh["sh_entsize"])
           all == [j \in 1 .. num |-> Struct(c, sh["sh_offset"] + (j - 1) * stride, layout, i.data)]
<1>1. Unreadable.ret = -1  BY DEF Unreadable
<1>2. ParseSymbols(c, i, n) # Unreadable  BY <1>1
<1>3. ParseSymbols(c, i, n) = Unreadable \/ ParseSymbols(c, i, n) = [ret |-> num, list |-> all]
  BY Zenon DEF ParseSymbols
<1>4. DOMAIN all = 1 .. num  OBVIOUS
<1> HIDE DEF all, num
<1>5. ParseSymbols(c, i, n) = [ret |-> num, list |-> all]  BY <1>2, <1>3
<1> QED  BY <1>4, <1>5

\* A symbol that was read has a size, a number of the file or Garbage.
LEMMA SymbolSizes ==
    ASSUME NEW f \in File, NEW i, NEW n,
           ~(ParseSymbols(Content[f], i, n).ret < 0),
           NEW j \in DOMAIN ParseSymbols(Content[f], i, n).list
    PROVE  ParseSymbols(Content[f], i, n).list[j]["st_size"] \in Nat \cup {-1}
<1> DEFINE c == Content[f]
           s == ParseSymbols(c, i, n)
           layout == SymLayout(i.class)
           stride == SizeOf(layout)
           at(k) == i.shdr[n]["sh_offset"] + (k - 1) * stride
<1>1. \A p, w, d : Number(c, p, w, d) \in Nat \cup {-1}
  <2>1. \A p \in DOMAIN c.cells : c.cells[p] \in Nat  BY ElfAssumption
  <2> QED  BY <2>1 DEF Number, Garbage
<1>2. "st_size" \in {layout[k][1] : k \in DOMAIN layout}
  <2>1. SymLayout32[3][1] = "st_size" /\ 3 \in DOMAIN SymLayout32  BY DEF SymLayout32
  <2>2. SymLayout64[6][1] = "st_size" /\ 6 \in DOMAIN SymLayout64  BY DEF SymLayout64
  <2> QED  BY <2>1, <2>2 DEF SymLayout
<1>3. \A k : Struct(c, k, layout, i.data)["st_size"] \in Nat \cup {-1}
  <2> HIDE DEF c, layout
  <2> QED  BY <1>1, <1>2 DEF Struct
<1>4. PICK num : s.list = [k \in 1 .. num |-> Struct(c, at(k), layout, i.data)]
  <2>1. Unreadable.ret < 0  BY DEF Unreadable
  <2> QED  BY <2>1 DEF ParseSymbols
<1>5. s.list[j] = Struct(c, at(j), layout, i.data)
  <2> HIDE DEF at, layout
  <2> QED  BY <1>4
<1> HIDE DEF at, layout, stride
<1> QED  BY <1>3, <1>5

LEMMA RemoveAtType ==
    ASSUME NEW s \in Seq(Object), NEW i \in DOMAIN s
    PROVE  /\ RemoveAt(s, i) \in Seq(Object)
           /\ \A j \in DOMAIN s : j # i => \E k \in DOMAIN RemoveAt(s, i) : RemoveAt(s, i)[k] = s[j]
           /\ \A k \in DOMAIN RemoveAt(s, i) : \E j \in DOMAIN s : RemoveAt(s, i)[k] = s[j]
<1>1. PICK n \in Nat : n = Len(s) /\ DOMAIN s = 1 .. n  BY LenProperties
<1>2. i \in 1 .. n /\ \A j \in 1 .. n : s[j] \in Object  BY <1>1, ElementOfSeq
<1> DEFINE a == SubSeq(s, 1, i - 1)
           b == SubSeq(s, i + 1, n)
<1>3. /\ a \in Seq(Object) /\ Len(a) = i - 1 /\ \A j \in 1 .. i - 1 : a[j] = s[j]
  <2>1. i - 1 \in Nat /\ \A j \in 1 .. i - 1 : s[j] \in Object  BY <1>2
  <2>2. /\ a \in Seq(Object) /\ Len(a) = IF 1 <= i - 1 THEN (i - 1) - 1 + 1 ELSE 0
        /\ \A j \in 1 .. (i - 1) - 1 + 1 : a[j] = s[1 + j - 1]
    BY <2>1, SubSeqProperties
  <2>3. /\ (i - 1) - 1 + 1 = i - 1 /\ (1 <= i - 1 \/ i - 1 = 0)
        /\ \A j \in 1 .. i - 1 : 1 + j - 1 = j
    BY <1>2
  <2> QED  BY <2>2, <2>3
<1>4. /\ b \in Seq(Object) /\ Len(b) = n - i /\ \A j \in 1 .. n - i : b[j] = s[i + j]
  <2>1. i + 1 \in Int /\ n \in Int /\ \A j \in i + 1 .. n : s[j] \in Object  BY <1>2
  <2>2. /\ b \in Seq(Object) /\ Len(b) = IF i + 1 <= n THEN n - (i + 1) + 1 ELSE 0
        /\ \A j \in 1 .. n - (i + 1) + 1 : b[j] = s[i + 1 + j - 1]
    BY <2>1, SubSeqProperties
  <2>3. /\ n - (i + 1) + 1 = n - i /\ (i + 1 <= n \/ n - i = 0)
        /\ \A j \in 1 .. n - i : i + 1 + j - 1 = i + j
    BY <1>2
  <2> QED  BY <2>2, <2>3
<1>5. RemoveAt(s, i) = a \o b  BY <1>1 DEF RemoveAt
<1> HIDE DEF a, b
<1>6. /\ a \o b \in Seq(Object) /\ Len(a \o b) = Len(a) + Len(b)
      /\ \A k \in 1 .. Len(a) + Len(b) :
            (a \o b)[k] = IF k <= Len(a) THEN a[k] ELSE b[k - Len(a)]
  BY <1>3, <1>4, ConcatProperties
<1>7. PICK r \in Seq(Object) : r = a \o b  BY <1>6
<1>8. Len(r) = (i - 1) + (n - i) /\ (i - 1) + (n - i) = n - 1
  BY <1>2, <1>3, <1>4, <1>6, <1>7
<1>9. DOMAIN r = 1 .. n - 1  BY <1>7, <1>8, LenProperties
<1>10. \A k \in 1 .. n - 1 : r[k] = IF k <= i - 1 THEN s[k] ELSE s[k + 1]
  <2> SUFFICES ASSUME NEW k \in 1 .. n - 1
               PROVE  r[k] = IF k <= i - 1 THEN s[k] ELSE s[k + 1]
    OBVIOUS
  <2>1. r[k] = IF k <= i - 1 THEN a[k] ELSE b[k - (i - 1)]
    BY <1>3, <1>4, <1>6, <1>7, <1>8
  <2>2. CASE k <= i - 1  BY <1>2, <1>3, <2>1, <2>2
  <2>3. CASE ~(k <= i - 1)
    <3>1. k - (i - 1) \in 1 .. n - i /\ i + (k - (i - 1)) = k + 1  BY <1>2, <2>3
    <3> QED  BY <1>4, <2>1, <2>3, <3>1
  <2> QED  BY <2>2, <2>3
<1>11. \A k \in 1 .. n - 1 : k \in 1 .. n /\ k + 1 \in 1 .. n  BY <1>1
<1>12. ASSUME NEW j \in 1 .. n, j # i PROVE \E k \in 1 .. n - 1 : r[k] = s[j]
  <2>1. CASE j < i
    <3>1. j \in 1 .. n - 1 /\ j <= i - 1  BY <1>2, <2>1
    <3> QED  BY <1>10, <3>1
  <2>2. CASE j > i
    <3>1. j - 1 \in 1 .. n - 1 /\ ~(j - 1 <= i - 1) /\ j - 1 + 1 = j  BY <1>2, <2>2
    <3> QED  BY <1>10, <3>1
  <2> QED  BY <1>2, <1>12, <2>1, <2>2
<1>13. \A k \in 1 .. n - 1 : \E j \in 1 .. n : r[k] = s[j]  BY <1>10, <1>11
<1>14. RemoveAt(s, i) = r  BY <1>5, <1>7
<1>15. \A j \in DOMAIN s : j # i => \E k \in DOMAIN r : r[k] = s[j]
  BY <1>1, <1>9, <1>12
<1>16. \A k \in DOMAIN r : \E j \in DOMAIN s : r[k] = s[j]  BY <1>1, <1>9, <1>13
<1> QED  BY <1>7, <1>14, <1>15, <1>16, Zenon

\* Loading and unloading concerns plugins only.
LEMMA DlopenKeeps ==
    ASSUME loaded \in Seq(Object), Dlopen
    PROVE  /\ loaded' \in Seq(Object)
           /\ \A o \in Object \ Plugin : IsLoaded(o)' <=> IsLoaded(o)
<1>1. ASSUME NEW p \in Plugin, Load(p)
      PROVE  /\ loaded' \in Seq(Object)
             /\ \A o \in Object \ Plugin : IsLoaded(o)' <=> IsLoaded(o)
  <2>1. p \in Object /\ loaded' = Append(loaded, p)  BY <1>1, SizeAssumption DEF Load
  <2>2. PICK n \in Nat : n = Len(loaded) /\ DOMAIN loaded = 1 .. n  BY LenProperties
  <2>3. /\ loaded' \in Seq(Object) /\ Len(loaded') = n + 1
        /\ loaded'[n + 1] = p /\ \A i \in 1 .. n : loaded'[i] = loaded[i]
    BY <2>1, <2>2, AppendProperties
  <2>4. DOMAIN loaded' = 1 .. n + 1  BY <2>3, LenProperties
  <2>5. /\ \A i \in 1 .. n : i \in 1 .. n + 1
        /\ \A i \in 1 .. n + 1 : i = n + 1 \/ i \in 1 .. n
    BY <2>2
  <2> QED  BY <2>2, <2>3, <2>4, <2>5 DEF IsLoaded
<1>2. ASSUME NEW p \in Plugin, Unload(p)
      PROVE  /\ loaded' \in Seq(Object)
             /\ \A o \in Object \ Plugin : IsLoaded(o)' <=> IsLoaded(o)
  <2>1. PICK i \in DOMAIN loaded : loaded[i] = p /\ loaded' = RemoveAt(loaded, i)
    BY <1>2 DEF Unload
  <2>2. /\ loaded' \in Seq(Object)
        /\ \A j \in DOMAIN loaded : j # i => \E k \in DOMAIN loaded' : loaded'[k] = loaded[j]
        /\ \A k \in DOMAIN loaded' : \E j \in DOMAIN loaded : loaded'[k] = loaded[j]
    BY <2>1, RemoveAtType
  <2>3. ASSUME NEW o \in Object \ Plugin PROVE IsLoaded(o)' <=> IsLoaded(o)
    <3>1. \A j \in DOMAIN loaded : loaded[j] = o => j # i  BY <2>1
    <3> QED  BY <2>2, <3>1 DEF IsLoaded
  <2> QED  BY <2>2, <2>3
<1> QED  BY <1>1, <1>2 DEF Dlopen

LEMMA InitLookup == Init => LookupTypes /\ Listing
<1> SUFFICES ASSUME Init PROVE LookupTypes /\ Listing  OBVIOUS
<1>1. Start \in Seq(Object)  BY SizeAssumption
<1> QED  BY <1>1 DEF Init, InitSize, Idle, LookupTypes, Listing

LEMMA EarlyTypes ==
    ASSUME LookupTypes, Locals, \/ ReadLine \/ NoLine \/ OpenFile \/ Locate
    PROVE  LookupTypes' /\ Listing'
<1>1. CASE ReadLine
  <2>1. PICK l \in Ahead : \/ path' = l.path /\ pc' = "open" /\ UNCHANGED cursor
                           \/ cursor' = l.end /\ UNCHANGED <<path, pc>>
    BY <1>1 DEF ReadLine
  <2>2. l.end \in Nat /\ l.path \in Path \cup {NoPath}  BY LineTypes
  <2>3. /\ pc = "maps"
        /\ UNCHANGED <<loaded, disk, target, sec, result, oom>>
    BY <1>1 DEF ReadLine
  <2> QED  BY <2>1, <2>2, <2>3 DEF LookupTypes, Listing
<1>2. CASE NoLine
  <2>1. Unknown # -1  BY SizeAssumption
  <2> QED  BY <1>2, <2>1 DEF NoLine, LookupTypes, Listing
<1>3. CASE OpenFile  BY <1>3 DEF OpenFile, LookupTypes, Listing
<1>4. CASE Locate
  <2>1. Unknown # -1  BY SizeAssumption
  <2> QED  BY <1>4, <2>1 DEF Locate, LookupTypes, Listing
<1> QED  BY <1>1, <1>2, <1>3, <1>4

LEMMA ReadTypes ==
    ASSUME LookupTypes, Locals, Listing,
           \/ ReadFile \/ ReadFileOom \/ ReadNoFile
           \/ SkipSection \/ ReadSymbols \/ ReadSymbolsOom \/ Search \/ NoSymbol
           \/ Release \/ ReleaseCrashes
    PROVE  LookupTypes' /\ Listing'
<1>1. Unknown # -1 /\ Unknown \notin Nat  BY SizeAssumption
<1>2. CASE ReadFile  BY <1>1, <1>2 DEF ReadFile, LookupTypes, Listing
<1>3. CASE ReadFileOom \/ NoSymbol
  BY <1>1, <1>3 DEF ReadFileOom, NoSymbol, LookupTypes, Listing
<1>4. CASE ReadNoFile \/ Release \/ ReleaseCrashes
  BY <1>4 DEF ReadNoFile, Release, ReleaseCrashes, LookupTypes, Listing, locals
<1>5. CASE SkipSection \/ ReadSymbolsOom
  <2>1. /\ pc = "scan" /\ pc' = "scan" /\ sec' = sec + 1
        /\ UNCHANGED <<loaded, disk, target, cursor, path, result>>
    BY <1>5 DEF SkipSection, ReadSymbolsOom
  <2>2. oom' = oom \/ oom' = TRUE  BY <1>5 DEF SkipSection, ReadSymbolsOom
  <2>3. oom' \in BOOLEAN  BY <2>2, Zenon DEF LookupTypes
  <2> QED  BY <2>1, <2>3 DEF LookupTypes, Listing
<1>6. CASE ReadSymbols
  <2>1. LookupTypes'  BY <1>6 DEF ReadSymbols, LookupTypes
  <2>2. UNCHANGED <<file, info>>  BY <1>6 DEF ReadSymbols
  <2>3. Listing'  BY <1>6, <2>2 DEF ReadSymbols, Listing
  <2> QED  BY <2>1, <2>3
<1>7. CASE Search
  <2>1. \A i \in DOMAIN list : list[i]["st_size"] \in Nat \cup {-1}
    <3>1. file \in File  BY <1>7 DEF Search, Locals
    <3>2. /\ ~(ParseSymbols(Content[file], info, sec).ret < 0)
          /\ list = ParseSymbols(Content[file], info, sec).list
      BY <1>7 DEF Search, Listing
    <3> QED  BY <3>1, <3>2, SymbolSizes
  <2>2. /\ pc = "search" /\ UNCHANGED <<loaded, disk, target, cursor, path, oom>>
        /\ \/ pc' = "scan" /\ sec' = sec + 1 /\ UNCHANGED result
           \/ pc' = "fin" /\ UNCHANGED sec /\ \E i \in DOMAIN list : result' = list[i]["st_size"]
    BY <1>7 DEF Search
  <2>3. CASE pc' = "scan" /\ sec' = sec + 1 /\ UNCHANGED result
    BY <2>2, <2>3 DEF LookupTypes, Listing
  <2>4. CASE pc' = "fin" /\ UNCHANGED sec /\ \E i \in DOMAIN list : result' = list[i]["st_size"]
    <3>1. result' \in Nat \cup {-1} /\ result' # Unknown  BY <1>1, <2>1, <2>4
    <3> QED  BY <2>2, <2>4, <3>1 DEF LookupTypes, Listing
  <2> QED  BY <2>2, <2>3, <2>4
<1> QED  BY <1>2, <1>3, <1>4, <1>5, <1>6, <1>7

LEMMA NextLookup ==
    LookupTypes /\ Listing /\ Locals /\ [Next]_vars => LookupTypes' /\ Listing'
<1> SUFFICES ASSUME LookupTypes, Listing, Locals, [Next]_vars
             PROVE  LookupTypes' /\ Listing'
  OBVIOUS
<1>1. CASE UNCHANGED sizeVars
  BY <1>1 DEF LookupTypes, Listing, Idle, sizeVars, locals
<1>2. ASSUME NEW k \in Token, Call(k) PROVE LookupTypes' /\ Listing'
  <2>1. ASSUME NEW t \in Target, NEW d \in Detour, BeginInject(k, t, d)
        PROVE  LookupTypes' /\ Listing'
    <3>1. Unknown # -1 /\ t # Unknown  BY SizeAssumption
    <3>2. CASE BeginSize(t)  BY <3>1, <3>2 DEF BeginSize, LookupTypes, Listing
    <3>3. CASE BeginSizeFails(t)  BY <3>1, <3>3 DEF BeginSizeFails, LookupTypes, Listing
    <3> QED  BY <2>1, <3>2, <3>3 DEF BeginInject
  <2>2. ASSUME pc' = "crashed", UNCHANGED <<loaded, disk, locals, heap>>
        PROVE  LookupTypes' /\ Listing'
    BY <2>2 DEF LookupTypes, Listing, locals
  <2> QED
    BY <1>1, <1>2, <2>1, <2>2
       DEF Call, InjectGot, InjectGotAgain, InjectGotNoMemory, Uninject, UninjectHollow,
           UninjectNothing
<1>3. CASE SizeOfTarget  BY <1>3, EarlyTypes, ReadTypes DEF SizeOfTarget, SizeStep
<1>4. CASE InjectFails \/ Inject
  <2>1. EndSize  BY <1>4 DEF InjectFails, Inject
  <2>2. pc' = "idle" /\ Idle' /\ UNCHANGED <<loaded, disk>>  BY <2>1 DEF EndSize, Idle
  <2>3. /\ path' \in Path \cup {NoPath} /\ cursor' \in Nat /\ sec' \in Nat
        /\ oom' \in BOOLEAN /\ result' \in Nat \cup {-1, Unknown} /\ target' = Unknown
    BY <2>1 DEF EndSize
  <2> QED  BY <2>2, <2>3 DEF LookupTypes, Listing
<1>5. CASE Dlopen
  <2>1. loaded' \in Seq(Object)  BY <1>5, DlopenKeeps DEF LookupTypes
  <2>2. UNCHANGED <<disk, pc, locals, heap>>  BY <1>5 DEF Dlopen, Load, Unload
  <2> QED  BY <2>1, <2>2 DEF LookupTypes, Listing, Idle, locals
<1> QED  BY <1>1, <1>2, <1>3, <1>4, <1>5 DEF Next, vars

THEOREM LookupInvariant == Spec => [](LookupTypes /\ Listing /\ Locals /\ Heap)
<1>1. LookupTypes /\ Listing /\ Locals /\ Heap /\ [Next]_vars
      => (LookupTypes /\ Listing /\ Locals /\ Heap)'
  BY NextLookup, NextHeap
<1> QED  BY <1>1, InitLookup, InitHeap, PTL DEF Spec

\* Type correctness of the whole interface with the lookup in all its steps,
\* whatever files, objects, functions, symbols and tokens there are.
THEOREM UHookTypes == Spec => []TypeOK
<1>1. HInv /\ LookupTypes /\ Locals => TypeOK
  BY DEF HInv, HookTypes, LookupTypes, Locals, TypeOK
<1> QED  BY <1>1, HookInvariant, LookupInvariant, PTL

----------------------------------------------------------------------------
(* The two lookups of an address agree *)

\* How far the lookup of an address in object o has got: the mapping with the
\* address is still ahead, then its path is known, then the load address too.
Found(o) ==
    /\ path \in {NoPath, PathOf[o]}
    /\ pc = "maps" =>
          /\ path = NoPath
          /\ \A a \in Areas[o] : a.start <= target /\ target < a.end => cursor <= a.start
    /\ pc = "sized" /\ path = NoPath => cursor = 0
    /\ pc \in {"open", "locate", "parse", "scan", "search", "fin"} => path = PathOf[o]
    /\ pc \in {"parse", "scan", "search", "fin"} => reloc = Base[o]

Searched(o) == IsLoaded(o) /\ target # Unknown /\ Inside(o, target)

Agreed == \A o \in Object : Searched(o) => Found(o)

\* The line read next is either that of the object or one below it that is passed.
LEMMA NextLine ==
    ASSUME LaidOut, NEW o \in Object, IsLoaded(o), target \in Target, cursor \in Nat,
           NEW a \in Areas[o], a.start <= target, target < a.end, cursor <= a.start,
           NEW l \in Ahead, \A other \in Ahead : l.start <= other.start
    PROVE  IF Covers(l) THEN l.path = PathOf[o] ELSE l.end <= a.start
<1>1. a \in Mapping /\ PathOf[o] \in Path /\ NoPath \notin Path /\ target \in Nat
  BY SizeAssumption
<1>2. a.start \in Nat /\ a.end \in Nat  BY <1>1 DEF Mapping
<1>3. Line(a, PathOf[o]) \in Ahead
  <2>1. Line(a, PathOf[o]) \in Lines  BY DEF Lines
  <2> QED  BY <2>1 DEF Ahead, Line
<1>4. l.start <= a.start  BY <1>3 DEF Line
<1>5. Inside(o, target)  BY DEF Inside
<1>6. CASE \E b \in Anonymous : l = Line(b, NoPath)
  <2>1. PICK b \in Anonymous : l = Line(b, NoPath)  BY <1>6
  <2>2. b.start \in Nat /\ b.end \in Nat  BY SizeAssumption DEF Mapping
  <2>3. a.end <= b.start \/ b.end <= a.start  BY <1>5 DEF LaidOut
  <2>4. l.start = b.start /\ l.end = b.end /\ l.path = NoPath  BY <2>1 DEF Line
  <2> QED  BY <1>1, <1>2, <1>4, <2>2, <2>3, <2>4 DEF Covers
<1>7. CASE \E p \in Object : \E b \in Areas[p] : l = Line(b, PathOf[p])
  <2>0. PICK p \in Object : \E b \in Areas[p] : l = Line(b, PathOf[p])  BY <1>7
  <2>1. PICK b \in Areas[p] : l = Line(b, PathOf[p])  BY <2>0
  <2>2. b.start \in Nat /\ b.end \in Nat /\ PathOf[p] # NoPath
    BY SizeAssumption DEF Mapping
  <2>3. \/ p = o /\ b = a
        \/ a.end <= b.start
        \/ b.end <= a.start /\ (p # o => b.end # target)
    BY <1>5 DEF LaidOut
  <2>4. l.start = b.start /\ l.end = b.end /\ l.path = PathOf[p]  BY <2>1 DEF Line
  <2>5. Covers(l) <=> b.start <= target /\ target <= b.end  BY <2>2, <2>4 DEF Covers
  <2> QED  BY <1>1, <1>2, <1>4, <2>2, <2>3, <2>4, <2>5
<1> QED  BY <1>6, <1>7, LineIs

LEMMA OwnLine ==
    ASSUME NEW o \in Object, IsLoaded(o), NEW a \in Areas[o], cursor <= a.start
    PROVE  Ahead # {}
<1>1. Line(a, PathOf[o]) \in Lines  BY DEF Lines
<1> QED  BY <1>1 DEF Ahead, Line

\* The first object with the address is the one it lies in.
LEMMA RelocationIs ==
    ASSUME LaidOut, loaded \in Seq(Object), target \in Target,
           NEW o \in Object, IsLoaded(o), Inside(o, target)
    PROVE  Relocation = Base[o]
<1> DEFINE hits == {i \in DOMAIN loaded : HasAddress(loaded[i], target)}
           least == CHOOSE i \in hits : \A j \in hits : i <= j
<1>1. \A i \in DOMAIN loaded : i \in Nat /\ loaded[i] \in Object
  BY LenProperties, ElementOfSeq
<1>2. \A i \in DOMAIN loaded : HasAddress(loaded[i], target) <=> loaded[i] = o
  <2>1. \A p \in Object : HasAddress(p, target) <=> p = o  BY DEF LaidOut, HasAddress
  <2> QED  BY <1>1, <2>1
<1>3. hits # {} /\ hits \subseteq Nat  BY <1>1, <1>2 DEF IsLoaded
<1>4. \E i \in hits : \A j \in hits : i <= j  BY <1>3, Least
<1>5. least \in hits  BY <1>4
<1>6. loaded[least] = o  BY <1>2, <1>5
<1>7. Relocation = Base[loaded[least]]  BY <1>3 DEF Relocation
<1> QED  BY <1>6, <1>7

\* What a step does to the lookup in one object.
LEMMA FoundStep ==
    ASSUME LaidOut, LookupTypes, Agreed, SizeStep,
           NEW o \in Object, Searched(o)
    PROVE  Found(o)'
<1>1. /\ Found(o) /\ target \in Target /\ cursor \in Nat /\ loaded \in Seq(Object)
      /\ IsLoaded(o) /\ Inside(o, target)
  BY DEF LookupTypes, Agreed, Searched
<1>2. PathOf[o] \in Path /\ NoPath \notin Path /\ PathOf[o] # NoPath  BY SizeAssumption
<1>3. CASE ReadLine
  <2>1. PICK l \in Ahead :
           /\ \A other \in Ahead : l.start <= other.start
           /\ IF Covers(l) THEN path' = l.path /\ pc' = "open"
              ELSE cursor' = l.end /\ UNCHANGED <<path, pc>>
    BY <1>3 DEF ReadLine
  <2>2. pc = "maps" /\ UNCHANGED target  BY <1>3 DEF ReadLine
  <2>3. \A a \in Areas[o] : a.start <= target /\ target < a.end =>
            IF Covers(l) THEN l.path = PathOf[o] ELSE l.end <= a.start
    BY <1>1, <2>1, <2>2, NextLine DEF Found
  <2>4. CASE Covers(l)
    <3>1. PICK a \in Areas[o] : a.start <= target /\ target < a.end  BY <1>1 DEF Inside
    <3>2. path' = PathOf[o] /\ pc' = "open"  BY <2>1, <2>3, <2>4, <3>1
    <3> QED  BY <1>2, <3>2 DEF Found
  <2>5. CASE ~Covers(l)
    <3>1. cursor' = l.end /\ UNCHANGED <<path, pc, target>>  BY <2>1, <2>2, <2>5
    <3> QED  BY <1>1, <2>2, <2>3, <2>5, <3>1 DEF Found
  <2> QED  BY <2>4, <2>5
<1>4. CASE NoLine
  <2>1. PICK a \in Areas[o] : a.start <= target /\ target < a.end  BY <1>1 DEF Inside
  <2>2. cursor <= a.start  BY <1>1, <1>4, <2>1 DEF NoLine, Found
  <2> QED  BY <1>1, <1>4, <2>2, OwnLine DEF NoLine
<1>5. CASE OpenFile  BY <1>1, <1>5 DEF OpenFile, Found
<1>6. CASE Locate
  <2>1. reloc' = Base[o]  BY <1>1, <1>6, RelocationIs DEF Locate
  <2>2. pc = "locate" /\ pc' \in {"parse", "fin"} /\ UNCHANGED path  BY <1>6 DEF Locate
  <2> QED  BY <1>1, <2>1, <2>2 DEF Found
<1>7. CASE \/ ReadFile \/ ReadFileOom \/ ReadNoFile \/ SkipSection \/ ReadSymbols
           \/ ReadSymbolsOom \/ Search \/ NoSymbol \/ ReleaseCrashes
  <2>1. /\ pc \in {"parse", "scan", "search", "fin"}
        /\ pc' \in {"parse", "scan", "search", "fin", "crashed"}
        /\ UNCHANGED <<path, reloc>>
    BY <1>7 DEF ReadFile, ReadFileOom, ReadNoFile, SkipSection, ReadSymbols,
                ReadSymbolsOom, Search, NoSymbol, ReleaseCrashes, locals
  <2> QED  BY <1>1, <2>1 DEF Found
<1>8. CASE Release  BY <1>1, <1>2, <1>8 DEF Release, Found, locals
<1> QED  BY <1>3, <1>4, <1>5, <1>6, <1>7, <1>8 DEF SizeStep

LEMMA NextAgreed == LaidOut /\ LookupTypes /\ Agreed /\ [Next]_vars => Agreed'
<1> SUFFICES ASSUME LaidOut, LookupTypes, Agreed, [Next]_vars, NEW o \in Object, Searched(o)'
             PROVE  Found(o)'
  BY DEF Agreed
<1>1. CASE UNCHANGED sizeVars
  <2>1. Searched(o) /\ (Found(o)' <=> Found(o))
    BY <1>1 DEF Searched, IsLoaded, Inside, Found, sizeVars, locals
  <2> QED  BY <2>1 DEF Agreed
<1>2. ASSUME NEW k \in Token, Call(k) PROVE Found(o)'
  <2>1. ASSUME NEW t \in Target, NEW d \in Detour, BeginInject(k, t, d)
        PROVE  Found(o)'
    <3>1. /\ pc = "idle" /\ pc' \in {"maps", "sized"}
          /\ UNCHANGED <<path, cursor>>
      BY <2>1 DEF BeginInject, BeginSize, BeginSizeFails
    <3>2. path' = NoPath /\ cursor' = 0  BY <3>1 DEF LookupTypes, Idle
    <3>3. \A a \in Areas[o] : 0 <= a.start  BY SizeAssumption DEF Mapping
    <3> QED  BY <3>1, <3>2, <3>3 DEF Found
  <2>2. ASSUME pc' = "crashed", UNCHANGED <<loaded, locals>> PROVE Found(o)'
    <3>1. Searched(o)  BY <2>2 DEF Searched, IsLoaded, Inside, locals
    <3> QED  BY <2>2, <3>1 DEF Agreed, Found, locals
  <2> QED
    BY <1>1, <1>2, <2>1, <2>2
       DEF Call, InjectGot, InjectGotAgain, InjectGotNoMemory, Uninject, UninjectHollow,
           UninjectNothing
<1>3. CASE SizeOfTarget
  <2>1. SizeStep /\ UNCHANGED <<loaded, target>>
    BY <1>3 DEF SizeOfTarget, SizeStep, ReadLine, NoLine, OpenFile, Locate, ReadFile,
                ReadFileOom, ReadNoFile, SkipSection, ReadSymbols, ReadSymbolsOom, Search,
                NoSymbol, Release, ReleaseCrashes, locals
  <2>2. Searched(o)  BY <2>1 DEF Searched, IsLoaded, Inside
  <2> QED  BY <2>1, <2>2, FoundStep
<1>4. CASE InjectFails \/ Inject
  BY <1>4 DEF InjectFails, Inject, EndSize, Searched
<1>5. CASE Dlopen
  <2>1. UNCHANGED <<pc, locals>>  BY <1>5 DEF Dlopen, Load, Unload
  <2>2. target # Unknown /\ Inside(o, target) /\ target \in Target
    BY <2>1 DEF Searched, Inside, LookupTypes, locals
  <2>3. o \notin Plugin  BY <2>2 DEF LaidOut
  <2>4. IsLoaded(o)  BY <1>5, <2>3, DlopenKeeps DEF LookupTypes, Searched
  <2>5. Found(o)  BY <2>2, <2>4 DEF Agreed, Searched
  <2> QED  BY <2>1, <2>5 DEF Found, locals
<1> QED  BY <1>1, <1>2, <1>3, <1>4, <1>5 DEF Next, vars

\* In an address space where a function lies in one mapping and one object's
\* segments, and in no plugin, the path and the load address a lookup ends with
\* are those of the object the function is in, whatever is mapped next to it and
\* whatever is loaded and unloaded between the steps.
THEOREM LookupRightObject ==
    ASSUME LaidOut
    PROVE  Spec => []RightObject
<1>1. Init => Agreed  BY DEF Init, InitSize, Idle, Agreed, Searched
<1>2. LookupTypes /\ Agreed => RightObject
  <2> SUFFICES ASSUME LookupTypes, Agreed, NEW o \in Object, IsLoaded(o),
                      target # Unknown, Inside(o, target)
               PROVE  /\ path \in {NoPath, PathOf[o]}
                      /\ pc = "sized" /\ path = NoPath => cursor = 0
                      /\ pc \in {"parse", "scan", "search", "fin"} =>
                            path = PathOf[o] /\ reloc = Base[o]
    BY DEF RightObject
  <2> QED  BY DEF Agreed, Searched, Found
<1> QED  BY <1>1, <1>2, NextAgreed, LookupInvariant, PTL DEF Spec

----------------------------------------------------------------------------
(* The size that is returned *)

\* The sections of a file that was read are numbered from 1.
LEMMA Sections ==
    ASSUME NEW f \in File, ParseFile(Content[f]).ret = 0
    PROVE  \E n \in Int : DOMAIN ParseFile(Content[f]).shdr = 1 .. n
<1> DEFINE c == Content[f]
           head == ParseEhdr(c)
           shdrs == [i \in 1 .. head.ehdr["e_shnum"] |-> ParseShdr(c, head, i - 1)]
<1>1. Unreadable.ret = -1  BY DEF Unreadable
<1>2. ~(head.ret < 0) /\ ParseFile(c).shdr = [i \in DOMAIN shdrs |-> shdrs[i].hdr]
  <2>1. ParseFile(c) # Unreadable  BY <1>1
  <2> QED  BY <2>1 DEF ParseFile
<1>3. PICK class, data : head.ehdr = Struct(c, EhdrIdent, EhdrLayout(class), data)
  <2> DEFINE class == Number(c, 4, 1, HostData)
             data == Number(c, 5, 1, HostData)
             ehdr == Struct(c, EhdrIdent, EhdrLayout(class), data)
             read == [ret |-> EhdrSize(class), class |-> class, data |-> data, ehdr |-> ehdr]
  <2>1. head # Unreadable  BY <1>1, <1>2
  <2>2. head = Unreadable \/ head = read  BY Zenon DEF ParseEhdr
  <2>3. read.ehdr = ehdr
    <3> HIDE DEF ehdr, class, data
    <3> QED  OBVIOUS
  <2> QED  BY <2>1, <2>2, <2>3, Zenon
<1>4. head.ehdr["e_shnum"] \in Int
  <2>1. \A p, w, d : Number(c, p, w, d) \in Int
    <3>1. \A p \in DOMAIN c.cells : c.cells[p] \in Nat  BY ElfAssumption
    <3> QED  BY <3>1 DEF Number, Garbage
  <2> DEFINE layout == EhdrLayout(class)
  <2>2. layout[16][1] = "e_shnum" /\ 16 \in DOMAIN layout  BY DEF EhdrLayout
  <2>3. "e_shnum" \in {layout[k][1] : k \in DOMAIN layout}  BY <2>2
  <2> HIDE DEF layout
  <2>4. head.ehdr = Struct(c, EhdrIdent, layout, data)  BY <1>3 DEF layout
  <2> HIDE DEF head, c
  <2> QED  BY <2>1, <2>3, <2>4 DEF Struct
<1> HIDE DEF head, c
<1>5. DOMAIN ParseFile(c).shdr = 1 .. head.ehdr["e_shnum"]  BY <1>2
<1> QED  BY <1>4, <1>5 DEF c

\* No symbol of section n counts.
Passed(n) ==
    \A i \in DOMAIN Content[file].means.symbols[n] :
        ~(/\ TableThere(Content[file], n)
          /\ Content[file].means.symbols[n][i]["st_value"] = target - reloc)

Answer == file # Null /\ reloc # 0 /\ ~oom => result = SizeMeant

Scanned ==
    /\ pc \in {"idle", "maps", "open"} => file = Null
    /\ pc \in {"scan", "search"} =>
          /\ info.ret = 0 /\ sec >= 1
          /\ ~oom => \A n \in DOMAIN info.shdr : n < sec => Passed(n)
    /\ pc = "search" => sec \in DOMAIN info.shdr /\ IsSymbolTable(sec)
    /\ pc \in {"fin", "sized"} => Answer

LEMMA ThereIs ==
    \A h : h \in There <=>
        \E n \in DOMAIN Content[file].means.symbols :
            \E i \in DOMAIN Content[file].means.symbols[n] :
                /\ h = <<n, i>>
                /\ TableThere(Content[file], n)
                /\ Content[file].means.symbols[n][i]["st_value"] = target - reloc
<1> DEFINE s == Content[file].means.symbols
           all == UNION {{n} \X DOMAIN s[n] : n \in DOMAIN s}
<1>1. ASSUME NEW h, h \in all PROVE \E n \in DOMAIN s : \E i \in DOMAIN s[n] : h = <<n, i>>
  <2>1. PICK n \in DOMAIN s : h \in {n} \X DOMAIN s[n]  BY <1>1
  <2> QED  BY <2>1
<1>2. ASSUME NEW n \in DOMAIN s, NEW i \in DOMAIN s[n] PROVE <<n, i>> \in all
  <2>1. <<n, i>> \in {n} \X DOMAIN s[n]  OBVIOUS
  <2> QED  BY <2>1
<1>3. \A h : h \in There <=>
          /\ h \in all
          /\ TableThere(Content[file], h[1])
          /\ s[h[1]][h[2]]["st_value"] = target - reloc
  BY DEF There
<1> HIDE DEF all, s
<1> QED  BY <1>1, <1>2, <1>3 DEF s

\* A search that passed all sections finds nothing.
LEMMA NothingThere ==
    ASSUME \A n \in DOMAIN Content[file].means.symbols : Passed(n)
    PROVE  SizeMeant = -1
<1>1. There = {}  BY ThereIs DEF Passed
<1> QED  BY <1>1 DEF SizeMeant

\* The first symbol of the first section that has one is the one that counts.
LEMMA FirstThere ==
    ASSUME NEW n \in DOMAIN Content[file].means.symbols,
           NEW i \in DOMAIN Content[file].means.symbols[n],
           DOMAIN Content[file].means.symbols \subseteq Int,
           DOMAIN Content[file].means.symbols[n] \subseteq Int,
           Content[file].magic, Content[file].means.headersEnd <= Content[file].length,
           TableThere(Content[file], n),
           Content[file].means.symbols[n][i]["st_value"] = target - reloc,
           \A m \in DOMAIN Content[file].means.symbols : m < n => Passed(m),
           \A j \in DOMAIN Content[file].means.symbols[n] :
              j < i => Content[file].means.symbols[n][j]["st_value"] # target - reloc
    PROVE  SizeMeant = Content[file].means.symbols[n][i]["st_size"]
<1> DEFINE Before(h, o) == h[1] < o[1] \/ (h[1] = o[1] /\ h[2] <= o[2])
           first == CHOOSE h \in There : \A o \in There : Before(h, o)
<1>1. <<n, i>> \in There  BY ThereIs
<1>2. ASSUME NEW o \in There
      PROVE  /\ Before(<<n, i>>, o)
             /\ Before(o, <<n, i>>) => o = <<n, i>>
  <2>1. PICK m \in DOMAIN Content[file].means.symbols :
          \E j \in DOMAIN Content[file].means.symbols[m] :
            /\ o = <<m, j>>
            /\ TableThere(Content[file], m)
            /\ Content[file].means.symbols[m][j]["st_value"] = target - reloc
    BY ThereIs
  <2>2. PICK j \in DOMAIN Content[file].means.symbols[m] :
            /\ o = <<m, j>>
            /\ TableThere(Content[file], m)
            /\ Content[file].means.symbols[m][j]["st_value"] = target - reloc
    BY <2>1
  <2>3. ~(m < n)  BY <2>2 DEF Passed
  <2>4. m = n => ~(j < i)  BY <2>2
  <2>5. m \in Int /\ n \in Int /\ i \in Int /\ (m = n => j \in Int)  OBVIOUS
  <2> QED  BY <2>2, <2>3, <2>4, <2>5
<1>3. first \in There /\ \A o \in There : Before(first, o)  BY <1>1, <1>2
<1>4. first = <<n, i>>
  <2> HIDE DEF first, Before
  <2>1. Before(first, <<n, i>>)  BY <1>1, <1>3
  <2> QED  BY <1>2, <1>3, <2>1
<1>5. SizeMeant = Content[file].means.symbols[first[1]][first[2]]["st_size"]
  BY <1>1 DEF SizeMeant
<1> HIDE DEF first
<1> QED  BY <1>4, <1>5

\* What is known of a file whose sections are searched.
LEMMA FileRead ==
    ASSUME ReadAsMeant, file \in File, info = ParseFile(Content[file]), info.ret = 0
    PROVE  /\ Content[file].magic /\ Content[file].means.headersEnd <= Content[file].length
           /\ DOMAIN Content[file].means.symbols = DOMAIN info.shdr
           /\ \E n \in Int : DOMAIN info.shdr = 1 .. n
           /\ \A n \in DOMAIN info.shdr :
                 IF IsSymbolTable(n) /\ ~(ParseSymbols(Content[file], info, n).ret < 0)
                 THEN /\ ParseSymbols(Content[file], info, n).list
                            = Content[file].means.symbols[n]
                      /\ \/ Content[file].means.symbols[n] = <<>>
                         \/ TableThere(Content[file], n)
                 ELSE Passed(n)
<1>1. \E n \in Int : DOMAIN info.shdr = 1 .. n  BY Sections
<1>2. /\ Content[file].magic /\ Content[file].means.headersEnd <= Content[file].length
      /\ DOMAIN Content[file].means.symbols = DOMAIN info.shdr
  BY DEF ReadAsMeant
<1>3. ASSUME NEW n \in DOMAIN info.shdr
      PROVE  IF IsSymbolTable(n) /\ ~(ParseSymbols(Content[file], info, n).ret < 0)
             THEN /\ ParseSymbols(Content[file], info, n).list
                            = Content[file].means.symbols[n]
                  /\ \/ Content[file].means.symbols[n] = <<>>
                     \/ TableThere(Content[file], n)
             ELSE \/ Content[file].means.symbols[n] = <<>>
                  \/ ~(TableThere(Content[file], n))
  BY DEF ReadAsMeant, IsSymbolTable
<1>4. ASSUME NEW n, \/ Content[file].means.symbols[n] = <<>>
                    \/ ~(TableThere(Content[file], n))
      PROVE  Passed(n)
  <2>1. CASE Content[file].means.symbols[n] = <<>>
    <3>1. DOMAIN Content[file].means.symbols[n] = {}  BY <2>1
    <3> QED  BY <3>1 DEF Passed
  <2>2. CASE ~(TableThere(Content[file], n))
    BY <2>2 DEF Passed
  <2> QED  BY <1>4, <2>1, <2>2
<1> QED  BY <1>1, <1>2, <1>3, <1>4

\* One more section is passed.
LEMMA PassOne ==
    ASSUME ReadAsMeant, Locals, LookupTypes, Scanned, pc \in {"scan", "search"},
           sec' = sec + 1, UNCHANGED <<file, info, target, reloc>>, pc' = "scan",
           oom' = oom => sec \in DOMAIN info.shdr /\ Passed(sec),
           oom' = oom \/ oom' = TRUE
    PROVE  Scanned'
<1>1. /\ file \in File /\ info = ParseFile(Content[file]) /\ info.ret = 0
      /\ sec \in Nat /\ sec >= 1
  BY DEF Locals, Scanned, LookupTypes
<1>2. PICK m \in Int : DOMAIN info.shdr = 1 .. m  BY <1>1, FileRead
<1>3. ASSUME ~oom' PROVE \A n \in DOMAIN info.shdr : n < sec + 1 => Passed(n)
  <2>1. oom' = oom
    <3>1. CASE oom' = TRUE  BY <1>3, <3>1
    <3>2. CASE oom' = oom  BY <3>2
    <3> QED  BY <3>1, <3>2
  <2>3. ~oom  BY <1>3, <2>1
  <2>2. \A n \in 1 .. m : n < sec + 1 => n < sec \/ n = sec  BY <1>1
  <2> QED  BY <1>2, <2>1, <2>2, <2>3 DEF Scanned
<1>4. \A n : Passed(n)' <=> Passed(n)  BY DEF Passed
<1> QED  BY <1>1, <1>3, <1>4 DEF Scanned

LEMMA ScanStep ==
    ASSUME ReadAsMeant, Locals, LookupTypes, Listing, Scanned,
           \/ ReadFile \/ SkipSection \/ ReadSymbols \/ ReadSymbolsOom \/ Search \/ NoSymbol
    PROVE  Scanned'
<1>1. CASE ReadFile
  <2> DEFINE r == ParseFile(Content[file])
  <2>1. /\ file \in File /\ UNCHANGED <<file, target, reloc, oom>>
        /\ info' = IF r.ret < 0 THEN Null ELSE r
        /\ IF r.ret # 0 THEN pc' = "fin" /\ result' = -1 ELSE pc' = "scan" /\ sec' = 1
    BY <1>1 DEF ReadFile, Locals
  <2>2. CASE r.ret # 0
    <3>1. ~(Content[file].magic /\ Content[file].means.headersEnd <= Content[file].length)
      BY <2>1, <2>2 DEF ReadAsMeant
    <3>2. SizeMeant = -1  BY <3>1 DEF SizeMeant
    <3>3. SizeMeant' = SizeMeant  BY <2>1 DEF SizeMeant, There
    <3> QED  BY <2>1, <2>2, <3>2, <3>3 DEF Scanned, Answer
  <2>3. CASE r.ret = 0
    <3>1. info' = r /\ pc' = "scan" /\ sec' = 1  BY <2>1, <2>3
    <3>2. PICK m \in Int : DOMAIN r.shdr = 1 .. m  BY <2>1, <2>3, Sections
    <3>3. \A n \in DOMAIN r.shdr : ~(n < 1)  BY <3>2
    <3> HIDE DEF r
    <3> QED  BY <2>3, <3>1, <3>3 DEF Scanned
  <2> QED  BY <2>2, <2>3
<1>2. CASE SkipSection
  <2>1. /\ pc = "scan" /\ pc' = "scan" /\ sec \in DOMAIN info.shdr /\ ~IsSymbolTable(sec)
        /\ sec' = sec + 1 /\ UNCHANGED <<file, info, target, reloc, oom>>
    BY <1>2 DEF SkipSection
  <2>2. Passed(sec)  BY <2>1, FileRead DEF Locals, Scanned
  <2> QED  BY <2>1, <2>2, PassOne
<1>3. CASE ReadSymbols
  <2>1. /\ pc = "scan" /\ sec \in DOMAIN info.shdr /\ IsSymbolTable(sec)
        /\ UNCHANGED <<file, info, target, reloc, oom>>
        /\ IF ParseSymbols(Content[file], info, sec).ret < 0
           THEN sec' = sec + 1 /\ pc' = "scan"
           ELSE pc' = "search" /\ UNCHANGED sec
    BY <1>3 DEF ReadSymbols
  <2>2. CASE ParseSymbols(Content[file], info, sec).ret < 0
    <3>1. Passed(sec)  BY <2>1, <2>2, FileRead DEF Locals, Scanned
    <3> QED  BY <2>1, <2>2, <3>1, PassOne
  <2>3. CASE ~(ParseSymbols(Content[file], info, sec).ret < 0)
    <3>1. \A n : Passed(n)' <=> Passed(n)  BY <2>1 DEF Passed
    <3> QED  BY <2>1, <2>3, <3>1 DEF Scanned, IsSymbolTable
  <2> QED  BY <2>2, <2>3
<1>4. CASE ReadSymbolsOom
  <2>1. /\ pc = "scan" /\ pc' = "scan" /\ sec' = sec + 1 /\ oom' = TRUE
        /\ UNCHANGED <<file, info, target, reloc>>
    BY <1>4 DEF ReadSymbolsOom
  <2>2. file \in File /\ info.ret = 0 /\ sec \in Nat /\ sec >= 1
    BY <2>1 DEF Locals, Scanned, LookupTypes
  <2> QED  BY <2>1, <2>2 DEF Scanned
<1>5. CASE Search
  <2>1. /\ pc = "search" /\ file \in File /\ info = ParseFile(Content[file])
        /\ info.ret = 0 /\ sec \in DOMAIN info.shdr /\ IsSymbolTable(sec)
        /\ list = ParseSymbols(Content[file], info, sec).list
        /\ ~(ParseSymbols(Content[file], info, sec).ret < 0)
        /\ UNCHANGED <<file, info, target, reloc, oom>>
    BY <1>5 DEF Search, Locals, Scanned, Listing
  <2>2. /\ list = Content[file].means.symbols[sec]
        /\ list = <<>> \/ TableThere(Content[file], sec)
        /\ DOMAIN Content[file].means.symbols = DOMAIN info.shdr
        /\ Content[file].magic /\ Content[file].means.headersEnd <= Content[file].length
    BY <2>1, FileRead
  <2>3. CASE /\ \A i \in DOMAIN list : ~HasValue(list[i])
             /\ sec' = sec + 1 /\ pc' = "scan"
    <3>1. Passed(sec)  BY <2>2, <2>3 DEF Passed, HasValue
    <3> QED  BY <2>1, <2>3, <3>1, PassOne
  <2>4. ASSUME NEW i \in DOMAIN list, Match(i), result' = list[i]["st_size"], pc' = "fin"
        PROVE  Scanned'
    <3>1. PICK m \in Int : DOMAIN info.shdr = 1 .. m  BY <2>1, FileRead
    <3>2. PICK num : DOMAIN list = 1 .. num  BY <2>1, SymbolsNumbered
    <3>3. DOMAIN info.shdr \subseteq Int /\ DOMAIN list \subseteq Int  BY <3>1, <3>2
    <3>4. \A j \in DOMAIN list : j < i => list[j]["st_value"] # target - reloc
      <4>1. \A j \in 1 .. num : j < i => j \in 1 .. i - 1  BY <2>4, <3>2
      <4> QED  BY <2>4, <3>2, <4>1 DEF Match, HasValue
    <3>5. list[i]["st_value"] = target - reloc  BY <2>4 DEF Match, HasValue
    <3>6. ASSUME ~oom PROVE SizeMeant = list[i]["st_size"]
      <4>1. \A n \in DOMAIN Content[file].means.symbols : n < sec => Passed(n)
        BY <2>1, <2>2, <3>6 DEF Scanned
      <4>2. DOMAIN <<>> = {}  OBVIOUS
      <4>3. list # <<>>  BY <2>4, <4>2
      <4>4. sec \in DOMAIN Content[file].means.symbols /\ i \in DOMAIN list
            /\ TableThere(Content[file], sec)
            /\ DOMAIN Content[file].means.symbols \subseteq Int
        BY <2>1, <2>2, <2>4, <3>3, <4>3
      <4>5. Content[file].means.symbols[sec] = list  BY <2>2
      <4>6. SizeMeant = Content[file].means.symbols[sec][i]["st_size"]
        <5>1. /\ i \in DOMAIN Content[file].means.symbols[sec]
              /\ DOMAIN Content[file].means.symbols[sec] \subseteq Int
              /\ Content[file].means.symbols[sec][i]["st_value"] = target - reloc
          BY <3>3, <3>5, <4>4, <4>5
        <5>2. \A j \in DOMAIN Content[file].means.symbols[sec] :
                 j < i => Content[file].means.symbols[sec][j]["st_value"] # target - reloc
          BY <3>4, <4>5
        <5> QED  BY <2>2, <4>1, <4>4, <5>1, <5>2, FirstThere
      <4> QED  BY <4>5, <4>6
    <3>7. SizeMeant' = SizeMeant  BY <2>1 DEF SizeMeant, There
    <3> QED  BY <2>1, <2>4, <3>6, <3>7 DEF Scanned, Answer
  <2> QED  BY <1>5, <2>3, <2>4 DEF Search
<1>6. CASE NoSymbol
  <2>1. /\ pc = "scan" /\ sec \notin DOMAIN info.shdr /\ pc' = "fin" /\ result' = -1
        /\ file \in File /\ info = ParseFile(Content[file]) /\ info.ret = 0
        /\ sec \in Nat /\ sec >= 1 /\ UNCHANGED <<file, target, reloc, oom>>
    BY <1>6 DEF NoSymbol, Locals, Scanned, LookupTypes
  <2>2. PICK m \in Int : DOMAIN info.shdr = 1 .. m  BY <2>1, FileRead
  <2>3. \A n \in DOMAIN info.shdr : n < sec  BY <2>1, <2>2
  <2>4. ASSUME ~oom PROVE SizeMeant = -1
    <3>1. \A n \in DOMAIN Content[file].means.symbols : Passed(n)
      BY <2>1, <2>3, <2>4, FileRead DEF Scanned
    <3> QED  BY <3>1, NothingThere
  <2>5. SizeMeant' = SizeMeant  BY <2>1 DEF SizeMeant, There
  <2> QED  BY <2>1, <2>4, <2>5 DEF Scanned, Answer
<1> QED  BY <1>1, <1>2, <1>3, <1>4, <1>5, <1>6

LEMMA NextScanned ==
    /\ ReadAsMeant /\ Locals /\ LookupTypes /\ Listing /\ Scanned /\ [Next]_vars
    => Scanned'
<1> SUFFICES ASSUME ReadAsMeant, Locals, LookupTypes, Listing, Scanned, [Next]_vars
             PROVE  Scanned'
  OBVIOUS
<1>1. CASE UNCHANGED <<pc, locals>>
  <2>1. SizeMeant' = SizeMeant  BY <1>1 DEF SizeMeant, There, locals
  <2>2. \A n : Passed(n)' <=> Passed(n)  BY <1>1 DEF Passed, locals
  <2>3. IsSymbolTable(sec)' <=> IsSymbolTable(sec)  BY <1>1 DEF IsSymbolTable, locals
  <2>4. UNCHANGED <<pc, file, info, sec, reloc, oom, result>>  BY <1>1 DEF locals
  <2> QED  BY <2>1, <2>2, <2>3, <2>4 DEF Scanned, Answer
<1>2. ASSUME NEW k \in Token, Call(k) PROVE Scanned'
  <2>1. ASSUME NEW t \in Target, NEW d \in Detour, BeginInject(k, t, d)
        PROVE  Scanned'
    <3>1. pc = "idle" /\ pc' \in {"maps", "sized"} /\ UNCHANGED file
      BY <2>1 DEF BeginInject, BeginSize, BeginSizeFails
    <3> QED  BY <3>1 DEF Scanned, Answer
  <2>2. ASSUME pc' = "crashed" PROVE Scanned'
    BY <2>2 DEF Scanned
  <2> QED
    BY <1>1, <1>2, <2>1, <2>2
       DEF Call, InjectGot, InjectGotAgain, InjectGotNoMemory, Uninject, UninjectHollow,
           UninjectNothing, sizeVars
<1>3. CASE SizeOfTarget
  <2>1. CASE ReadLine  BY <2>1 DEF ReadLine, Scanned
  <2>2. CASE NoLine  BY <2>2 DEF NoLine, Scanned, Answer
  <2>3. CASE OpenFile  BY <2>3 DEF OpenFile, Scanned
  <2>4. CASE Locate
    <3>1. pc' = "parse" \/ (pc' = "fin" /\ reloc' = 0)  BY <2>4 DEF Locate
    <3> QED  BY <3>1 DEF Scanned, Answer
  <2>5. CASE ReadFileOom  BY <2>5 DEF ReadFileOom, Scanned, Answer
  <2>6. CASE ReadNoFile \/ ReleaseCrashes
    BY <2>6 DEF ReadNoFile, ReleaseCrashes, Scanned
  <2>7. CASE Release
    <3>1. pc = "fin" /\ pc' = "sized" /\ UNCHANGED locals  BY <2>7 DEF Release
    <3>2. SizeMeant' = SizeMeant  BY <3>1 DEF SizeMeant, There, locals
    <3>3. UNCHANGED <<file, reloc, oom, result>>  BY <3>1 DEF locals
    <3> QED  BY <3>1, <3>2, <3>3 DEF Scanned, Answer
  <2> QED
    BY <1>3, <2>1, <2>2, <2>3, <2>4, <2>5, <2>6, <2>7, ScanStep DEF SizeOfTarget, SizeStep
<1>4. CASE InjectFails \/ Inject
  BY <1>4 DEF InjectFails, Inject, EndSize, Scanned
<1>5. CASE Dlopen  BY <1>1, <1>5 DEF Dlopen, Load, Unload
<1> QED  BY <1>1, <1>2, <1>3, <1>4, <1>5 DEF Next, vars, sizeVars

\* If the files that begin like ELF files are such files, whatever they say, with
\* any number of sections and symbols and wherever they are cut off, the size that
\* is returned is that of the first symbol with the address in a table that is all
\* there, and there is no size if there is no such symbol or the headers are not
\* all there.
THEOREM LookupSize ==
    ASSUME Conforming
    PROVE  Spec => []SizeOfSymbol
<1>1. Init => Scanned  BY DEF Init, InitSize, Idle, Scanned
<1>2. Scanned => SizeOfSymbol  BY DEF Scanned, Answer, SizeOfSymbol
<1>3. ReadAsMeant  BY StandardReadAsMeant
<1> QED  BY <1>1, <1>2, <1>3, NextScanned, LookupInvariant, PTL DEF Spec

----------------------------------------------------------------------------
(* What is read out of a file *)

\* The steps that read, one for the headers and one for each table
LEMMA ReadsFaithfully ==
    ASSUME ReadAsMeant, Locals, ParsedFaithfully, ReadFile \/ ReadSymbols
    PROVE  ParsedFaithfully'
<1>1. CASE ReadFile
  <2>1. PICK r : r = ParseFile(Content[file])  OBVIOUS
  <2>2. /\ file \in File /\ list' = Null /\ UNCHANGED file
        /\ info' = IF r.ret < 0 THEN Null ELSE r
    BY <1>1, <2>1 DEF ReadFile, Locals
  <2>3. CASE r.ret < 0  BY <2>2, <2>3 DEF ParsedFaithfully
  <2>4. CASE ~(r.ret < 0)
    <3>1. LET means == Content[file].means
          IN  r.ehdr = means.ehdr /\ r.phdr = means.phdr /\ r.shdr = means.shdr
      BY <2>1, <2>2, <2>4 DEF ReadAsMeant
    <3> QED  BY <2>2, <2>4, <3>1 DEF ParsedFaithfully
  <2> QED  BY <2>3, <2>4
<1>2. CASE ReadSymbols
  <2>1. PICK s : s = ParseSymbols(Content[file], info, sec)  OBVIOUS
  <2>2. /\ file \in File /\ list = Null /\ UNCHANGED <<file, info>>
        /\ info = ParseFile(Content[file]) /\ ~(info.ret < 0)
        /\ sec \in DOMAIN info.shdr /\ info.shdr[sec]["sh_type"] \in {2, 11}
        /\ IF s.ret < 0 THEN UNCHANGED list ELSE list' = s.list /\ UNCHANGED sec
    BY <1>2, <2>1 DEF ReadSymbols, IsSymbolTable, Locals
  <2>3. CASE s.ret < 0  BY <2>2, <2>3 DEF ParsedFaithfully
  <2>4. CASE ~(s.ret < 0)
    <3>1. s.list = Content[file].means.symbols[sec]  BY <2>1, <2>2, <2>4 DEF ReadAsMeant
    <3> QED  BY <2>2, <2>4, <3>1 DEF ParsedFaithfully
  <2> QED  BY <2>3, <2>4
<1> QED  BY <1>1, <1>2

LEMMA NextFaithful ==
    ReadAsMeant /\ Locals /\ ParsedFaithfully /\ [Next]_vars => ParsedFaithfully'
<1> SUFFICES ASSUME ReadAsMeant, Locals, ParsedFaithfully, [Next]_vars
             PROVE  ParsedFaithfully'
  OBVIOUS
<1>1. CASE UNCHANGED <<file, info, sec, list>>  BY <1>1 DEF ParsedFaithfully
<1>2. CASE UNCHANGED vars  BY <1>1, <1>2 DEF vars, sizeVars, locals
<1>3. ASSUME NEW k \in Token, Call(k) PROVE ParsedFaithfully'
  <2>1. ASSUME NEW t \in Target, NEW d \in Detour, BeginInject(k, t, d)
        PROVE  ParsedFaithfully'
    BY <1>1, <2>1 DEF BeginInject, BeginSize, BeginSizeFails
  <2> QED
    BY <1>1, <1>3, <2>1
       DEF Call, InjectGot, InjectGotAgain, InjectGotNoMemory, Uninject, UninjectHollow,
           UninjectNothing, sizeVars, locals
<1>4. CASE SizeOfTarget
  <2>1. CASE ReadLine \/ NoLine \/ ReadFileOom \/ NoSymbol
    BY <1>1, <2>1 DEF ReadLine, NoLine, ReadFileOom, NoSymbol
  <2>2. CASE ReadNoFile \/ Release \/ ReleaseCrashes
    BY <1>1, <2>2 DEF ReadNoFile, Release, ReleaseCrashes, locals
  <2>3. CASE OpenFile
    BY <2>3 DEF OpenFile, Locals, ParsedFaithfully
  <2>4. CASE Locate
    <3>1. info' \in {Null, Uninit} /\ list' = Null  BY <2>4 DEF Locate, Locals
    <3> QED  BY <3>1 DEF ParsedFaithfully
  <2>5. CASE SkipSection \/ ReadSymbolsOom
    <3>1. list' = Null /\ UNCHANGED <<file, info>>
      BY <2>5 DEF SkipSection, ReadSymbolsOom, Locals
    <3> QED  BY <3>1 DEF ParsedFaithfully
  <2>6. CASE Search
    <3>1. UNCHANGED <<file, info>> /\ (UNCHANGED <<sec, list>> \/ list' = Null)
      BY <2>6 DEF Search
    <3> QED  BY <3>1 DEF ParsedFaithfully
  <2> QED
    BY <1>4, <2>1, <2>2, <2>3, <2>4, <2>5, <2>6, ReadsFaithfully DEF SizeOfTarget, SizeStep
<1>5. CASE InjectFails \/ Inject
  BY <1>5 DEF InjectFails, Inject, EndSize, ParsedFaithfully
<1>6. CASE Dlopen  BY <1>1, <1>6 DEF Dlopen, Load, Unload, locals
<1> QED  BY <1>2, <1>3, <1>4, <1>5, <1>6 DEF Next

\* Of every file that follows the standard, of either class and byte order, every
\* field of every header and of every symbol that a lookup holds is what it means.
THEOREM LookupReadsFaithfully ==
    ASSUME Conforming
    PROVE  Spec => []ParsedFaithfully
<1>1. Init => ParsedFaithfully  BY DEF Init, InitSize, Idle, ParsedFaithfully
<1>2. ReadAsMeant  BY StandardReadAsMeant
<1> QED  BY <1>1, <1>2, NextFaithful, LookupInvariant, PTL DEF Spec
=============================================================================
