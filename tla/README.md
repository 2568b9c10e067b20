# A formal model of uhook

uhook redirects calls in a running C program. `uhook_inject` overwrites the first
bytes of a function with a jump to a detour and gives the caller a copy of the
function to call instead (an *inline* hook); `uhook_inject_got` replaces a function
in the global offset table of a loaded object (a *GOT* hook); `uhook_uninject`
takes either off. This directory has TLA+ modules for these mechanisms, TLC
configurations that check them on small instances, and TLAPS proofs of the
properties that should hold for every instance.

Paths and line numbers below are those of the repository's `src/` directory, as in
`PROJECT.json`.

## 1. Inventory

| Part | Code | State it keeps | Operations |
|---|---|---|---|
| Public interface | `src/uhook.c`, `include/uhook.h` | the caller's `uhook_token_t` | `uhook_inject`, `uhook_inject_got`, `uhook_uninject` |
| x86-64 jump encoder | `src/arch/x86_64.c` 13-182 | none | `_x86_64_fill_jump_code` and its three encodings |
| x86-64 trampoline | `src/arch/x86_64.c` 225-510 | `x86_64_trampoline_t` under construction | size, allocate, redirect code, copy, patch branches |
| x86-64 inline hook | `src/arch/x86_64.c` 184-194, 461-534 | target code, installed trampolines | inject, uninject |
| Pages and executable memory | `src/os/os.c`, `src/defs.h` | page protections | `_system_modify_opcode`, `_page_of`, allocation |
| GOT lookup | `src/os/elf.c` 103-370, 498-690 | `inject_got_ctx_t`, shared by the callbacks for all objects | parse the dynamic section, hash lookup, relocation search |
| GOT patching | `src/os/elf.c` 372-496, 586-633, 952-991 | slots, page protections, helpers | inject, uninject |
| ARM inline hook | `src/arch/arm.c` | `arm_trampoline_t`, target code | inject, uninject |
| Function size | `src/os/elf.c` 668-690, 855-950, 993-1023 | open file, parsed symbols | `elf_get_function_size` |
| ELF file parser | `src/os/elfparser.c` | parsed headers and tables | parse, release |
| Dumps, log, once | `src/os/elf.c` 692-850, `src/log.c`, `src/once.c` | none | print |

An inline hook asks for the size of its target (function size, ELF parser), builds a
trampoline (encoder, Zydis decoder) and writes through `_system_modify_opcode`. A GOT
hook runs its lookup and its patching inside one `dl_iterate_phdr`, under the loader's
lock. The library itself has **no lock**. Calls interact through the code and slots
they change, the page protections they set and put back, and the caller's tokens.

What is hard here:

* **interleaving**: page protections are per page, changes are per function or slot;
* **partial failure**: `mprotect`, `/proc/self/maps` and allocation can fail between
  steps, and half of the callers ignore the result;
* **sequences of calls**: hooks on one function form a stack, each saving what it found;
* **stale state**: one parse context is reused for every object; a saved origin may
  be the lazy-binding stub of the loader;
* **numeric edges**: widths of displacements, ends of ranges, words against bytes.

What makes each part correct: a jump lands where it was meant to (encoder); every
branch that leaves the body reaches its destination and all of it fits the allocation
(trampoline); the code is what the stack of hooks says, pages are writable when and
only when written, nothing leaks (inline hook); slots, origins and protections agree
and come back (GOT patching); the right symbol of the right object is found (lookup); what
is read of a file is what the file says, the size is the symbol's, and everything opened
is closed (function size, parser); a token owns one hook and knows its kind (interface).
`PROJECT.json` lists the hazards line by line with the property that watches each.

## 2. Modules

| Module | Models | Abstraction |
|---|---|---|
| `OsPages` | `_page_of`, `ALIGN_SIZE`, the region of `_system_modify_opcode` | bit masks as remainders; a page is named by its base |
| `X86Jump` | the jump encoder | widths are constants `Half8 < Half16 < Half32`; stored displacements wrap |
| `X86Trampoline` | `uhook_x86_64_inject` up to the modification of the target | a function is a sequence of decoded instructions (kind, length, operand width, displacement) |
| `InlineHook` | concurrent `uhook_inject` / `uhook_uninject` on x86-64 | the first 14 bytes of a target, each with its owner |
| `GotHook` | concurrent `uhook_inject_got` / `uhook_uninject` | two slots per symbol, protections per page, the loader as environment |
| `ElfLookup` | `_unix_dl_iterate_phdr_got` over a link map | a table is named by the object it was read from |
| `ArmHook` | the ARM inline hook, once on and off | words with a kind and an offset; low bytes of a word where the code copies bytes |
| `ElfParser` | `elf_parser_file`, `elf_parser_symbol` | a file is a function from offset and width to numbers, with a byte order and a length |
| `ElfFormat` | *external*: the tables of the ELF standard | what the content of a file has in it for what it means |
| `FuncSize` | `elf_get_function_size` | mappings and segments are intervals; the kernel, the loader and the disk are environment |
| `UHook` | the public interface, for hooks of both kinds | what follows the size lookup is one step, as is a GOT hook |
| `HookStack` | *abstract*: what hooking promises | a cell has a content and a stack of displaced contents |
| `X86TrampolineProofs`, `InlineHookProofs`, `GotHookProofs`, `GotStackProofs`, `ElfLookupProofs`, `ArmHookProofs`, `ElfParserProofs`, `UHookProofs` | theorems | |
| `MC*` | instances for TLC | |

`X86Trampoline` extends `X86Jump` and `OsPages`; `InlineHook` extends `OsPages`; `UHook`
extends `FuncSize`, which extends `ElfParser`; `ElfFormat` extends `ElfParser` too, for what
is said of files, and `UHook` knows nothing of it. `InlineHook` and `GotHook`
instantiate `HookStack` with a refinement mapping: concurrent, interruptible calls come
down to atomic hooks and unhooks. `UHook` composes hooks of both kinds with the lookup that
precedes an inline hook, and is about tokens and what they own; how hooks stack is left to
the other two. Operators marked "Mutant" are altered forms of the definition below them; none of the
specifications uses them. They document which mistake each property would catch.

### How state and actions correspond to the code

**X86Trampoline.** `pc` walks through `uhook_x86_64_inject`: `SizeTarget` (464-468),
`Alloc`/`AllocFails` (470-484), `FillRedirect` (486-503, both error returns and the
copies included), then one action per decoded instruction, chosen by the case of
`_x86_64_patch_instruction` and `fix_jcc` it falls in: `LeaveAlone`, `KeepInBody`,
`Overwrite`, `Forward`, `TooFar`; `Finish` when the decoder stops. `cap`, `trampSize`
and `pos` are `trampoline_cap`, `trampoline_size` and `pos_insn`; `copy` records what
became of each instruction, `slots` the forward instructions behind the copy.

**InlineHook.** Each thread's call is the steps between which others can run:
`Begin*`, `Prepare` (size, allocation, backup), `Unprotect`, `DoInject` or
`UndoInject` (the callback), `Reprotect`, `Return*`; `PrepareFails`, `UnprotectFails`
and `ReprotectFails` are the error paths. `handle` is the heap of trampolines, `token`
the caller's tokens. `nest` is a history variable: which hook found which image.
`Overwrite` keeps the bytes behind the copied ones, so hooks of different size on one
target are told apart. A failed assertion at os.c:103 is modelled as the release build
has it (`NDEBUG`); a debug build aborts there. What the copy of a function does when it is
called is the subject of `X86Trampoline`, and not part of this module.

**GotHook.** `Lookup` stands for the search (detailed in `ElfLookup`) and takes the
loader's lock, `Visit` for finding a relocation, then `_elf_replace_function` in its
steps: `Check` (already replaced), `GetProt`, `SetProt`, `Store`, `Restore`, with
`ReplaceFails` and `RestoreFails`; `FinishInject`, `ReturnInject`, `ReturnUninject` end
the calls. `CallocFails` is the failure of `calloc` that nobody checks: the helper is
written through a null pointer and the process is `dead`. Two uninjects, or an uninject and an inject, run side by side: they take no
lock. `StartResolve` and `EndResolve` are the loader's lazy binding, of the symbols in
`Lazy`; `Bound` are the slots that it does not write to.

**ElfLookup.** One action for each way in which the callback for an object returns.
`phdr` is `phdr_info` with, for every table, the index of the object it came from: the
field is not cleared between objects, and this is what most properties are about.
Where a table of one object is indexed with an index of another, `MayFind` and
`MustFind` bound what the comparison of strings can give.

**ArmHook.** `handle` is the memory of `arm_trampoline_t` from `redirect_opcode` on as
one array, because the code indexes out of one array into the next (arm.c:100, 205).

**ElfParser.** Every structure is a layout, the fields in the order in which the parser
walks over them; `Offsets` adds up the widths, so a field that is skipped, swapped or of
the wrong width shifts those behind it. `Number` gives `Garbage` for a read at another
place, in another width or in the wrong byte order. What a file is *meant* to say is in a
field of its content that the parser's definitions do not look at. `ElfFormat` says how the
one follows from the other, with the offsets written down from the standard's tables:
`Conforming` files have each field of what they mean at its offset and in its width.

**FuncSize.** `pc` walks through elf.c:993-1023 and 886-950: `ReadLine` per line of
`/proc/self/maps`, `OpenFile`, `Locate` (the loader's list), `ReadFile`, per section
`SkipSection`, `ReadSymbols` and `Search`, then `Release`. Between any two, `Load` and
`Unload` change the lists (`Dlopen`). `heap` counts what is open or allocated; `info` may
be `Uninit`, as the C variable is when control jumps over its initialization, and freeing
that is `ReleaseCrashes`, which need not but may happen. `*Oom` are failing allocations.

**UHook.** `BeginInject` enters the size lookup, `Inject` and `InjectFails` leave it.
`token` is the caller's `uhook_token_t` with its three fields, `handle` the trampolines and
helpers that `uhook_uninject` is led to by `attrs`, with the origin a GOT helper keeps.
`InjectGot` needs a slot with another content than the detour; with the detour in it
already the call is `InjectGotAgain`, a success that leaves a token of kind `GOTPLT` with
neither a function nor a helper (elf.c:457, 963): a `Hollow` one. To take such a token off
dereferences NULL (`UninjectHollow`, elf.c:979), as does a failed `calloc`
(`InjectGotNoMemory`, elf.c:955). `Uninject` zeroes the token and frees the handle whether
or not the slot got its origin back: that failure is dropped (elf.c:982, x86_64.c:528).

### What the caller promises

uhook has no lock, so several properties hold only for callers with some discipline.
It is a constant of the modules, so that each run says what it assumes:

* `Serial = "page"`: no two calls in flight work in the same page. With `"target"` /
  `"symbol"` only calls on one function are serialized, and then a call may find its
  page write-protected by another: `CallbackWritable` and `SlotWritable` fail.
* `Lifo`: hooks on one function come off newest first. Otherwise a hook that was
  removed comes back and `Restored` fails.
* `FreshDetour`: no symbol is hooked with the detour already in its slots (the run
  `got_same_detour` shows what happens then).
* Always: a token is zeroed before it is used and not injected into while it holds a
  hook, no thread executes the bytes being overwritten or a trampoline being freed, and no
  object with a hook is unloaded. These are duties the code gives no means to check, and
  breaking them is not modelled. (`UHook!Quiet` also keeps calls on one token, function or
  symbol from overlapping.)

## 3. Runs

Passing runs (distinct states in parentheses):

| Run | Shows |
|---|---|
| `trampoline` (54875) | reserved room suffices, an instruction is given up only if nothing reaches, operands are exact, slots reach, redirect code fits |
| `inline` (2708, with symmetry) | types, writable callbacks, stacks of images, restoration, protection at rest, and the refinement of `HookStack` |
| `inline_any_order` (21840) | with every step failing and any order of removal: no leak or double free, every call returns |
| `got` (428605, with symmetry) | types, restoration of slots and protections, agreement of both slots, one origin for both, and the refinement, while the loader binds the slots of some symbols, lookups fail and the process may die in `calloc` |
| `got_faults` (77200) | one-slot symbols, `mprotect` failing in injects and uninjects: no store faults, a failed inject leaves no hook, no helper leaks, every call returns |
| `uhook` (459515, with symmetry) | a size lookup over files of all kinds while objects come and go: fields are read faithfully, the size is the symbol's, path and load address are of the right object, everything is released once by the lookups that return; with inline and GOT hooks, and also after successes without a hook, every hook has the one token that knows its kind and origin |
| `lookup` (48042) | the first object that lists the name is found, and one with a relocation table of its own is patched through that table, at slots of the symbol, whatever objects before it have left behind |
| `arm` (8820) | near hooks, continuation of the wrapped code, forward branches |

Runs that show a disagreement between the code and what its comments, documentation
or tests say (each is a finding in `PROJECT.json`, with the quotation):

| Run | The code |
|---|---|
| `trampoline_length` | rewrites relative operands as if they counted from the start of the instruction |
| `inline_uninject_fails` | compares the result of `_system_modify_opcode` with `> 0` and misses `-1` |
| `got_same_detour` | returns success with a NULL token |
| `lookup_crashes` | frees an uninitialized pointer, or reads and closes a file it could not open, where a failed lookup is to return `(size_t)-1` |

### Bounds

* `X86Jump`: widths of 16, 48 and 128 instead of 2^7, 2^15 and 2^31, with which the
  `trampoline` run uses it. The theorem `FillJumpReaches` covers the real widths.
* `X86Trampoline`: all functions of up to two instructions from a kit of 12 and of
  three from a core of 5, followed by undecodable bytes or not; three places for the
  handle, four for the detour: every case of `fix_jcc`, one and two forward slots, both
  error returns of the redirect code occur. Pages of 16 bytes, so that rounding up
  sometimes leaves no slack.
* `InlineHook`: three targets in two pages, one jump straddling the boundary, one
  function too small for a far jump; jumps of 5 and 14 bytes; two threads and three
  tokens: hooks of different sizes stack up three deep.
* `GotHook`: symbols with two read-only slots, with one read-only and one writable, with
  one of either, with none; two threads; up to three hooks. Handles and helpers are as
  many as tokens, which is no restriction: a call needs one at a time and a token is
  reserved for it.
  The loader binds a symbol with one slot and one with two late (`Lazy`); of the latter
  the second slot is bound from the start, as `.rel.dyn` slots are.
* `UHook`: a program that is not position-independent, a library with a plugin right
  below and right above it that are loaded or not, the vDSO, and memory without a file at
  the library's end; targets in each, at the ends of ranges. The library's file is of
  either class and byte order, with seven arrangements of sections (symbol tables of both
  types, section symbols of size 0, a wrong entry size, more symbols than an `int` counts,
  no sections), with headers before or behind the tables, complete or cut off in each part, or without headers, no ELF file, or
  missing. `IntMax = 3` instead of 2^31 - 1. `MCUHook` lays the files out by the tables of `ElfFormat`, independently of the
  parser's layouts, and assumes that they are `Conforming`. Two tokens, two detours that need 2 and 5 bytes, one symbol: hooks fail
  for lack of size, and a second hook of the symbol finds its detour there or not.
  `lookup_crashes` has one target, in the program at 0, which suffices to go wrong.
* `ElfLookup`: two shared objects and a vDSO or a static object, with all combinations of
  imports, definitions and relocation tables for two symbols. `lookup` has the link maps
  in which every object has a hash table: GNU hash tables, with SysV ones beside them, or SysV ones only, or one object with a SysV
  table only before one with a GNU table. In the other order the lookup goes wrong
  (section 5), and no run has it. Objects that lack `.rel.plt`, the other relocation table
  or both come before and behind objects that have them.
* `ArmHook`: `Half24 = 8` instead of 2^23, all distances from -10 to 10 words.

Deadlock checking is off where the specification stops by design: `X86Trampoline` and
`ArmHook` (one call each), `ElfLookup` (the end of a lookup), `UHook` and the runs of `GotHook`
in which `calloc` may fail (after a crash). It is on for `InlineHook` and `got_faults`: there
is always a call to make.

### Fairness

A step of the code follows the one before without waiting for anything: weak fairness
of each thread's `Step` says that a thread that is in a call gets to run, while the process
is `Alive`. Nothing makes
a program begin a call, so `Begin` is not fair. An inject waits for the loader's lock in
`dl_iterate_phdr`; strong fairness of `Lookup` says that a lock that is released over
and over is given to a waiting thread in the end, which is what the loader's recursive
mutex gives under a scheduler that does not starve. The other modules state no fairness
and no liveness: what they do is a finite walk.

## 4. Proofs

| Theorem | States |
|---|---|
| `X86TrampolineProofs!FillJumpReaches` | off the edges an encoded jump lands |
| `X86TrampolineProofs!FillJumpMisses` | at the edges it misses by the whole range of its operand, if `Half8 + 5 <= Half32` |
| `X86TrampolineProofs!TrampolineTypes` | `Spec => []TypeOK` |
| `X86TrampolineProofs!TrampolineRoom` | `Spec => []RoomForTheRest` |
| `X86TrampolineProofs!TrampolineSlots` | `Spec => []SlotsReach` |
| `X86TrampolineProofs!TrampolineRedirect` | `Spec => []RedirectSound` |
| `X86TrampolineProofs!TrampolineUnknown` | `Spec => []UnknownOnlyIfUnreachable` |
| `X86TrampolineProofs!TrampolineOperands` | `Spec => []OperandExact` |
| `InlineHookProofs!PagesExact` | the pages changed are exactly the pages of the region's bytes |
| `InlineHookProofs!InlineTypes` | `Spec => []TypeOK` |
| `InlineHookProofs!InlineCallbackWritable` | `Spec => []CallbackWritable`, if `Serial = "page"` |
| `InlineHookProofs!InlineHandlesOwned` | `Spec => []HandlesOwned` |
| `InlineHookProofs!InlineWriteProtectedAtRest` | `Spec => []WriteProtectedAtRest`, if `"reprotect"` never fails |
| `InlineHookProofs!InlineStackIntact` | `Spec => []StackIntact`, if `Orderly` |
| `InlineHookProofs!InlineRestored` | `Spec => []Restored`, if `Orderly` |
| `InlineHookProofs!InlineIsAHookStack` | `Spec => IsAHookStack`, if `Orderly` |
| `GotHookProofs!GotTypes` | `Spec => []TypeOK` |
| `GotHookProofs!GotHelpersOwned` | `Spec => []HelpersOwned` |
| `GotHookProofs!GotSlotWritable` | `Spec => []SlotWritable`, if `Serial = "page"` |
| `GotHookProofs!GotProtRestored` | `Spec => []ProtRestored`, if `Serial = "page"` and `"restore"` never fails |
| `GotStackProofs!GotNoOrphan` | `Spec => []NoOrphan`, if `Whole` |
| `GotStackProofs!GotSlotsAgree` | `Spec => []SlotsAgree`, if `Orderly` |
| `GotStackProofs!GotOriginIsDisplaced` | `Spec => []OriginIsDisplaced`, if `Orderly` |
| `GotStackProofs!GotRestored` | `Spec => []Restored`, if `Orderly` |
| `GotStackProofs!GotSuccessHasOrigin` | `Spec => []SuccessHasOrigin`, if `Orderly` |
| `GotStackProofs!GotIsAHookStack` | `Spec => IsAHookStack`, if `Orderly` |
| `ElfLookupProofs!LookupTypes` | `Spec => []TypeOK`, if `Regular` |
| `ElfLookupProofs!LookupFirstOwner` | `Spec => []FirstOwner`, if `Regular` |
| `ElfLookupProofs!LookupSlots` | `Spec => []SlotsOfSymbol`, if `Regular` |
| `ArmHookProofs!ArmTypes` | `Spec => []TypeOK` |
| `ArmHookProofs!ArmNearHook` | `Spec => []NearHookReaches` |
| `ArmHookProofs!ArmWrapGoesOn` | `Spec => []WrapGoesOn` |
| `ArmHookProofs!ArmForwardBranch` | `Spec => []ForwardBranchKept` |
| `UHookProofs!UHookTypes` | `Spec => []TypeOK` |
| `UHookProofs!TokensOwnHooks` | `Spec => []TokenOwnsHook` |
| `UHookProofs!LookupReleasesOnce` | `Spec => []ReleasedOnce` |
| `UHookProofs!LookupRightObject` | `Spec => []RightObject`, if `LaidOut` |
| `ElfParserProofs!LayoutsFollowStandard` | the parser's layouts have the fields, offsets, widths and sizes of the standard's |
| `ElfParserProofs!StandardReadAsMeant` | `ReadAsMeant` (every file is read as it is meant, or refused if it is cut off), if `Conforming` |
| `UHookProofs!LookupReadsFaithfully` | `Spec => []ParsedFaithfully`, if `Conforming` |
| `UHookProofs!LookupSize` | `Spec => []SizeOfSymbol`, if `Conforming` |

They assume the `ASSUME`s of the modules, which TLC evaluates on the instances: types of
the constants, positive page size, widths increasing and larger than a near jump, a detour
that is not the function itself or the loader's stub, sequences of objects without
duplicates, what is read from a file is not `NULL`. Beyond these, what the table says:

* `Orderly` in `InlineHookProofs`: `Lifo`, and an uninject that may make the code
  writable. Without the first a removed hook comes back, without the second the run
  `inline_uninject_fails` shows what happens.
* `Whole` in `GotStackProofs`: an inject that can fail at a slot is on a symbol with one
  slot. At a second slot it leaves the detour in the first (elf.c:620).
* `Orderly` in `GotStackProofs`: `Lifo`, `FreshDetour`, and page protections that can be
  read and set when a call is at a slot. Each is needed: oldest-first removal brings a hook
  back, a detour that is already there gives no origin (`got_same_detour`), and an inject
  that fails half way makes the slots disagree. Lookups that fail and protections that are
  not put back are allowed.
* `Regular` of `ElfLookup`: an object that can be searched has a symbol table and a hash
  table, no object with a GNU hash table comes before one with a SysV table only, and a
  SysV table that is not relocated comes behind a GNU one. Other link maps go wrong
  (section 5, and elf.c:219). Relocation tables may be missing anywhere: `SlotsOfSymbol`
  speaks of objects that have the table in question, and `LookupSlots` says nothing of how
  an object without it is patched (section 5 again).
* `LaidOut` of `FuncSize`: code of an object lies in one of its mappings and in no plugin,
  nothing else is mapped there or ends at its address, and only its own object has the
  address in a segment. An `end` counts as inside (elf.c:682, 878), so this is more than
  being apart.
* `Conforming` of `ElfFormat`: a file that begins like an ELF file is one, that is, its
  content has the fields of its headers and symbols where the standard puts them. It may be
  of either class and byte order, be cut off anywhere, and have tables at any offsets; its
  header sizes are the standard's, and no symbol table has entries of the size of the other
  class, which would be read with the wrong stride (elfparser.c:695-701). A table has less than
  2^32 symbols; one of 2^31 or more counts as unreadable, since the parser's count is an
  `int` (elfparser.c:1008), and that case is covered.

`Regular`, `LaidOut` and `Conforming` are checked by TLC too: `MCElfLookup`
and `MCUHook` assume them of their instances, so that the runs and the theorems speak of
the same.

**Jump.** The real content is modular arithmetic: a displacement in range survives the
store and the sign extension (`SignExtendedFits`); off the edges it is in range. At the
edges it is read back one range too high (`SignExtendedWraps`), so `Edges` excludes no more
than what fails. In the runs' small ranges an edge of the near jump can be a short distance,
hence the hypothesis, which holds of 2^7 and 2^31.

**Trampoline.** `SlotsReach` alone is not inductive: that the next slot fits depends on
the room still there. `RoomForTheRest` is the bank account: at each instruction, the
room left covers a far jump for every jump still to come. It is established by `Alloc`
(`AlignSizeUp`), and a step spends from it at most what the instruction it visits had
reserved (`JumpsStep`, `Spend`). `IInv` adds what the phases of the call keep (`Sized`,
`Reserved`, `Fresh`), and that slots only serve visited branches. For
`UnknownOnlyIfUnreachable` the same account says that at a jump there is room for this one
(`RoomForThis`), so that only the distances are left as a reason to refuse it.
`OperandExact` chooses a slot by its branch; `OInv` says the same of each slot and of each
branch without one (`DirectExact`, `ForwardExact`), what a step can be followed through.

**Inline hook.** `CallbackWritable` needs to know that the pages one call changes are
never those of another. `IInv` says who holds what: a call in flight has a request and,
from `Prepare` on, an allocated handle made for its target (`Calls`, `Allocated`), no
handle has two holders (`Owners`), and calls in flight have different tokens and targets
and, if the caller is page-serial, no page in common (`Apart`). With `PagesExact`, the
region of a call is contained in the pages of its target and covers every byte of the
jump, also over a page boundary; so its own `Unprotect` makes all of it writable, and no
step of another call touches it. Page sizes, alignment and the number of calls in
flight are arbitrary. `HandlesOwned` adds that every allocated handle is in a token or an
inject (`Owned`), from which the counts follow; `WriteProtectedAtRest` that a page is
writable only in the region of a call that will protect it again (`Exposed`).

**Stacks of inline hooks.** `StackIntact` is not inductive: it says nothing of calls in
flight. `SInv` does: the hooks on a target are those of allocated handles, each once
(`HooksMade`, `HookedOnce`, `HooksHeld`), and the backup and the size that a prepared
inject has saved are still right when it writes (`CallsReady`). For that no more than the
caller's promise is needed that no other call works on its target: a second call that
comes between backup and write is ruled out, not shown harmless. The write of an inject is
then `HookStack!Hook` with the image it finds, that of an uninject `Unhook` of the newest;
the lemmas on sequences (`UndersAppend`, `UndersFront`) carry this through the mapping of
`under`.

**GOT hook.** The same ownership invariant with the state of the slot walk: a call at a
slot has noted its kind in the helper, and every noted kind is a slot (`Noted`), so that
it never writes anywhere else. A process that died in `calloc` changes nothing more
(`Halt`). For page-serial callers `PagesApart` gives two calls at slots different pages:
what a call read or set of its page stays true up to its store. For `ProtRestored`, a page
that differs from what the loader set is that of a call at its store or about to restore
it (`Changed`), which remembers the right protection (`Remembered`).

**Stacks of GOT hooks.** A hook is put on a symbol in two stores, between which other calls
and the loader run: none of the properties is inductive. `NInv` says which hooks are where:
a helper that is on a slot is allocated, for that symbol, and has noted the slot (`Hung`),
once (`HungOnce`); an inject is on none of the slots it has still to visit, an uninject on
none that it has passed (`Walked`), and a failed inject is on no slot at all (`Ended`).
`GotNoOrphan` is `Hung`. `SInv` adds what order gives. Below the hook of the call at work,
all slots of a symbol carry the same hooks (`LevelBelow`), and so they do when no call is
(`Level`). That hook is the newest wherever it is (`Newest`), which a caller promises for
the removal (`Lifo`) and `Walked` gives for the rest. A slot leads to its newest detour,
and what a hook found is what the hook under it left (`Stacked`); where the loader binds
late, that or what the loader puts there (`Leading`). A store is then `HookStack!Hook` or
`Unhook` on one slot; a `Check` that finds its slot done cannot happen to an inject, by
`Fresh`, and is an `Unhook` without a store in an uninject.

**Lookup.** `phdr_info` is shared by all objects. Which field of it an object's dynamic
section overwrites is a loop with an early exit, which `Parsed` states in closed form: a
tag's field is set if the tag is reached before an entry that stops the loop. A regular
object overwrites its symbol table; a bloom filter that is left comes from an earlier
object that has one (`BloomKnown`), behind which every object has its own. So a search
compares the object's own names (`SearchTables`), the objects passed do not have the name
(`Passed`), and the index found is that of the name where the relocations are searched
(`Outcome`). Of the relocation tables nothing is known before an object is parsed; the slots
of an object that has the table come from it because the parse sets the field anew
(`SearchRelocations`).

**ARM.** A computation: the words the three arrays hold once a call has prepared them (lemma
`Prepared`) stay until they are freed, and the code differs in its first word only (`AInv`).
An offset of a branch, less the two words the processor is ahead and modulo 2^24, is read
back with its sign off the edges (`SignedOffset`, `OffsetRead`).

**Public interface.** `HInv` relates tokens and handles: a token is all zero, is hollow,
or holds an allocated handle of its kind with the origin of the hook, no two the same, and
no handle is without a token; the token of a call in flight is zero until it returns. No
fact about files enters, so the theorem holds whatever a size lookup returns.
`LookupReleasesOnce` is the converse: only the lookup matters, and `Heap` says at each of
its steps which of its pointers are open (`Locals`: which of them may be).

**Size lookup.** `RightObject` relates the list of mappings to the list of objects, read at
different times while both change. What stays is the function's own object: its mapping is
still ahead of the cursor, or its path has been found (`Agreed`). A line that is read in
between lies below it: no other line covers the address (`NextLine`), and the next line, the
lowest ahead, exists because every set of naturals has a least element (`Least`, from the
library's well-founded order of finite sets). `SizeOfSymbol` says which symbol counts,
`SizeMeant`, the first in the file's order; the scan goes by sections and gives up at the
first hit. `Scanned` is that no section behind the cursor has a symbol with the address,
where a table that could not be read counts as having none.

**Reader.** The offsets of a layout are a recursive function. That there is one is proved by
a least counterexample (`OffsetsExist`, again from `Least`), after which the layouts are
computed field by field and compared with the standard's tables (`LayoutsFollowStandard`).
A structure is then read field by field (`StructRead`), a header is read if it is all there
(`PhdrRead`, `ShdrRead`), a file if all of its headers are, which is when the last of them is
(`FileParsed`, `HeadersRead`), and a table if its last symbol is (`SymbolsRead`). Together
this is `ReadAsMeant`, which is all that `LookupSize` and `LookupReadsFaithfully` need to
know of the reader; with it `ParsedFaithfully` is inductive, given which locals a lookup has
at which step (`Locals`). A symbol table without symbols is read wherever it is said to be,
even behind the end of the file: `ReadAsMeant` allows for that.

**Only model-checked**: liveness (`CallsReturn`), which is out of the provers' reach. The
four runs that find the code at odds with its documentation state no theorem, but
`GotSuccessHasOrigin` proves the converse of `got_same_detour`: with fresh detours the
assertion of the test holds.

## 5. Not modelled

* **Dumps, log, once**: they change no state of the library. With the dumps go the
  parser's readers of buffers, which only they use, and headers with entry sizes larger than
  the parser's buffers.
* **ARM beyond one hook**: repeated hooks and page protection (the code asks for 1 or 3
  bytes to be writable and writes words).
* **Calling a hooked function**: no module executes `fcall` of a hook on top of another, whose
  copy holds the jump of the hook below; `X86Trampoline` has the copy of one function, and
  shows by `trampoline_length` that a copied near jump misses by its length.
* **Injecting into a token in use**, or into one that was never zeroed.
* **Instruction bytes**: an instruction is what the decoder reports of it. Operands other
  than relative ones, RIP-relative ones in particular, are copied by the code as they are,
  and by the model too.
* **Executing threads** in code being overwritten or freed, unloading of objects.
* **Hash functions and bloom filters**: a hash table is the set of names it lists.
* **Windows**: same control flow with other system calls.

### Limits of the code met while modelling

The modules follow the code in each of these. No run reports them unless one is named: the
discipline and the bounds of the runs (sections 2 and 3) stay clear of them, or the
properties state what does hold.

* The jump encoder picks the width from the distance but stores the distance less the
  length of the jump: at `X86Jump!Edges` the jump goes astray (x86_64.c:172, 176), as
  `FillJumpMisses` proves.
* The address just behind the body counts as inside, so a branch to the function behind
  it is left pointing into the trampoline (x86_64.c:283).
* Hooks taken off oldest first bring a removed hook back (x86_64.c:193).
* A page is write-protected again while another call works in it: os.c:102 for code,
  elf.c:481 and 486 for slots, where a call may also put back another's protection.
* A GOT hook that fails at its second slot leaves the detour in the first (elf.c:620).
* A GOT unhook that cannot make its slot writable leaves the detour there, and frees the
  helper all the same (elf.c:982).
* Taking off the token of a GOT hook that found its detour in place dereferences NULL
  (elf.c:979); `got_same_detour` shows how such a token comes about.
* The helper of a GOT hook is used without looking whether `calloc` gave one (elf.c:955).
* A hook on a lazy slot is lost when the loader binds the symbol (elf.c:481).
* The parse context is not cleared between objects: behind an object with a GNU hash
  table an object's SysV table is ignored (elf.c:214), and an object without a relocation
  table is searched with that of an earlier one, at that object's slots (elf.c:596, 614).
* A GNU hash table lists no imports, so an object that only imports a function is not
  found through it (elf.c:312-321).
* `name@library` (uhook.h:47) is not implemented: the name is compared as a whole
  (elf.c:657).
* In a program that is not position-independent, relocation 0 is taken for "not found":
  its functions are refused, and the uninitialized `info` is freed (elf.c:897, 942; run
  `lookup_crashes`).
* A path that cannot be opened (the vDSO, a deleted file) is read and closed all the same
  (elf.c:907, 947; the same run).
* A failed inject leaves the token as it is, although uhook.h:37 says it is set to NULL:
  the same for zeroed tokens.
* The first symbol with the address decides, also a section symbol of size 0, for which
  the hook is refused as too small (elf.c:924).
* The file at the path is read when a hook is made, and need not be the one that was
  loaded (elf.c:894).
* The ends of ranges count: code without a file right behind an object is taken for part of
  it (elf.c:682, 878).
* On ARM the undo copies words back of which one to three bytes were saved, since the size
  of the jump is counted in words and used in bytes (arm.c:196, 205).
* On ARM a backward branch loses its sign (arm.c:137), and a far hook installs only part
  of its jump (arm.c:100).

## 6. Plan

Written in this order, the most important behaviour first: `OsPages`, `X86Jump`,
`X86Trampoline` (what a hook is made of), `InlineHook` with `HookStack` (how hooks come
and go), `GotHook`, `ElfLookup`, `ArmHook`, then `ElfParser`, `FuncSize` and `UHook` (how
the size is found, and both kinds of hooks together). Left:

1. `ArmHook` with two hooks on one target and with page protection.
2. `ElfLookup` for objects with a GNU hash table before ones with a SysV table only: which
   lookups still go right.
