----------------------------- MODULE MCGotHook -----------------------------
(* Symbols with two slots in a page the loader made read-only (full), with   *)
(* one there and one in a writable page (mixed), with only the one or the    *)
(* other (fixed, single), and with none (absent).                            *)
EXTENDS GotHook, TLC

CONSTANTS full, mixed, fixed, single, absent, relro, data

MCSlots == {s \in {<<full, "plt">>, <<full, "dyn">>, <<mixed, "plt">>,
                   <<mixed, "dyn">>, <<fixed, "dyn">>, <<single, "plt">>} :
               s[1] \in Symbol}
MCSlotPage == [s \in MCSlots |->
                  IF s \in {<<mixed, "plt">>, <<single, "plt">>} THEN data ELSE relro]
MCInitProt == [p \in Page |-> IF p = relro THEN "R" ELSE "RW"]

\* Threads, tokens, helpers and detours are interchangeable
Symmetry ==
    Permutations(Thread) \cup Permutations(Token) \cup Permutations(Helper)
        \cup Permutations(Detour)
=============================================================================
