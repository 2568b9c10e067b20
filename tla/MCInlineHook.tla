---------------------------- MODULE MCInlineHook ----------------------------
(* Up to three targets on two pages of 64 bytes: first and edge in the same  *)
(* page, a far jump in edge reaching into the next one, which holds small, a *)
(* function too small for a far jump.                                        *)
EXTENDS InlineHook, TLC

CONSTANTS first, edge, small, near, far

MCAddr == [t \in Target |-> IF t = first THEN 16 ELSE IF t = edge THEN 56 ELSE 80]
MCFuncSize == [t \in Target |-> IF t = small THEN 10 ELSE 20]
MCRedirectSize == [t \in Target |-> [d \in Detour |-> IF d = near THEN 5 ELSE 14]]

\* Threads, tokens and handles are interchangeable
Symmetry ==
    Permutations(Thread) \cup Permutations(Token) \cup Permutations(Handle)
=============================================================================
