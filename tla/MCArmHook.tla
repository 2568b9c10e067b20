----------------------------- MODULE MCArmHook -----------------------------
(* Every function of three words whose first is a branch forwards or         *)
(* backwards, bx lr, or another instruction with zero bytes at its low end   *)
(* or without, at every layout of a small address space: with Half24 = 8     *)
(* target and handle lie near each other or not, and so do target and detour. *)
EXTENDS ArmHook

Firsts == {Word("branch", k, "none") : k \in {0, 1, 5, 7, 10, 14}}
              \cup {Word("plain", 1, low) : low \in {"none", "byte", "half"}}
              \cup {Word("bxlr", 0, "none")}

MCFunctions == {<<w, Word("plain", 2, "none"), Word("plain", 3, "none")>> : w \in Firsts}

MCLayouts == [target : {100}, detour : 90 .. 110, handle : {60, 86, 92, 96, 104, 140}]
=============================================================================
