----------------------------- MODULE HookStack -----------------------------
(***************************************************************************)
(* What hooking promises, whichever way it is done: a cell (the code of a   *)
(* function, a slot of the global offset table) takes a new content, and    *)
(* giving the hook back puts into the cell exactly what the hook had found  *)
(* there.                                                                   *)
(***************************************************************************)
EXTENDS Integers, Sequences

CONSTANTS Cell, Content,
          Pristine  \* in [Cell -> Content]: what is there while nobody hooks it

VARIABLES
    cell,   \* what a cell holds
    under   \* what the hooks now on a cell found there, the oldest first

Init ==
    /\ cell = Pristine
    /\ under = [c \in Cell |-> <<>>]

\* Any new content will do; no other cell changes
Hook(c) ==
    /\ under' = [under EXCEPT ![c] = Append(@, cell[c])]
    /\ cell' \in [Cell -> Content]
    /\ \A b \in Cell \ {c} : cell'[b] = cell[b]

Unhook(c) ==
    /\ under[c] # <<>>
    /\ cell' = [cell EXCEPT ![c] = under[c][Len(under[c])]]
    /\ under' = [under EXCEPT ![c] = SubSeq(@, 1, Len(@) - 1)]

Next == \E c \in Cell : Hook(c) \/ Unhook(c)

Spec == Init /\ [][Next]_<<cell, under>>
=============================================================================
