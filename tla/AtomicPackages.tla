--------------------------- MODULE AtomicPackages ---------------------------
(***************************************************************************)
(* What a package operation promises: the installed state changes in one   *)
(* step, from a valid state to one the operation may produce, or not at    *)
(* all, whatever fails or crashes on the way.                              *)
(***************************************************************************)
EXTENDS PackageState

CONSTANT InitialSchema   \* 1 for a fresh root; an emptied root keeps its own

VARIABLE state

Init == state = EmptyState(InitialSchema)

(* An operation that finds nothing to change leaves the state as it is. *)
Operate ==
    /\ state' # state
    /\ state' \in Successors(state)

Next == Operate

Spec == Init /\ [][Next]_state
=============================================================================
