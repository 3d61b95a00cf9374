------------------------------- MODULE MCTable -------------------------------
(***************************************************************************)
(* Model-checking instance of Table.                                       *)
(***************************************************************************)
EXTENDS Table, TLC

\* Players are interchangeable: only their seats and stacks tell them apart.
Symmetry == Permutations(Players)

=============================================================================
