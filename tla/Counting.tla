------------------------------- MODULE Counting -------------------------------
(***************************************************************************)
(* Sums of amounts over a finite set, without recursion: the chips          *)
(* themselves are counted.                                                 *)
(***************************************************************************)
EXTENDS Integers, FiniteSets

\* The single chips of the amounts in f, each a pair of its owner and an index.
Units(f) == UNION {{x} \X (1..f[x]) : x \in DOMAIN f}

\* The sum of the amounts in f.
Total(f) == Cardinality(Units(f))

=============================================================================
