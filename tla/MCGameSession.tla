---------------------------- MODULE MCGameSession ----------------------------
(***************************************************************************)
(* Model-checking instance of GameSession.                                 *)
(***************************************************************************)
EXTENDS GameSession, TLC

\* Commands, copies of a lobby call and session instances are interchangeable.
Symmetry ==
  Permutations(Commands) \cup Permutations(LobbyCopies) \cup Permutations(Sessions)

=============================================================================
