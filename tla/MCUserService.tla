---------------------------- MODULE MCUserService ----------------------------
(***************************************************************************)
(* Model-checking instance of UserService.                                 *)
(***************************************************************************)
EXTENDS UserService, TLC

\* Calls, report ids, dates and user ids are interchangeable.
Symmetry ==
  Permutations(ReportCalls) \cup Permutations(Reports) \cup Permutations(Days)
    \cup Permutations(Users)

=============================================================================
