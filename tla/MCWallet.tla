------------------------------ MODULE MCWallet ------------------------------
(***************************************************************************)
(* Model-checking instance of Wallet.                                      *)
(***************************************************************************)
EXTENDS Wallet

CONSTANTS u1, u2, g1, g2

JoinCall(i, n, u, g, b, s) ==
  [id |-> i, n |-> n, op |-> "join", user |-> u, game |-> g, buyIn |-> b, seat |-> s]
LeaveCall(i, n, u, g) ==
  [id |-> i, n |-> n, op |-> "leave", user |-> u, game |-> g, buyIn |-> 1, seat |-> 0]

\* u1 joins two tables with chips for one, u2 asks for the seat u1 would be given at
\* the first, and u1's leave is sent twice.
RacingCalls ==
  {JoinCall(1, 1, u1, g1, 2, 0), JoinCall(2, 1, u1, g2, 2, 0), JoinCall(3, 1, u2, g1, 2, 1),
   LeaveCall(4, 1, u1, g1), LeaveCall(4, 2, u1, g1)}

\* u1 joins a table and leaves it.
JoinAndLeave == {JoinCall(1, 1, u1, g1, 2, 0), LeaveCall(2, 1, u1, g1)}

=============================================================================
