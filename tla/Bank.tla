-------------------------------- MODULE Bank --------------------------------
(***************************************************************************)
(* What the wallet promises its users: chips are deposited to an account,  *)
(* carried to a table and cashed out again, one user at a time and each in *)
(* a single step.  Play at a table moves chips between its players, which  *)
(* is nothing here.  A cash-out may be lost when a call of the store fails.*)
(***************************************************************************)
EXTENDS Integers

CONSTANTS Users, Games

VARIABLES
  account,    \* the chips of a user away from the tables
  deposited,  \* the chips a user has been granted so far
  atTable,    \* the chips at a game
  lost,       \* the chips a user has lost to failures
  faults      \* failures so far

vars == <<account, deposited, atTable, lost, faults>>

Deposit(u) ==
  /\ deposited'[u] > deposited[u]
  /\ deposited' = [deposited EXCEPT ![u] = deposited'[u]]
  /\ account' = [account EXCEPT ![u] = @ + deposited'[u] - deposited[u]]
  /\ UNCHANGED <<atTable, lost>>

\* Chips go from the account of u to game g, no more than the account holds.
BuyIn(u, g) ==
  /\ atTable'[g] > atTable[g]
  /\ \E n \in 1..account[u] :
       /\ account' = [account EXCEPT ![u] = @ - n]
       /\ atTable' = [atTable EXCEPT ![g] = @ + n]
  /\ UNCHANGED <<deposited, lost>>

CashOut(u, g) ==
  /\ atTable'[g] < atTable[g]
  /\ \E n \in 1..atTable[g] :
       /\ account' = [account EXCEPT ![u] = @ + n]
       /\ atTable' = [atTable EXCEPT ![g] = @ - n]
  /\ UNCHANGED <<deposited, lost>>

\* A failure: every user may lose chips of the account, and nothing else changes.
Fail ==
  /\ faults' > faults
  /\ \A u \in Users : account'[u] + lost'[u] = account[u] + lost[u] /\ lost'[u] >= lost[u]
  /\ UNCHANGED <<deposited, atTable>>

Init ==
  /\ account = deposited
  /\ atTable = [g \in Games |-> 0]
  /\ lost = [u \in Users |-> 0]

Next ==
  \/ \E u \in Users : Deposit(u)
  \/ \E u \in Users, g \in Games : BuyIn(u, g) \/ CashOut(u, g)
  \/ Fail

Spec == Init /\ [][Next]_<<account, deposited, atTable, lost>>

=============================================================================
