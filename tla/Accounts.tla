------------------------------ MODULE Accounts ------------------------------
(***************************************************************************)
(* What every operation on a user's chips shares: the row of the user in   *)
(* user_snapshots, the transactions that update it (store.WithTx, at READ  *)
(* COMMITTED, the default of Postgres) and the pool of connections they    *)
(* run on.  An update is private to its transaction, and locks the row,    *)
(* until the transaction commits or is rolled back.                        *)
(***************************************************************************)
EXTENDS Integers, FiniteSets

CONSTANTS
  Users,      \* user ids
  PoolSize,   \* pgxpool.Config.MaxConns
  MaxFaults,  \* bound: calls of the store that fail
  None        \* no transaction, no user

ASSUME AccountsAssumption ==
  /\ IsFiniteSet(Users)
  /\ PoolSize \in Nat \ {0} /\ MaxFaults \in Nat
  /\ None \notin Users

VARIABLES
  balance,    \* chip_balance of every user, as committed
  deposited,  \* total_deposited of every user, as committed
  holder,     \* the transaction that has updated the row and has not ended
  change,     \* what that transaction has added to chip_balance
  inTx,       \* the calls whose WithTx holds a connection
  inAppend,   \* the calls whose AppendEvents holds one more
  faults      \* calls of the store that have failed

rowVars     == <<holder, change>>
poolVars    == <<inTx, inAppend>>
accountVars == <<balance, deposited, rowVars, poolVars, faults>>

ConnectionFree == Cardinality(inTx) + Cardinality(inAppend) < PoolSize

\* WithTx: pool.Begin waits for a connection.
BeginTx(c) ==
  /\ ConnectionFree
  /\ inTx' = inTx \cup {c}
  /\ UNCHANGED inAppend

\* UPDATE user_snapshots SET chip_balance = chip_balance + n: waits for the row.
AddToBalance(c, u, n) ==
  /\ holder[u] = None
  /\ holder' = [holder EXCEPT ![u] = c]
  /\ change' = [change EXCEPT ![u] = n]

ReleaseRows(c) ==
  /\ holder' = [u \in Users |-> IF holder[u] = c THEN None ELSE holder[u]]
  /\ change' = [u \in Users |-> IF holder[u] = c THEN 0 ELSE change[u]]

Release(c) ==
  /\ ReleaseRows(c)
  /\ inTx' = inTx \ {c}
  /\ inAppend' = inAppend \ {c}

\* tx.Commit publishes the update and gives row and connection back.
CommitBalance(c) ==
  /\ balance' = [u \in Users |-> IF holder[u] = c THEN balance[u] + change[u] ELSE balance[u]]
  /\ Release(c)

\* The deferred tx.Rollback of WithTx and AppendEvents.
RollbackBalance(c) == UNCHANGED <<balance, deposited>> /\ Release(c)

\* A call of the store fails: the connection breaks, the context ends.
Fault == faults < MaxFaults /\ faults' = faults + 1

AccountsInit(chips) ==
  /\ balance = chips
  /\ deposited = chips
  /\ holder = [u \in Users |-> None]
  /\ change = [u \in Users |-> 0]
  /\ inTx = {}
  /\ inAppend = {}
  /\ faults = 0

=============================================================================
