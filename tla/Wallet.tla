------------------------------- MODULE Wallet -------------------------------
(***************************************************************************)
(* Everything that moves chips in or out of a user's balance at once: step *)
(* reports, joins and leaves, on the same rows, logs and connections.      *)
(***************************************************************************)
EXTENDS StepDeposits, LobbyWallet

CONSTANT InitialChips  \* the balance every user starts with

ASSUME WalletAssumption == InitialChips \in Nat /\ ReportCalls \cap LobbyCalls = {}

vars == <<accountVars, depositVars, lobbyVars>>

\* The process dies: every transaction is rolled back, every call fails.
Restart ==
  /\ Fault
  /\ stage' = [c \in ReportCalls |-> IF InTx(c) \/ stage[c] = "begin" THEN "failed" ELSE stage[c]]
  /\ step' = [c \in LobbyCalls |->
                IF Unpaid(c) THEN "unpaid"
                ELSE IF InLobbyTx(c) \/ step[c] = "start" THEN "failed" ELSE step[c]]
  /\ holder' = [u \in Users |-> None] /\ change' = [u \in Users |-> 0]
  /\ inTx' = {} /\ inAppend' = {}
  /\ dayLock' = [k \in Users \X Days |-> None]
  /\ wrote' = {}
  /\ openers' = {c \in openers : ~InTx(c)}
  /\ inserting' = [g \in Games |-> None]
  /\ UNCHANGED <<balance, deposited, cap, opened, daily, auditVars, req, delta, limit,
                 tableVars, planVars, tries, plays>>

Init ==
  /\ AccountsInit([u \in Users |-> InitialChips])
  /\ DepositsInit
  /\ LobbyInit

Next ==
  \/ \E c \in ReportCalls :
       ((\E u \in Users : Report(c, u)) \/ DepositStep(c)) /\ UNCHANGED lobbyVars
  \/ \E c \in LobbyCalls : LobbyStep(c) /\ UNCHANGED depositVars
  \/ \E g \in Games : SessionAppends(g) /\ UNCHANGED depositVars
  \/ Restart

Spec == Init /\ [][Next]_vars

Progress ==
  \/ \E c \in ReportCalls : Proceed(c) /\ UNCHANGED lobbyVars
  \/ \E c \in LobbyCalls : ProceedLobby(c) /\ UNCHANGED depositVars

\* As long as some call in progress does not wait for another, one of them goes on.
FairSpec == Spec /\ WF_vars(Progress)

-----------------------------------------------------------------------------
ChipsAt(g) == pot[g] + Total(stack[g])

LeaveCalls == {c \in LobbyCalls : c.op = "leave"}

\* The cash-outs of user u that are still to be paid, and those that never will be.
CashOuts(u, steps) ==
  Total([c \in LeaveCalls |-> IF c.user = u /\ step[c] \in steps THEN cash[c] ELSE 0])
Owed(u) == CashOuts(u, {"credit", "commit"})
Lost(u) == CashOuts(u, {"unpaid"})

\* The account of u as the user sees it, the table and the chips that were lost.
Account == [u \in Users |-> balance[u] + Owed(u)]
AtTable == [g \in Games |-> ChipsAt(g)]
Missing == [u \in Users |-> Lost(u)]

\* Joins, leaves, deposits and their retries never create chips, and lose only the
\* cash-outs of leaves that failed after their events were appended: everything else
\* ever deposited is on an account, on a table or owed to a player who is leaving.
WalletSound == Total(Account) + Total(AtTable) + Total(Missing) = Total(deposited)

\* A balance is never overdrawn, whatever joins several tables at once.
NeverOverdrawn == \A u \in Users : balance[u] + change[u] >= 0

\* Every call returns, however calls wait for rows, for uncommitted events and for
\* connections of each other, as long as the pool has a connection more than there
\* are leaves in progress.
CallsReturn ==
  []<>(/\ \A c \in ReportCalls : stage[c] \in {"idle", "done", "failed"}
       /\ \A c \in LobbyCalls : step[c] \in {"new", "ok", "failed", "unpaid"})

-----------------------------------------------------------------------------
\* LeaveTable "atomically appends a PlayerLeft event (and PlayerFolded if the player
\* is in an active hand), credits the remaining stack to the user's balance".
\* AppendEvents commits a transaction of its own: a failure after it loses the stack.
LeaveAtomic == Total(Account) + Total(AtTable) = Total(deposited)

-----------------------------------------------------------------------------
\* What users are promised: module Bank.
B == INSTANCE Bank WITH account <- Account, atTable <- AtTable, lost <- Missing

\* A user sees each deposit, buy-in and cash-out happen at once, with the whole stack
\* and never more than the account holds, although they take many statements; chips
\* are lost only in the step in which a call of the store fails.
ImplementsBank == B!Spec

=============================================================================
