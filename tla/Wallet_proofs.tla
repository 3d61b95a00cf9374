---------------------------- MODULE Wallet_proofs ----------------------------
(***************************************************************************)
(* Proofs about Wallet, for any number of users, games, calls and faults:  *)
(* no balance is overdrawn, no seat is given twice, and joins, leaves and  *)
(* deposits implement the bank of module Bank, which conserves chips.      *)
(***************************************************************************)
EXTENDS Wallet, StepDeposits_proofs

Steps == {"new", "start", "find", "load", "debit", "insert", "begin2", "append", "credit",
          "commit", "ok", "failed", "unpaid"}

WalletTypes ==
  /\ balance \in [Users -> Nat]
  /\ holder \in [Users -> ReportCalls \cup LobbyCalls \cup {None}]
  /\ change \in [Users -> Int]
  /\ faults \in Nat

TableTypes ==
  /\ seq \in [Games -> Nat]
  /\ seat \in [Games -> [Users -> Nat]]
  /\ stack \in [Games -> [Users -> Nat]]
  /\ pot \in [Games -> Nat]
  /\ inserting \in [Games -> LobbyCalls \cup {None}]

PlanTypes ==
  /\ step \in [LobbyCalls -> Steps]
  /\ base \in [LobbyCalls -> Nat]
  /\ chosen \in [LobbyCalls -> Nat]
  /\ cash \in [LobbyCalls -> Nat]

\* The statements between the update of a row and the end of its transaction.
ReportHolds(c, u) == stage[c] = "commit" /\ req[c].user = u
LobbyHolds(c, u) ==
  /\ c.user = u
  /\ \/ c.op = "join" /\ step[c] \in {"insert", "commit"}
     \/ c.op = "leave" /\ step[c] = "commit" /\ cash[c] > 0

\* A row is locked by the one call that has updated it, with what it has added, and a
\* debit is covered by the balance until the row is free again.
RowsHeld ==
  \A u \in Users :
    /\ \A c \in ReportCalls : holder[u] = c <=> ReportHolds(c, u)
    /\ \A c \in LobbyCalls : holder[u] = c <=> LobbyHolds(c, u)
    /\ holder[u] = None => change[u] = 0
    /\ \A c \in ReportCalls : holder[u] = c => change[u] = delta[c]
    /\ \A c \in LobbyCalls : holder[u] = c =>
         change[u] = IF c.op = "join" THEN -c.buyIn ELSE cash[c]
    /\ balance[u] + change[u] >= 0

\* Chips lie in front of seated players only.
StacksSeated == \A g \in Games, u \in Users : seat[g][u] = 0 => stack[g][u] = 0

Current(c) == base[c] = seq[c.game]

\* What a call has read of the table is true as long as no event was committed since,
\* and an event that is about to be committed keeps every other one out.
PlanCurrent(c) ==
  /\ step[c] \in {"debit", "insert"} => c.op = "join"
  /\ step[c] \in {"begin2", "append", "credit"} => c.op = "leave"
  /\ base[c] <= seq[c.game]
  /\ c.op = "join" /\ step[c] \in {"debit", "insert", "commit"} /\ Current(c) =>
       seat[c.game][c.user] = 0 /\ chosen[c] \in FreeSeats(c.game)
  /\ c.op = "leave" /\ step[c] \in {"begin2", "append"} /\ Current(c) =>
       cash[c] = stack[c.game][c.user]
  /\ c.op = "join" /\ step[c] = "commit" => Current(c) /\ inserting[c.game] = c

PlansCurrent == \A c \in LobbyCalls : PlanCurrent(c)

LobbyInv == TableTypes /\ PlanTypes /\ StacksSeated /\ PlansCurrent /\ SeatsDistinct
WalletInv == WalletTypes /\ DepositInv /\ LobbyInv /\ RowsHeld

-----------------------------------------------------------------------------
(***************************************************************************)
(* Rows: what the end of a transaction and an update do to them.           *)
(***************************************************************************)

\* No call is of both kinds, and none is None.
LEMMA CallsApart ==
  /\ \A c \in ReportCalls : c # None /\ c \notin LobbyCalls
  /\ \A c \in LobbyCalls : c # None /\ c \notin ReportCalls
  BY WalletAssumption, DepositsAssumption, LobbyAssumption

\* The records that lobby calls are.
LEMMA LobbyCallType ==
  ASSUME NEW c \in LobbyCalls
  PROVE  /\ c.op \in {"join", "leave"} /\ c.user \in Users /\ c.game \in Games
         /\ c.buyIn \in Nat /\ c.buyIn > 0 /\ c.seat \in Nat
  BY LobbyAssumption

\* The other calls hold what they held.
OthersHold(c) ==
  /\ \A e \in ReportCalls : e # c =>
       /\ \A u \in Users : ReportHolds(e, u)' <=> ReportHolds(e, u)
       /\ delta'[e] = delta[e]
  /\ \A e \in LobbyCalls : e # c =>
       /\ \A u \in Users : LobbyHolds(e, u)' <=> LobbyHolds(e, u)
       /\ cash'[e] = cash[e]

\* Call c, of either kind, holds the row of u.
Holds(c, u) == (c \in ReportCalls /\ ReportHolds(c, u)) \/ (c \in LobbyCalls /\ LobbyHolds(c, u))

\* A statement that neither updates a row nor ends a transaction.
LEMMA RowsSame ==
  ASSUME RowsHeld, UNCHANGED <<balance, holder, change>>, NEW c, OthersHold(c),
         \A u \in Users : Holds(c, u)' <=> Holds(c, u),
         \A u \in Users : Holds(c, u) =>
           /\ c \in ReportCalls => delta'[c] = delta[c]
           /\ c \in LobbyCalls => cash'[c] = cash[c]
  PROVE  RowsHeld'
<1>1. ASSUME NEW u \in Users, NEW e \in ReportCalls
      PROVE  /\ ReportHolds(e, u)' <=> ReportHolds(e, u)
             /\ holder[u] = e => delta'[e] = delta[e]
  <2>1. CASE e = c
    BY <2>1, CallsApart DEF Holds, RowsHeld
  <2>2. CASE e # c
    BY <2>2 DEF OthersHold
  <2> QED
    BY <2>1, <2>2
<1>2. ASSUME NEW u \in Users, NEW e \in LobbyCalls
      PROVE  /\ LobbyHolds(e, u)' <=> LobbyHolds(e, u)
             /\ holder[u] = e => cash'[e] = cash[e]
  <2>1. CASE e = c
    BY <2>1, CallsApart DEF Holds, RowsHeld
  <2>2. CASE e # c
    BY <2>2 DEF OthersHold
  <2> QED
    BY <2>1, <2>2
<1> QED
  BY <1>1, <1>2 DEF RowsHeld

\* tx.Commit or tx.Rollback: the call gives up its row.
LEMMA RowsReleased ==
  ASSUME WalletTypes, RowsHeld, NEW c \in ReportCalls \cup LobbyCalls, ReleaseRows(c),
         \/ UNCHANGED balance
         \/ balance' = [u \in Users |-> IF holder[u] = c THEN balance[u] + change[u] ELSE balance[u]],
         OthersHold(c), \A u \in Users : ~Holds(c, u)'
  PROVE  /\ balance' \in [Users -> Nat]
         /\ holder' \in [Users -> ReportCalls \cup LobbyCalls \cup {None}]
         /\ change' \in [Users -> Int]
         /\ RowsHeld'
<1>1. /\ holder' = [u \in Users |-> IF holder[u] = c THEN None ELSE holder[u]]
      /\ change' = [u \in Users |-> IF holder[u] = c THEN 0 ELSE change[u]]
  BY DEF ReleaseRows
<1>2. /\ holder' \in [Users -> ReportCalls \cup LobbyCalls \cup {None}]
      /\ change' \in [Users -> Int]
  BY <1>1 DEF WalletTypes
<1>3. balance' \in [Users -> Nat] /\ \A u \in Users : balance'[u] + change'[u] >= 0
  <2>1. \A u \in Users : /\ balance[u] \in Nat /\ change[u] \in Int
                         /\ balance[u] + change[u] >= 0
    BY DEF WalletTypes, RowsHeld
  <2>2. CASE UNCHANGED balance
    BY <1>1, <2>1, <2>2 DEF WalletTypes
  <2>3. CASE balance' = [u \in Users |-> IF holder[u] = c THEN balance[u] + change[u] ELSE balance[u]]
    BY <1>1, <2>1, <2>3
  <2> QED
    BY <2>2, <2>3
<1>4. c # None
  BY CallsApart
<1>5. ASSUME NEW u \in Users, NEW e \in ReportCalls
      PROVE  /\ holder'[u] = e <=> ReportHolds(e, u)'
             /\ holder'[u] = e => change'[u] = delta'[e]
  <2>1. CASE e = c
    BY <1>1, <1>4, <2>1 DEF Holds
  <2>2. CASE e # c
    BY <1>1, <2>2, CallsApart DEF OthersHold, RowsHeld
  <2> QED
    BY <2>1, <2>2
<1>6. ASSUME NEW u \in Users, NEW e \in LobbyCalls
      PROVE  /\ holder'[u] = e <=> LobbyHolds(e, u)'
             /\ holder'[u] = e => change'[u] = IF e.op = "join" THEN -e.buyIn ELSE cash'[e]
  <2>1. CASE e = c
    BY <1>1, <1>4, <2>1 DEF Holds
  <2>2. CASE e # c
    BY <1>1, <2>2, CallsApart DEF OthersHold, RowsHeld
  <2> QED
    BY <2>1, <2>2
<1>7. \A u \in Users : holder'[u] = None => change'[u] = 0
  BY <1>1 DEF RowsHeld
<1> QED
  BY <1>2, <1>3, <1>5, <1>6, <1>7 DEF RowsHeld

\* UPDATE user_snapshots: the call takes a row that nobody holds.
LEMMA RowsAcquired ==
  ASSUME WalletTypes, RowsHeld, NEW c \in ReportCalls \cup LobbyCalls, NEW u \in Users,
         NEW n \in Int, AddToBalance(c, u, n), UNCHANGED balance, balance[u] + n >= 0,
         OthersHold(c), \A v \in Users : ~Holds(c, v),
         \A v \in Users : Holds(c, v)' <=> v = u,
         c \in ReportCalls => n = delta'[c],
         c \in LobbyCalls => n = IF c.op = "join" THEN -c.buyIn ELSE cash'[c]
  PROVE  /\ holder' \in [Users -> ReportCalls \cup LobbyCalls \cup {None}]
         /\ change' \in [Users -> Int]
         /\ RowsHeld'
<1>1. /\ holder[u] = None
      /\ holder' = [holder EXCEPT ![u] = c] /\ change' = [change EXCEPT ![u] = n]
  BY DEF AddToBalance
<1>2. /\ holder' \in [Users -> ReportCalls \cup LobbyCalls \cup {None}]
      /\ change' \in [Users -> Int]
      /\ \A v \in Users : /\ holder'[v] = IF v = u THEN c ELSE holder[v]
                          /\ change'[v] = IF v = u THEN n ELSE change[v]
  BY <1>1 DEF WalletTypes
<1>3. ASSUME NEW v \in Users, NEW e \in ReportCalls
      PROVE  /\ holder'[v] = e <=> ReportHolds(e, v)'
             /\ holder'[v] = e => change'[v] = delta'[e]
  <2>1. CASE e = c
    BY <1>2, <2>1, CallsApart DEF Holds, RowsHeld
  <2>2. CASE e # c
    BY <1>1, <1>2, <2>2, CallsApart DEF OthersHold, RowsHeld
  <2> QED
    BY <2>1, <2>2
<1>4. ASSUME NEW v \in Users, NEW e \in LobbyCalls
      PROVE  /\ holder'[v] = e <=> LobbyHolds(e, v)'
             /\ holder'[v] = e => change'[v] = IF e.op = "join" THEN -e.buyIn ELSE cash'[e]
  <2>1. CASE e = c
    BY <1>2, <2>1, CallsApart DEF Holds, RowsHeld
  <2>2. CASE e # c
    BY <1>1, <1>2, <2>2, CallsApart DEF OthersHold, RowsHeld
  <2> QED
    BY <2>1, <2>2
<1>5. \A v \in Users : (holder'[v] = None => change'[v] = 0) /\ balance'[v] + change'[v] >= 0
  BY <1>2, CallsApart DEF RowsHeld
<1> QED
  BY <1>2, <1>3, <1>4, <1>5 DEF RowsHeld

-----------------------------------------------------------------------------
(***************************************************************************)
(* Step reports.                                                           *)
(***************************************************************************)

\* A statement of one report leaves what the other calls hold alone.
LEMMA DepositOthers ==
  ASSUME DepositInv, NEW c \in ReportCalls, (\E u \in Users : Report(c, u)) \/ DepositStep(c),
         UNCHANGED lobbyVars
  PROVE  /\ OthersHold(c)
         /\ \A e \in LobbyCalls : e # c /\ cash'[e] = cash[e] /\ step'[e] = step[e]
<1>1. cash' = cash /\ step' = step
  BY DEF lobbyVars, planVars
<1>2. \A e \in LobbyCalls, u \in Users : LobbyHolds(e, u)' <=> LobbyHolds(e, u)
  BY <1>1 DEF LobbyHolds
<1>3. \A e \in ReportCalls : e # c =>
        stage'[e] = stage[e] /\ req'[e] = req[e] /\ delta'[e] = delta[e]
  BY DEF DepositInv, DepositTypes, Report, DepositStep, Proceed, Begin, FindReport, Replay,
         ComputeDelta, ReadCap, ApplyCap, Upsert, InsertAudit, ApplyDeposit, Commit,
         FailReport, Goto, callVars
<1>4. \A e \in ReportCalls, u \in Users : e # c => (ReportHolds(e, u)' <=> ReportHolds(e, u))
  BY <1>3 DEF ReportHolds
<1> QED
  BY <1>1, <1>2, <1>3, <1>4, CallsApart DEF OthersHold

\* The statements of a report keep the rows consistent.
LEMMA DepositRows ==
  ASSUME WalletInv, NEW c \in ReportCalls, (\E u \in Users : Report(c, u)) \/ DepositStep(c),
         UNCHANGED lobbyVars
  PROVE  WalletTypes' /\ RowsHeld'
<1>1. OthersHold(c) /\ DepositTypes
  BY DepositOthers DEF WalletInv, DepositInv
<1>2. \A u \in Users : Holds(c, u) <=> ReportHolds(c, u)
  BY CallsApart DEF Holds
<1>3. \A u \in Users : Holds(c, u)' <=> ReportHolds(c, u)'
  BY CallsApart DEF Holds
<1>4. faults' \in Nat
  BY DEF WalletInv, WalletTypes, Report, DepositStep, Proceed, Begin, FindReport, Replay,
         ComputeDelta, ReadCap, ApplyCap, Upsert, InsertAudit, ApplyDeposit, Commit,
         FailReport, Fault, accountVars
<1>5. ASSUME UNCHANGED <<balance, holder, change>>, stage[c] # "commit", stage'[c] # "commit"
      PROVE  WalletTypes' /\ RowsHeld'
  <2>1. \A u \in Users : ~Holds(c, u) /\ ~Holds(c, u)'
    BY <1>2, <1>3, <1>5 DEF ReportHolds
  <2>2. RowsHeld'
    BY <1>1, <1>5, <2>1, RowsSame DEF WalletInv
  <2> QED
    BY <1>4, <1>5, <2>2 DEF WalletInv, WalletTypes
<1>6. ASSUME ReleaseRows(c), stage'[c] # "commit",
             UNCHANGED balance \/ CommitBalance(c)
      PROVE  WalletTypes' /\ RowsHeld'
  <2>1. \A u \in Users : ~Holds(c, u)'
    BY <1>3, <1>6 DEF ReportHolds
  <2>2. \/ UNCHANGED balance
        \/ balance' = [u \in Users |-> IF holder[u] = c THEN balance[u] + change[u] ELSE balance[u]]
    BY <1>6 DEF CommitBalance
  <2> QED
    BY <1>1, <1>4, <1>6, <2>1, <2>2, RowsReleased DEF WalletInv, WalletTypes
<1>7. CASE \E u \in Users : Report(c, u)
  BY <1>1, <1>5, <1>7 DEF Report, accountVars, rowVars, Goto, DepositTypes
<1>8. CASE Begin(c) \/ FindReport(c) \/ ComputeDelta(c) \/ ReadCap(c) \/ ApplyCap(c)
             \/ Upsert(c) \/ InsertAudit(c)
  <2>1. UNCHANGED <<balance, holder, change>> /\ stage[c] # "commit"
    BY <1>8 DEF Begin, FindReport, ComputeDelta, ReadCap, ApplyCap, Upsert, InsertAudit,
                accountVars, rowVars
  <2>2. stage'[c] # "commit"
    BY <1>1, <1>8 DEF Begin, FindReport, ComputeDelta, ReadCap, ApplyCap, Upsert, InsertAudit,
                      Goto, DepositTypes
  <2> QED
    BY <1>5, <2>1, <2>2
<1>9. CASE Replay(c)
  BY <1>1, <1>6, <1>9 DEF Replay, Release, Goto, DepositTypes
<1>10. CASE Commit(c)
  <2>1. stage'[c] # "commit"
    BY <1>10, CommitFacts DEF WalletInv
  <2> QED
    BY <1>6, <1>10, <2>1 DEF Commit, CommitBalance, Release
<1>11. CASE FailReport(c)
  BY <1>1, <1>6, <1>11 DEF FailReport, Rollback, RollbackBalance, Release, Goto, DepositTypes
<1>12. CASE ApplyDeposit(c)
  <2>1. /\ stage[c] = "apply" /\ stage'[c] = "commit" /\ req' = req /\ delta' = delta
        /\ AddToBalance(c, req[c].user, delta[c]) /\ UNCHANGED balance
    BY <1>1, <1>12 DEF ApplyDeposit, callVars, Goto, DepositTypes
  <2>2. req[c].user \in Users /\ delta[c] \in Nat
    BY <1>1, <2>1, KeyType DEF DepositTypes
  <2>3. /\ \A v \in Users : ~Holds(c, v)
        /\ \A v \in Users : Holds(c, v)' <=> v = req[c].user
    BY <1>2, <1>3, <2>1 DEF ReportHolds
  <2>4. balance[req[c].user] + delta[c] >= 0
    BY <2>2 DEF WalletInv, WalletTypes
  <2>5. /\ holder' \in [Users -> ReportCalls \cup LobbyCalls \cup {None}]
        /\ change' \in [Users -> Int] /\ RowsHeld'
    <3>1. delta[c] \in Int /\ delta[c] = delta'[c] /\ c \notin LobbyCalls
      BY <2>1, <2>2, CallsApart
    <3> QED
      BY <1>1, <2>1, <2>2, <2>3, <2>4, <3>1, RowsAcquired DEF WalletInv
  <2> QED
    BY <1>4, <2>1, <2>5 DEF WalletInv, WalletTypes
<1> QED
  BY <1>7, <1>8, <1>9, <1>10, <1>11, <1>12 DEF DepositStep, Proceed

\* A report changes nothing of the lobby.
LEMMA LobbyUnchanged ==
  ASSUME LobbyInv, UNCHANGED lobbyVars
  PROVE  LobbyInv'
<1>1. UNCHANGED <<seq, seat, stack, pot, inserting, step, base, chosen, cash>>
  BY DEF lobbyVars, tableVars, planVars
<1>2. TableTypes' /\ PlanTypes' /\ StacksSeated'
  BY <1>1 DEF LobbyInv, TableTypes, PlanTypes, StacksSeated
<1>3. PlansCurrent' /\ SeatsDistinct'
  BY <1>1 DEF LobbyInv, PlansCurrent, PlanCurrent, SeatsDistinct, Current, FreeSeats, Seated
<1> QED
  BY <1>2, <1>3 DEF LobbyInv

\* A step report keeps the invariant.
LEMMA DepositKeepsWallet ==
  ASSUME WalletInv, NEW c \in ReportCalls, (\E u \in Users : Report(c, u)) \/ DepositStep(c),
         UNCHANGED lobbyVars
  PROVE  WalletInv'
<1>1. DepositInv'
  BY ReportKeeps, DepositStepKeeps DEF WalletInv, DepositsKept
<1> QED
  BY <1>1, DepositRows, LobbyUnchanged DEF WalletInv

-----------------------------------------------------------------------------
(***************************************************************************)
(* Joins and leaves: the table and what the calls have read of it.         *)
(***************************************************************************)

\* A call changes its own plan only.
OwnPlan(c) ==
  \A e \in LobbyCalls : e # c =>
    step'[e] = step[e] /\ base'[e] = base[e] /\ chosen'[e] = chosen[e] /\ cash'[e] = cash[e]

\* Every statement of a lobby call.
LEMMA LobbyOwnPlan ==
  ASSUME LobbyInv, NEW c \in LobbyCalls, LobbyStep(c)
  PROVE  OwnPlan(c)
  BY DEF LobbyInv, PlanTypes, OwnPlan, LobbyStep, Call, ProceedLobby, Start, Find, LoadForJoin,
         Debit, DebitUserBalance, InsertJoined, LoadForLeave, BeginAppend, AppendLeft, Credit,
         CommitLobby, FailLobby, ConcurrentWrite, Go, planVars

\* Aborting gives up the uncommitted event of the call and no other.
KeepsInserts(c) ==
  /\ inserting' \in [Games -> LobbyCalls \cup {None}]
  /\ \A g \in Games : inserting[g] # c => inserting'[g] = inserting[g] \/ inserting[g] = None

\* A statement that appends no event.
LEMMA TableSameKeeps ==
  ASSUME LobbyInv, NEW c \in LobbyCalls, UNCHANGED <<seq, seat, stack, pot>>, OwnPlan(c),
         KeepsInserts(c), PlanTypes', PlanCurrent(c)'
  PROVE  LobbyInv'
<1>1. TableTypes'
  BY DEF LobbyInv, TableTypes, KeepsInserts
<1>2. StacksSeated' /\ SeatsDistinct'
  BY DEF LobbyInv, StacksSeated, SeatsDistinct, Seated
<1>3. ASSUME NEW e \in LobbyCalls, e # c
      PROVE  PlanCurrent(e)'
  <2>1. e.game \in Games /\ e # None
    BY LobbyCallType, CallsApart
  <2>2. FreeSeats(e.game)' = FreeSeats(e.game)
    BY DEF FreeSeats
  <2>3. inserting[e.game] = e => inserting'[e.game] = e
    BY <1>3, <2>1 DEF KeepsInserts
  <2> QED
    BY <1>3, <2>2, <2>3 DEF LobbyInv, PlansCurrent, PlanCurrent, OwnPlan, Current
<1> QED
  BY <1>1, <1>2, <1>3 DEF LobbyInv, PlansCurrent

\* The end of a transaction without an event.
LEMMA EndKeeps ==
  ASSUME LobbyInv, NEW c \in LobbyCalls, UNCHANGED <<seq, seat, stack, pot, base, chosen, cash>>,
         Abort(c) \/ UNCHANGED inserting,
         NEW s \in {"new", "start", "find", "load", "ok", "failed", "unpaid"}, Go(c, s)
  PROVE  LobbyInv'
<1>1. PlanTypes' /\ step'[c] = s /\ OwnPlan(c)
  BY DEF Go, LobbyInv, PlanTypes, Steps, OwnPlan
<1>2. KeepsInserts(c)
  BY DEF Abort, KeepsInserts, LobbyInv, TableTypes
<1>3. PlanCurrent(c)'
  BY <1>1 DEF PlanCurrent, LobbyInv, PlansCurrent
<1> QED
  BY <1>1, <1>2, <1>3, TableSameKeeps

\* selectSeat returns a free seat.
LEMMA SelectedSeatIsFree ==
  ASSUME NEW c \in LobbyCalls
  PROVE  SelectSeat(c) \subseteq FreeSeats(c.game)
  BY DEF SelectSeat

\* The reads and the debit of JoinTable.
LEMMA JoinReadsKeep ==
  ASSUME LobbyInv, NEW c \in LobbyCalls, LoadForJoin(c) \/ Debit(c)
  PROVE  LobbyInv'
<1>0. c.game \in Games /\ c.user \in Users
  BY LobbyCallType
<1>1. CASE LoadForJoin(c)
  <2>1. CASE Joinable(c) /\ Go(c, "debit")
    <3>0. /\ UNCHANGED <<seq, seat, stack, pot, inserting, cash>> /\ c.op = "join"
          /\ base' = [base EXCEPT ![c] = seq[c.game]]
          /\ step' = [step EXCEPT ![c] = "debit"]
          /\ seat[c.game][c.user] = 0
      BY <1>1, <2>1 DEF LoadForJoin, Go, tableVars, Joinable
    <3>1. PICK s \in SelectSeat(c) : chosen' = [chosen EXCEPT ![c] = s]
      BY <1>1, <2>1 DEF LoadForJoin
    <3>2. s \in FreeSeats(c.game) /\ s \in Nat
      BY LobbyAssumption, SelectedSeatIsFree DEF FreeSeats
    <3>3. PlanTypes' /\ OwnPlan(c) /\ step'[c] = "debit" /\ chosen'[c] = s /\ base'[c] = seq[c.game]
      BY <1>0, <3>0, <3>1, <3>2 DEF LobbyInv, PlanTypes, TableTypes, Steps, OwnPlan
    <3>4. PlanCurrent(c)'
      BY <1>0, <3>0, <3>2, <3>3 DEF PlanCurrent, Current, FreeSeats, LobbyInv, TableTypes
    <3>5. KeepsInserts(c)
      BY <3>0 DEF KeepsInserts, LobbyInv, TableTypes
    <3> QED
      BY <3>0, <3>3, <3>4, <3>5, TableSameKeeps
  <2>2. CASE Abort(c) /\ Go(c, "failed") /\ UNCHANGED <<base, chosen>>
    BY <1>1, <2>2, EndKeeps DEF LoadForJoin, tableVars
  <2> QED
    BY <1>1, <2>1, <2>2 DEF LoadForJoin
<1>2. CASE Debit(c)
  <2>0. UNCHANGED <<seq, seat, stack, pot, base, chosen, cash>> /\ step[c] = "debit"
    BY <1>2 DEF Debit, tableVars, planVars
  <2>1. CASE Go(c, "insert") /\ UNCHANGED inserting
    <3>1. PlanTypes' /\ OwnPlan(c) /\ step'[c] = "insert"
      BY <2>0, <2>1 DEF Go, LobbyInv, PlanTypes, Steps, OwnPlan
    <3>2. PlanCurrent(c)'
      BY <2>0, <3>1 DEF PlanCurrent, Current, FreeSeats, LobbyInv, PlansCurrent
    <3>3. KeepsInserts(c)
      BY <2>1 DEF KeepsInserts, LobbyInv, TableTypes
    <3> QED
      BY <2>0, <3>1, <3>2, <3>3, TableSameKeeps
  <2>2. CASE Abort(c) /\ Go(c, "failed")
    BY <2>0, <2>2, EndKeeps
  <2> QED
    BY <1>2, <2>1, <2>2 DEF Debit, DebitUserBalance
<1> QED
  BY <1>1, <1>2

\* AppendEvent of JoinTable: the event waits to be committed, or was overtaken.
LEMMA InsertKeeps ==
  ASSUME LobbyInv, NEW c \in LobbyCalls, InsertJoined(c)
  PROVE  LobbyInv'
<1>0. /\ UNCHANGED <<seq, seat, stack, pot, base, chosen, cash>> /\ step[c] = "insert"
      /\ c.game \in Games
  BY LobbyCallType DEF InsertJoined, tableVars, planVars
<1>1. CASE ConcurrentWrite(c)
  BY <1>0, <1>1, EndKeeps DEF ConcurrentWrite
<1>2. CASE /\ ~Taken(c) /\ inserting[c.game] = None /\ Go(c, "commit")
           /\ inserting' = [inserting EXCEPT ![c.game] = c]
  <2>1. PlanTypes' /\ OwnPlan(c) /\ step'[c] = "commit"
    BY <1>0, <1>2 DEF Go, LobbyInv, PlanTypes, Steps, OwnPlan
  <2>2. KeepsInserts(c) /\ inserting'[c.game] = c
    BY <1>0, <1>2 DEF KeepsInserts, LobbyInv, TableTypes
  <2>3. PlanCurrent(c)'
    BY <1>0, <1>2, <2>1, <2>2 DEF PlanCurrent, Current, FreeSeats, Taken, LobbyInv, PlansCurrent
  <2> QED
    BY <1>0, <2>1, <2>2, <2>3, TableSameKeeps
<1> QED
  BY <1>1, <1>2 DEF InsertJoined

\* The reads of LeaveTable, its second connection and its credit.
LEMMA LeaveReadsKeep ==
  ASSUME LobbyInv, NEW c \in LobbyCalls, LoadForLeave(c) \/ BeginAppend(c) \/ Credit(c)
  PROVE  LobbyInv'
<1>0. c.game \in Games /\ c.user \in Users
  BY LobbyCallType
<1>1. CASE LoadForLeave(c)
  <2>1. CASE Go(c, "begin2") /\ UNCHANGED inserting
    <3>0. /\ UNCHANGED <<seq, seat, stack, pot, inserting, chosen>> /\ c.op = "leave"
          /\ base' = [base EXCEPT ![c] = seq[c.game]]
          /\ cash' = [cash EXCEPT ![c] = stack[c.game][c.user]]
          /\ step' = [step EXCEPT ![c] = "begin2"]
      BY <1>1, <2>1 DEF LoadForLeave, Go, tableVars, LobbyInv, PlanTypes
    <3>1. stack[c.game][c.user] \in Nat /\ seq[c.game] \in Nat
      BY <1>0 DEF LobbyInv, TableTypes
    <3>2. /\ PlanTypes' /\ OwnPlan(c) /\ step'[c] = "begin2" /\ base'[c] = seq[c.game]
          /\ cash'[c] = stack[c.game][c.user]
      BY <3>0, <3>1 DEF LobbyInv, PlanTypes, Steps, OwnPlan
    <3>3. PlanCurrent(c)'
      BY <3>0, <3>1, <3>2 DEF PlanCurrent, Current
    <3>4. KeepsInserts(c)
      BY <3>0 DEF KeepsInserts, LobbyInv, TableTypes
    <3> QED
      BY <3>0, <3>2, <3>3, <3>4, TableSameKeeps
  <2>2. CASE Abort(c) /\ Go(c, "failed") /\ UNCHANGED <<base, cash, folds>>
    BY <1>1, <2>2, EndKeeps DEF LoadForLeave, tableVars
  <2> QED
    BY <1>1, <2>1, <2>2 DEF LoadForLeave
<1>2. CASE BeginAppend(c) \/ Credit(c)
  <2>0. /\ UNCHANGED <<seq, seat, stack, pot, inserting, base, chosen, cash>>
        /\ step[c] \in {"begin2", "credit"}
        /\ step' = [step EXCEPT ![c] = IF step[c] = "begin2" THEN "append" ELSE "commit"]
    BY <1>2 DEF BeginAppend, Credit, Go, tableVars, planVars
  <2>1. /\ PlanTypes' /\ OwnPlan(c)
        /\ step'[c] = IF step[c] = "begin2" THEN "append" ELSE "commit"
    BY <2>0 DEF LobbyInv, PlanTypes, Steps, OwnPlan
  <2>2. PlanCurrent(c)'
    BY <2>0, <2>1 DEF PlanCurrent, Current, LobbyInv, PlansCurrent
  <2>3. KeepsInserts(c)
    BY <2>0 DEF KeepsInserts, LobbyInv, TableTypes
  <2> QED
    BY <2>0, <2>1, <2>2, <2>3, TableSameKeeps
<1> QED
  BY <1>1, <1>2

\* Committing an event to game g makes what the other calls have read of g outdated;
\* none of them is about to commit one itself.
LEMMA EventKeeps ==
  ASSUME LobbyInv, NEW g \in Games, NEW c, OwnPlan(c),
         \A e \in LobbyCalls : e # c => inserting[g] # e,
         \A h \in Games : h # g => /\ seq'[h] = seq[h] /\ seat'[h] = seat[h]
                                   /\ stack'[h] = stack[h] /\ inserting'[h] = inserting[h],
         seq'[g] > seq[g],
         TableTypes', PlanTypes', StacksSeated', SeatsDistinct',
         c \in LobbyCalls => PlanCurrent(c)'
  PROVE  LobbyInv'
<1>1. SUFFICES ASSUME NEW e \in LobbyCalls, e # c
               PROVE  PlanCurrent(e)'
  BY DEF LobbyInv, PlansCurrent
<1>2. e.game \in Games /\ PlanCurrent(e) /\ base[e] \in Nat
  BY LobbyCallType DEF LobbyInv, PlansCurrent, PlanTypes
<1>3. CASE e.game = g
  <2>1. seq[g] \in Nat /\ seq'[g] \in Nat /\ base'[e] = base[e] /\ step'[e] = step[e]
    BY <1>1 DEF LobbyInv, TableTypes, OwnPlan
  <2>2. base'[e] < seq'[e.game]
    BY <1>2, <1>3, <2>1 DEF PlanCurrent
  <2>3. ~(e.op = "join" /\ step[e] = "commit")
    BY <1>1, <1>2, <1>3 DEF PlanCurrent
  <2>4. base'[e] # seq'[e.game]
    BY <1>2, <1>3, <2>1, <2>2
  <2> QED
    BY <1>2, <1>3, <2>1, <2>2, <2>3, <2>4 DEF PlanCurrent, Current
<1>4. CASE e.game # g
  <2>1. FreeSeats(e.game)' = FreeSeats(e.game)
    BY <1>2, <1>4 DEF FreeSeats
  <2> QED
    BY <1>1, <1>2, <1>4, <2>1 DEF PlanCurrent, Current, OwnPlan
<1> QED
  BY <1>3, <1>4

\* PlayerJoined: the seat is still free, since no event was committed after the read.
LEMMA JoinedKeeps ==
  ASSUME LobbyInv, NEW c \in LobbyCalls, CommitLobby(c), c.op = "join"
  PROVE  LobbyInv'
<1>0. c.game \in Games /\ c.user \in Users /\ c.buyIn \in Nat
  BY LobbyCallType
<1>1. /\ step[c] = "commit" /\ UNCHANGED <<pot, base, chosen, cash>>
      /\ seq' = [seq EXCEPT ![c.game] = @ + 1]
      /\ seat' = [seat EXCEPT ![c.game][c.user] = chosen[c]]
      /\ stack' = [stack EXCEPT ![c.game][c.user] = c.buyIn]
      /\ inserting' = [inserting EXCEPT ![c.game] = None]
      /\ Go(c, "ok") \/ Go(c, "failed")
  BY DEF CommitLobby, Joined, planVars
<1>2. PlanTypes' /\ step'[c] \in {"ok", "failed"} /\ OwnPlan(c)
  BY <1>1 DEF Go, LobbyInv, PlanTypes, Steps, OwnPlan
<1>3. /\ inserting[c.game] = c /\ seat[c.game][c.user] = 0
      /\ chosen[c] \in FreeSeats(c.game) /\ base[c] = seq[c.game]
  BY <1>1 DEF LobbyInv, PlansCurrent, PlanCurrent, Current
<1>4. /\ seq[c.game] \in Nat /\ seat[c.game] \in [Users -> Nat]
      /\ stack[c.game] \in [Users -> Nat]
  BY <1>0 DEF LobbyInv, TableTypes
<1>5. /\ chosen[c] \in Nat /\ chosen[c] > 0
      /\ \A u \in Users : seat[c.game][u] # chosen[c]
  BY <1>3, LobbyAssumption DEF FreeSeats
<1>6. /\ seat'[c.game] = [seat[c.game] EXCEPT ![c.user] = chosen[c]]
      /\ stack'[c.game] = [stack[c.game] EXCEPT ![c.user] = c.buyIn]
      /\ seq'[c.game] = seq[c.game] + 1
      /\ \A h \in Games : h # c.game =>
           seq'[h] = seq[h] /\ seat'[h] = seat[h] /\ stack'[h] = stack[h]
             /\ inserting'[h] = inserting[h]
  BY <1>0, <1>1 DEF LobbyInv, TableTypes
<1>7. TableTypes'
  <2>1. seq' \in [Games -> Nat] /\ inserting' \in [Games -> LobbyCalls \cup {None}]
    BY <1>0, <1>1, <1>4 DEF LobbyInv, TableTypes
  <2>2. seat'[c.game] \in [Users -> Nat] /\ stack'[c.game] \in [Users -> Nat]
    BY <1>0, <1>4, <1>5, <1>6
  <2>3. seat' \in [Games -> [Users -> Nat]] /\ stack' \in [Games -> [Users -> Nat]]
    BY <1>0, <1>1, <1>6, <2>2 DEF LobbyInv, TableTypes
  <2> QED
    BY <1>1, <2>1, <2>3 DEF LobbyInv, TableTypes
<1>8. StacksSeated'
  BY <1>0, <1>4, <1>5, <1>6 DEF LobbyInv, StacksSeated
<1>9. SeatsDistinct'
  <2>1. SUFFICES ASSUME NEW h \in Games, NEW u \in Users, NEW v \in Users,
                        seat'[h][u] # 0, seat'[h][u] = seat'[h][v]
                 PROVE  u = v
    BY DEF SeatsDistinct, Seated
  <2>2. CASE h # c.game
    BY <1>6, <2>1, <2>2 DEF LobbyInv, SeatsDistinct, Seated
  <2>3. CASE h = c.game
    <3>1. \A w \in Users : seat'[h][w] = IF w = c.user THEN chosen[c] ELSE seat[h][w]
      BY <1>4, <1>6, <2>3
    <3>2. u # c.user /\ v # c.user => u = v
      BY <2>1, <2>3, <3>1 DEF LobbyInv, SeatsDistinct, Seated
    <3> QED
      BY <1>5, <2>1, <2>3, <3>1, <3>2
  <2> QED
    BY <2>2, <2>3
<1>10. PlanCurrent(c)'
  BY <1>1, <1>2, <1>3, <1>4, <1>6 DEF PlanCurrent
<1>11. \A e \in LobbyCalls : e # c => inserting[c.game] # e
  BY <1>3
<1> QED
  BY <1>0, <1>2, <1>4, <1>6, <1>7, <1>8, <1>9, <1>10, <1>11, EventKeeps

\* PlayerLeft, in a transaction of its own.
LEMMA LeftKeeps ==
  ASSUME LobbyInv, NEW c \in LobbyCalls, AppendLeft(c), Left(c), Go(c, "credit"),
         inserting[c.game] = None, UNCHANGED inserting
  PROVE  LobbyInv'
<1>0. c.game \in Games /\ c.user \in Users
  BY LobbyCallType
<1>1. /\ step[c] = "append" /\ UNCHANGED <<pot, inserting, base, chosen, cash>>
      /\ seq' = [seq EXCEPT ![c.game] = @ + IF folds[c] THEN 2 ELSE 1]
      /\ seat' = [seat EXCEPT ![c.game][c.user] = 0]
      /\ stack' = [stack EXCEPT ![c.game][c.user] = 0]
  BY DEF AppendLeft, Left, planVars
<1>2. PlanTypes' /\ step'[c] = "credit" /\ OwnPlan(c) /\ c.op = "leave"
  BY <1>1 DEF Go, LobbyInv, PlanTypes, Steps, OwnPlan, PlansCurrent, PlanCurrent
<1>3. /\ seq[c.game] \in Nat /\ seat[c.game] \in [Users -> Nat]
      /\ stack[c.game] \in [Users -> Nat]
  BY <1>0 DEF LobbyInv, TableTypes
<1>4. /\ seat'[c.game] = [seat[c.game] EXCEPT ![c.user] = 0]
      /\ stack'[c.game] = [stack[c.game] EXCEPT ![c.user] = 0]
      /\ seq'[c.game] = seq[c.game] + IF folds[c] THEN 2 ELSE 1
      /\ \A h \in Games : h # c.game =>
           seq'[h] = seq[h] /\ seat'[h] = seat[h] /\ stack'[h] = stack[h]
             /\ inserting'[h] = inserting[h]
  BY <1>0, <1>1 DEF LobbyInv, TableTypes
<1>5. seq'[c.game] \in Nat /\ seq'[c.game] > seq[c.game]
  <2>1. seq'[c.game] = seq[c.game] + 2 \/ seq'[c.game] = seq[c.game] + 1
    BY <1>4
  <2> QED
    BY <1>3, <2>1
<1>6. TableTypes'
  <2>1. seat'[c.game] \in [Users -> Nat] /\ stack'[c.game] \in [Users -> Nat]
    BY <1>0, <1>3, <1>4
  <2>2. seat' \in [Games -> [Users -> Nat]] /\ stack' \in [Games -> [Users -> Nat]]
    BY <1>0, <1>1, <1>4, <2>1 DEF LobbyInv, TableTypes
  <2>3. seq' \in [Games -> Nat]
    BY <1>0, <1>1, <1>4, <1>5 DEF LobbyInv, TableTypes
  <2> QED
    BY <1>1, <2>2, <2>3 DEF LobbyInv, TableTypes
<1>7. StacksSeated'
  BY <1>0, <1>3, <1>4 DEF LobbyInv, StacksSeated
<1>8. SeatsDistinct'
  BY <1>0, <1>3, <1>4 DEF LobbyInv, SeatsDistinct, Seated
<1>9. PlanCurrent(c)'
  BY <1>1, <1>2, <1>3, <1>5 DEF PlanCurrent, LobbyInv, PlansCurrent, PlanTypes
<1>10. \A e \in LobbyCalls : e # c => inserting[c.game] # e
  BY CallsApart
<1> QED
  BY <1>0, <1>2, <1>4, <1>5, <1>6, <1>7, <1>8, <1>9, <1>10, EventKeeps

\* An event of a session moves chips between the pot and one seated player, or none.
LEMMA PlayMoves ==
  ASSUME TableTypes, NEW g \in Games, SessionAppends(g)
  PROVE  /\ \A h \in Games : h # g => stack'[h] = stack[h] /\ pot'[h] = pot[h]
         /\ \/ UNCHANGED <<stack, pot>>
            \/ \E u \in Users, n \in Int :
                 /\ seat[g][u] # 0 /\ stack[g][u] + n \in Nat /\ pot[g] - n \in Nat
                 /\ stack' = [stack EXCEPT ![g][u] = @ + n]
                 /\ pot' = [pot EXCEPT ![g] = @ - n]
<1>1. Play(g) /\ stack[g] \in [Users -> Nat] /\ pot[g] \in Nat
  BY DEF SessionAppends, TableTypes
<1>2. CASE UNCHANGED <<stack, pot>>
  BY <1>2
<1>3. ASSUME NEW u \in Unfolded(g), stack[g][u] > 0, stack' = [stack EXCEPT ![g][u] = @ - 1],
             pot' = [pot EXCEPT ![g] = @ + 1]
      PROVE  /\ seat[g][u] # 0 /\ stack[g][u] + (-1) \in Nat /\ pot[g] - (-1) \in Nat /\ u \in Users
             /\ stack' = [stack EXCEPT ![g][u] = @ + (-1)]
             /\ pot' = [pot EXCEPT ![g] = @ - (-1)]
  <2>1. u \in Users /\ seat[g][u] # 0
    BY DEF Unfolded, Seated
  <2>2. stack[g][u] \in Nat
    BY <1>1, <2>1
  <2>3. stack[g][u] - 1 = stack[g][u] + (-1) /\ pot[g] + 1 = pot[g] - (-1)
    BY <1>1, <2>2
  <2>4. [stack EXCEPT ![g][u] = @ - 1] = [stack EXCEPT ![g][u] = @ + (-1)]
    BY <2>3
  <2>5. [pot EXCEPT ![g] = @ + 1] = [pot EXCEPT ![g] = @ - (-1)]
    BY <2>3
  <2>6. stack[g][u] + (-1) \in Nat /\ pot[g] - (-1) \in Nat
    BY <1>1, <1>3, <2>2
  <2> QED
    BY <1>3, <2>1, <2>4, <2>5, <2>6
<1>4. ASSUME NEW u \in Unfolded(g), stack' = [stack EXCEPT ![g][u] = @ + pot[g]],
             pot' = [pot EXCEPT ![g] = 0]
      PROVE  /\ seat[g][u] # 0 /\ stack[g][u] + pot[g] \in Nat /\ pot[g] - pot[g] \in Nat
             /\ pot[g] \in Int /\ u \in Users
             /\ pot' = [pot EXCEPT ![g] = @ - pot[g]]
  <2>1. u \in Users /\ seat[g][u] # 0
    BY DEF Unfolded, Seated
  <2>2. pot[g] - pot[g] = 0 /\ stack[g][u] + pot[g] \in Nat
    BY <1>1, <2>1
  <2>3. [pot EXCEPT ![g] = 0] = [pot EXCEPT ![g] = @ - pot[g]]
    BY <2>2
  <2> QED
    BY <1>1, <1>4, <2>1, <2>2, <2>3
<1>5. \A h \in Games : h # g => stack'[h] = stack[h] /\ pot'[h] = pot[h]
  <2>1. CASE UNCHANGED <<stack, pot>>
    BY <2>1
  <2>2. ASSUME NEW u, stack' = [stack EXCEPT ![g][u] = @ - 1], pot' = [pot EXCEPT ![g] = @ + 1]
        PROVE  \A h \in Games : h # g => stack'[h] = stack[h] /\ pot'[h] = pot[h]
    BY <2>2 DEF TableTypes
  <2>3. ASSUME NEW u, stack' = [stack EXCEPT ![g][u] = @ + pot[g]], pot' = [pot EXCEPT ![g] = 0]
        PROVE  \A h \in Games : h # g => stack'[h] = stack[h] /\ pot'[h] = pot[h]
    BY <2>3 DEF TableTypes
  <2> QED
    BY <1>1, <2>1, <2>2, <2>3 DEF Play
<1>6. -1 \in Int
  OBVIOUS
<1> QED
  BY <1>1, <1>3, <1>4, <1>5, <1>6 DEF Play

\* A session appends an event.
LEMMA SessionKeeps ==
  ASSUME LobbyInv, NEW g \in Games, SessionAppends(g)
  PROVE  LobbyInv'
<1>1. /\ inserting[g] = None /\ UNCHANGED <<seat, inserting, step, base, chosen, cash>>
      /\ seq' = [seq EXCEPT ![g] = @ + 1]
  BY DEF SessionAppends, planVars
<1>2. TableTypes /\ PlanTypes' /\ OwnPlan(None)
  BY <1>1 DEF LobbyInv, PlanTypes, OwnPlan
<1>3. seq' \in [Games -> Nat] /\ seq'[g] > seq[g] /\ \A h \in Games : h # g => seq'[h] = seq[h]
  BY <1>1, <1>2 DEF TableTypes
<1>4. /\ stack' \in [Games -> [Users -> Nat]] /\ pot' \in [Games -> Nat]
      /\ \A u \in Users : seat[g][u] = 0 => stack'[g][u] = stack[g][u]
  <2>1. CASE UNCHANGED <<stack, pot>>
    BY <1>2, <2>1 DEF TableTypes
  <2>2. ASSUME NEW u \in Users, NEW n \in Int, seat[g][u] # 0, stack[g][u] + n \in Nat,
               pot[g] - n \in Nat, stack' = [stack EXCEPT ![g][u] = @ + n],
               pot' = [pot EXCEPT ![g] = @ - n]
        PROVE  /\ stack' \in [Games -> [Users -> Nat]] /\ pot' \in [Games -> Nat]
               /\ \A v \in Users : seat[g][v] = 0 => stack'[g][v] = stack[g][v]
    <3>1. stack[g] \in [Users -> Nat]
      BY <1>2 DEF TableTypes
    <3>2. [stack[g] EXCEPT ![u] = stack[g][u] + n] \in [Users -> Nat]
      BY <2>2, <3>1
    <3>3. stack' = [stack EXCEPT ![g] = [stack[g] EXCEPT ![u] = stack[g][u] + n]]
      BY <2>2
    <3> QED
      BY <1>2, <2>2, <3>1, <3>2, <3>3 DEF TableTypes
  <2> QED
    BY <1>2, <2>1, <2>2, PlayMoves
<1>5. TableTypes'
  BY <1>1, <1>2, <1>3, <1>4 DEF TableTypes
<1>6. \A h \in Games : h # g => stack'[h] = stack[h]
  BY <1>2, PlayMoves
<1>7. StacksSeated'
  BY <1>1, <1>4, <1>6 DEF LobbyInv, StacksSeated
<1>8. SeatsDistinct'
  BY <1>1 DEF LobbyInv, SeatsDistinct, Seated
<1>9. None \notin LobbyCalls /\ \A e \in LobbyCalls : inserting[g] # e
  BY <1>1, CallsApart
<1> QED
  BY <1>1, <1>2, <1>3, <1>5, <1>6, <1>7, <1>8, <1>9, EventKeeps

\* Every statement of JoinTable and LeaveTable.
LEMMA LobbyStepKeeps ==
  ASSUME LobbyInv, NEW c \in LobbyCalls, LobbyStep(c)
  PROVE  LobbyInv'
<1>1. CASE Call(c) \/ Start(c) \/ Find(c)
  BY <1>1, EndKeeps DEF Call, Start, Find, tableVars, planVars
<1>2. CASE LoadForJoin(c) \/ Debit(c) \/ InsertJoined(c)
  BY <1>2, JoinReadsKeep, InsertKeeps
<1>3. CASE LoadForLeave(c) \/ BeginAppend(c) \/ Credit(c)
  BY <1>3, LeaveReadsKeep
<1>4. CASE AppendLeft(c)
  <2>1. CASE ConcurrentWrite(c) /\ UNCHANGED tableVars
    BY <1>4, <2>1, EndKeeps DEF AppendLeft, ConcurrentWrite, tableVars, planVars
  <2>2. CASE /\ Left(c) /\ inserting[c.game] = None /\ Go(c, "credit") /\ UNCHANGED inserting
    BY <1>4, <2>2, LeftKeeps
  <2> QED
    BY <1>4, <2>1, <2>2 DEF AppendLeft
<1>5. CASE CommitLobby(c)
  <2>1. CASE c.op = "join"
    BY <1>5, <2>1, JoinedKeeps
  <2>2. CASE c.op # "join"
    BY <1>5, <2>2, EndKeeps DEF CommitLobby, tableVars, planVars
  <2> QED
    BY <2>1, <2>2
<1>6. CASE FailLobby(c)
  BY <1>6, EndKeeps DEF FailLobby, tableVars, planVars
<1> QED
  BY <1>1, <1>2, <1>3, <1>4, <1>5, <1>6 DEF LobbyStep, ProceedLobby

-----------------------------------------------------------------------------
(***************************************************************************)
(* Joins and leaves: the rows.                                             *)
(***************************************************************************)

\* The statements of a lobby call keep the rows consistent: a debit is checked against
\* the balance that the row has while the call holds it.
LEMMA LobbyRows ==
  ASSUME WalletInv, NEW c \in LobbyCalls, LobbyStep(c), UNCHANGED depositVars
  PROVE  WalletTypes' /\ RowsHeld'
<1>0. /\ c.user \in Users /\ c.op \in {"join", "leave"} /\ c.buyIn \in Nat
      /\ PlanCurrent(c) /\ PlanTypes /\ PlanTypes'
  BY LobbyCallType, LobbyStepKeeps DEF WalletInv, LobbyInv, PlansCurrent
<1>1. OthersHold(c)
  <2>1. stage' = stage /\ req' = req /\ delta' = delta
    BY DEF depositVars, callVars
  <2>2. OwnPlan(c)
    BY LobbyOwnPlan DEF WalletInv
  <2> QED
    BY <2>1, <2>2 DEF OthersHold, OwnPlan, ReportHolds, LobbyHolds
<1>2. \A u \in Users : (Holds(c, u) <=> LobbyHolds(c, u)) /\ (Holds(c, u)' <=> LobbyHolds(c, u)')
  BY CallsApart DEF Holds
<1>3. faults' \in Nat
  BY DEF WalletInv, WalletTypes, LobbyStep, Call, ProceedLobby, Start, Find, LoadForJoin, Debit,
         InsertJoined, LoadForLeave, BeginAppend, AppendLeft, Credit, CommitLobby, FailLobby,
         Fault, accountVars
<1>4. ASSUME UNCHANGED <<balance, holder, change>>,
             \A u \in Users : (LobbyHolds(c, u)' <=> LobbyHolds(c, u)),
             \A u \in Users : LobbyHolds(c, u) => cash'[c] = cash[c]
      PROVE  WalletTypes' /\ RowsHeld'
  <2>1. RowsHeld'
    BY <1>1, <1>2, <1>4, RowsSame, CallsApart DEF WalletInv
  <2> QED
    BY <1>3, <1>4, <2>1 DEF WalletInv, WalletTypes
<1>5. ASSUME ReleaseRows(c), UNCHANGED balance \/ CommitBalance(c),
             NEW s \in {"start", "ok", "failed", "unpaid"}, Go(c, s)
      PROVE  WalletTypes' /\ RowsHeld'
  <2>1. \A u \in Users : ~Holds(c, u)'
    BY <1>0, <1>2, <1>5 DEF LobbyHolds, Go, PlanTypes
  <2>2. \/ UNCHANGED balance
        \/ balance' = [u \in Users |-> IF holder[u] = c THEN balance[u] + change[u] ELSE balance[u]]
    BY <1>5 DEF CommitBalance
  <2> QED
    BY <1>1, <1>3, <1>5, <2>1, <2>2, RowsReleased DEF WalletInv, WalletTypes
<1>6. ASSUME NEW s \in {"start", "ok", "failed", "unpaid"}, Abort(c), Go(c, s)
      PROVE  WalletTypes' /\ RowsHeld'
  BY <1>5, <1>6 DEF Abort, RollbackBalance, Release
<1>7. ASSUME NEW n \in Int, AddToBalance(c, c.user, n), UNCHANGED balance,
             balance[c.user] + n >= 0, \A u \in Users : ~LobbyHolds(c, u),
             LobbyHolds(c, c.user)', n = IF c.op = "join" THEN -c.buyIn ELSE cash'[c]
      PROVE  WalletTypes' /\ RowsHeld'
  <2>1. /\ \A u \in Users : ~Holds(c, u)
        /\ \A u \in Users : Holds(c, u)' <=> u = c.user
    BY <1>2, <1>7 DEF LobbyHolds
  <2>2. /\ holder' \in [Users -> ReportCalls \cup LobbyCalls \cup {None}]
        /\ change' \in [Users -> Int] /\ RowsHeld'
    BY <1>0, <1>1, <1>7, <2>1, RowsAcquired, CallsApart DEF WalletInv
  <2> QED
    BY <1>3, <1>7, <2>2 DEF WalletInv, WalletTypes
<1>8. CASE Call(c) \/ Start(c)
  BY <1>0, <1>4, <1>8 DEF Call, Start, Go, accountVars, rowVars, planVars, LobbyHolds, PlanTypes
<1>9. CASE Find(c)
  <2>1. CASE Abort(c) /\ Go(c, "ok")
    BY <1>6, <2>1
  <2>2. CASE Go(c, "load") /\ UNCHANGED <<balance, rowVars>>
    BY <1>0, <1>4, <1>9, <2>2 DEF Find, Go, rowVars, planVars, LobbyHolds, PlanTypes
  <2> QED
    BY <1>9, <2>1, <2>2 DEF Find
<1>10. CASE LoadForJoin(c)
  <2>1. CASE Abort(c) /\ Go(c, "failed")
    BY <1>6, <2>1
  <2>2. CASE Go(c, "debit") /\ UNCHANGED <<balance, rowVars>>
    BY <1>0, <1>4, <1>10, <2>2 DEF LoadForJoin, Go, rowVars, LobbyHolds, PlanTypes
  <2> QED
    BY <1>10, <2>1, <2>2 DEF LoadForJoin
<1>11. CASE LoadForLeave(c)
  <2>1. CASE Abort(c) /\ Go(c, "failed")
    BY <1>6, <2>1
  <2>2. CASE Go(c, "begin2") /\ UNCHANGED <<balance, rowVars>>
    BY <1>0, <1>4, <1>11, <2>2 DEF LoadForLeave, Go, rowVars, LobbyHolds, PlanTypes
  <2> QED
    BY <1>11, <2>1, <2>2 DEF LoadForLeave
<1>12. CASE InsertJoined(c)
  <2>1. CASE ConcurrentWrite(c)
    BY <1>6, <2>1 DEF ConcurrentWrite
  <2>2. CASE Go(c, "commit") /\ UNCHANGED <<balance, rowVars>>
    <3>1. c.op = "join" /\ step[c] = "insert" /\ step'[c] = "commit" /\ cash' = cash
      BY <1>0, <1>12, <2>2 DEF InsertJoined, Go, PlanTypes, PlanCurrent, planVars
    <3> QED
      BY <1>4, <2>2, <3>1 DEF LobbyHolds, rowVars
  <2> QED
    BY <1>12, <2>1, <2>2 DEF InsertJoined
<1>13. CASE BeginAppend(c)
  BY <1>0, <1>4, <1>13 DEF BeginAppend, Go, rowVars, planVars, LobbyHolds, PlanTypes
<1>14. CASE AppendLeft(c)
  <2>1. CASE ConcurrentWrite(c)
    BY <1>6, <2>1 DEF ConcurrentWrite
  <2>2. CASE Go(c, "credit") /\ UNCHANGED <<balance, rowVars>>
    BY <1>0, <1>4, <1>14, <2>2 DEF AppendLeft, Go, rowVars, planVars, LobbyHolds, PlanTypes
  <2> QED
    BY <1>14, <2>1, <2>2 DEF AppendLeft
<1>15. CASE Debit(c)
  <2>1. CASE Abort(c) /\ Go(c, "failed")
    BY <1>6, <2>1
  <2>2. CASE /\ balance[c.user] >= c.buyIn /\ AddToBalance(c, c.user, -c.buyIn)
             /\ Go(c, "insert") /\ UNCHANGED balance
    <3>1. step[c] = "debit" /\ step'[c] = "insert" /\ c.op = "join"
      BY <1>0, <1>15, <2>2 DEF Debit, Go, PlanTypes, PlanCurrent
    <3>2. \A u \in Users : ~LobbyHolds(c, u)
      BY <3>1 DEF LobbyHolds
    <3>3. LobbyHolds(c, c.user)'
      BY <3>1 DEF LobbyHolds
    <3>4. -c.buyIn \in Int /\ balance[c.user] + (-c.buyIn) >= 0
      BY <1>0, <2>2 DEF WalletInv, WalletTypes
    <3> QED
      BY <1>7, <2>2, <3>1, <3>2, <3>3, <3>4
  <2> QED
    BY <1>15, <2>1, <2>2 DEF Debit, DebitUserBalance
<1>16. CASE Credit(c)
  <2>0. /\ step[c] = "credit" /\ step'[c] = "commit" /\ c.op = "leave" /\ cash' = cash
        /\ UNCHANGED balance /\ cash[c] \in Nat
    BY <1>0, <1>16 DEF Credit, Go, PlanTypes, PlanCurrent, planVars
  <2>1. \A u \in Users : ~LobbyHolds(c, u)
    BY <2>0 DEF LobbyHolds
  <2>2. CASE cash[c] > 0
    <3>1. AddToBalance(c, c.user, cash[c])
      BY <1>16, <2>2 DEF Credit
    <3>2. LobbyHolds(c, c.user)'
      BY <2>0, <2>2 DEF LobbyHolds
    <3>3. balance[c.user] + cash[c] >= 0
      BY <1>0, <2>0 DEF WalletInv, WalletTypes
    <3> QED
      BY <1>7, <2>0, <2>1, <3>1, <3>2, <3>3
  <2>3. CASE ~(cash[c] > 0)
    <3>1. UNCHANGED rowVars
      BY <1>16, <2>3 DEF Credit
    <3>2. \A u \in Users : ~LobbyHolds(c, u)'
      BY <2>0, <2>3 DEF LobbyHolds
    <3> QED
      BY <1>4, <2>0, <2>1, <3>1, <3>2 DEF rowVars
  <2> QED
    BY <2>2, <2>3
<1>17. CASE CommitLobby(c)
  BY <1>5, <1>17 DEF CommitLobby, CommitBalance, Release
<1>18. CASE FailLobby(c)
  BY <1>6, <1>18 DEF FailLobby
<1> QED
  BY <1>8, <1>9, <1>10, <1>11, <1>12, <1>13, <1>14, <1>15, <1>16, <1>17, <1>18
  DEF LobbyStep, ProceedLobby

-----------------------------------------------------------------------------
(***************************************************************************)
(* The invariant.                                                          *)
(***************************************************************************)

\* After a restart no call is in progress.
LEMMA RestartEnds ==
  ASSUME PlanTypes, DepositTypes, Restart
  PROVE  /\ \A c \in LobbyCalls :
              /\ step'[c] \in {"new", "ok", "failed", "unpaid"}
              /\ step'[c] = "unpaid" <=> step[c] = "unpaid" \/ Unpaid(c)
         /\ \A c \in ReportCalls : stage'[c] # "commit"
         /\ step' \in [LobbyCalls -> Steps]
<1>1. step' = [c \in LobbyCalls |->
                 IF Unpaid(c) THEN "unpaid"
                 ELSE IF InLobbyTx(c) \/ step[c] = "start" THEN "failed" ELSE step[c]]
  BY DEF Restart
<1>2. \A c \in LobbyCalls :
        /\ step'[c] \in {"new", "ok", "failed", "unpaid"}
        /\ step'[c] = "unpaid" <=> step[c] = "unpaid" \/ Unpaid(c)
  BY <1>1 DEF PlanTypes, Steps, InLobbyTx
<1>3. step' \in [LobbyCalls -> Steps]
  BY <1>1, <1>2 DEF Steps
<1>4. \A c \in ReportCalls : stage'[c] # "commit"
  BY DEF Restart, InTx
<1> QED
  BY <1>2, <1>3, <1>4

\* The process dies: locks and transactions are gone, what was committed stays.
LEMMA RestartKeeps ==
  ASSUME WalletInv, Restart
  PROVE  WalletInv'
<1>0. /\ UNCHANGED <<balance, deposited, cap, opened, daily, audit, req, delta, limit,
                     seq, seat, stack, pot, base, chosen, cash>>
      /\ holder' = [u \in Users |-> None] /\ change' = [u \in Users |-> 0]
      /\ inserting' = [g \in Games |-> None] /\ faults' = faults + 1
      /\ dayLock' = [k \in Users \X Days |-> None]
      /\ openers' = {c \in openers : ~InTx(c)}
  BY DEF Restart, Fault, auditVars, tableVars, planVars
<1>1. PlanTypes /\ DepositTypes
  BY DEF WalletInv, LobbyInv, DepositInv
<1>2. WalletTypes'
  BY <1>0 DEF WalletInv, WalletTypes
<1>3. DepositInv'
  <2> DEFINE A == {c \in ReportCalls : InTx(c) \/ stage[c] = "begin"}
  <2>1. \A c \in A : ~Ended(c) /\ c \notin EndedOpeners
    BY DEF InTx, Ended, EndedOpeners
  <2>2. stage' = [c \in ReportCalls |-> IF c \in A THEN "failed" ELSE stage[c]]
    BY DEF Restart
  <2>3. A \in SUBSET ReportCalls /\ \A c \in ReportCalls : InTx(c) => c \in A
    OBVIOUS
  <2> HIDE DEF A
  <2> QED
    BY <1>0, <2>1, <2>2, <2>3, RestartKeepsDeposits DEF WalletInv, DepositsKept
<1>4. LobbyInv'
  <2>1. TableTypes' /\ PlanTypes' /\ StacksSeated' /\ SeatsDistinct'
    BY <1>0, <1>1, RestartEnds
       DEF WalletInv, LobbyInv, TableTypes, PlanTypes, StacksSeated, SeatsDistinct, Seated
  <2>2. PlansCurrent'
    BY <1>0, <1>1, RestartEnds DEF WalletInv, LobbyInv, PlansCurrent, PlanCurrent
  <2> QED
    BY <2>1, <2>2 DEF LobbyInv
<1>5. RowsHeld'
  <2>1. \A u \in Users : holder'[u] = None /\ change'[u] = 0 /\ balance'[u] \in Nat
    BY <1>0 DEF WalletInv, WalletTypes
  <2>2. \A u \in Users, c \in ReportCalls : ~ReportHolds(c, u)'
    BY <1>1, RestartEnds DEF ReportHolds
  <2>3. \A u \in Users, c \in LobbyCalls : ~LobbyHolds(c, u)'
    BY <1>1, RestartEnds DEF LobbyHolds
  <2> QED
    BY <2>1, <2>2, <2>3, CallsApart DEF RowsHeld
<1> QED
  BY <1>2, <1>3, <1>4, <1>5 DEF WalletInv

\* Nothing that the invariant speaks of changes but the tables.
LEMMA SessionKeepsWallet ==
  ASSUME WalletInv, NEW g \in Games, SessionAppends(g), UNCHANGED depositVars
  PROVE  WalletInv'
<1>1. /\ UNCHANGED <<balance, deposited, holder, change, faults, stage, req, delta, step, cash>>
  BY DEF SessionAppends, accountVars, rowVars, planVars, depositVars, callVars
<1>2. WalletTypes' /\ RowsHeld'
  BY <1>1 DEF WalletInv, WalletTypes, RowsHeld, ReportHolds, LobbyHolds
<1>3. DepositInv'
  BY <1>1, DepositsUnchanged DEF WalletInv, DepositsKept
<1> QED
  BY <1>2, <1>3, SessionKeeps DEF WalletInv

\* A join or a leave.
LEMMA LobbyKeepsWallet ==
  ASSUME WalletInv, NEW c \in LobbyCalls, LobbyStep(c), UNCHANGED depositVars
  PROVE  WalletInv'
<1>1. deposited' = deposited
  BY DEF LobbyStep, Call, ProceedLobby, Start, Find, LoadForJoin, Debit, DebitUserBalance,
         InsertJoined, ConcurrentWrite, LoadForLeave, BeginAppend, AppendLeft, Credit,
         CommitLobby, FailLobby, Abort, RollbackBalance, accountVars
<1>2. DepositInv'
  BY <1>1, DepositsUnchanged DEF WalletInv, DepositsKept
<1> QED
  BY <1>2, LobbyRows, LobbyStepKeeps DEF WalletInv

\* The invariant is inductive.
LEMMA WalletInvNext == WalletInv /\ [Next]_vars => WalletInv'
<1> SUFFICES ASSUME WalletInv, [Next]_vars
             PROVE  WalletInv'
  OBVIOUS
<1>1. ASSUME NEW c \in ReportCalls, (\E u \in Users : Report(c, u)) \/ DepositStep(c),
             UNCHANGED lobbyVars
      PROVE  WalletInv'
  BY <1>1, DepositKeepsWallet
<1>2. ASSUME NEW c \in LobbyCalls, LobbyStep(c), UNCHANGED depositVars
      PROVE  WalletInv'
  BY <1>2, LobbyKeepsWallet
<1>3. ASSUME NEW g \in Games, SessionAppends(g), UNCHANGED depositVars
      PROVE  WalletInv'
  BY <1>3, SessionKeepsWallet
<1>4. CASE Restart
  BY <1>4, RestartKeeps
<1>5. CASE UNCHANGED vars
  <2>1. /\ UNCHANGED <<balance, deposited, holder, change, faults, stage, req, delta, step, cash>>
        /\ UNCHANGED <<depositVars, lobbyVars>>
    BY <1>5 DEF vars, accountVars, rowVars, depositVars, callVars, lobbyVars, planVars
  <2>2. WalletTypes' /\ RowsHeld'
    BY <2>1 DEF WalletInv, WalletTypes, RowsHeld, ReportHolds, LobbyHolds
  <2>3. DepositInv' /\ LobbyInv'
    BY <2>1, DepositsUnchanged, LobbyUnchanged DEF WalletInv, DepositsKept
  <2> QED
    BY <2>2, <2>3 DEF WalletInv
<1> QED
  BY <1>1, <1>2, <1>3, <1>4, <1>5 DEF Next

\* It holds before the first call.
LEMMA WalletInvInit == Init => WalletInv
<1> SUFFICES ASSUME Init
             PROVE  WalletInv
  OBVIOUS
<1>1. deposited \in [Users -> Nat] /\ DepositInv
  BY WalletAssumption, DepositsInitInv DEF Init, AccountsInit
<1>2. WalletTypes
  BY WalletAssumption DEF Init, AccountsInit, WalletTypes
<1>3. TableTypes /\ PlanTypes /\ StacksSeated /\ SeatsDistinct
  BY DEF Init, LobbyInit, TableTypes, PlanTypes, StacksSeated, SeatsDistinct, Seated, Steps
<1>4. PlansCurrent
  BY LobbyCallType DEF Init, LobbyInit, PlansCurrent, PlanCurrent
<1>5. RowsHeld
  <2>1. \A c \in ReportCalls : stage[c] = "idle"
    BY DEF Init, DepositsInit
  <2>2. \A c \in LobbyCalls : step[c] = "new"
    BY DEF Init, LobbyInit
  <2>3. \A u \in Users : holder[u] = None /\ change[u] = 0 /\ balance[u] \in Nat
    BY WalletAssumption DEF Init, AccountsInit
  <2> QED
    BY <2>1, <2>2, <2>3, CallsApart DEF RowsHeld, ReportHolds, LobbyHolds
<1> QED
  BY <1>1, <1>2, <1>3, <1>4, <1>5 DEF WalletInv, LobbyInv

\* The invariant holds always.
LEMMA WalletInvariant == Spec => []WalletInv
  BY WalletInvInit, WalletInvNext, PTL DEF Spec

\* A balance is never overdrawn: the UPDATE of a join holds the row from the moment it
\* finds the balance sufficient until the chips are gone, whatever else the user does.
THEOREM WalletNeverOverdrawn == Spec => []NeverOverdrawn
<1>1. WalletInv => NeverOverdrawn
  BY DEF WalletInv, RowsHeld, NeverOverdrawn
<1> QED
  BY <1>1, WalletInvariant, PTL

\* No two players share a seat, at any number of tables and with any number of joins,
\* leaves, retries, failures and restarts: the sequence number that a PlayerJoined event
\* gets proves that the seat is still free.
THEOREM LobbySeatsDistinct == Spec => []SeatsDistinct
<1>1. WalletInv => SeatsDistinct
  BY DEF WalletInv, LobbyInv
<1> QED
  BY <1>1, WalletInvariant, PTL

-----------------------------------------------------------------------------
(***************************************************************************)
(* Refinement: the cash-outs that are owed or lost.                        *)
(***************************************************************************)

\* What each leave call of u adds to the cash-outs, when calls are at steps st with the
\* amounts ca.
Due(st, ca, u, T) ==
  [c \in LeaveCalls |-> IF c.user = u /\ st[c] \in T THEN ca[c] ELSE 0]

\* Leave calls are finitely many, and the cash-outs numbers.
LEMMA DueType ==
  ASSUME NEW st, NEW ca \in [LobbyCalls -> Nat], NEW u, NEW T
  PROVE  /\ IsFiniteSet(LeaveCalls)
         /\ Due(st, ca, u, T) \in [LeaveCalls -> Nat]
         /\ Total(Due(st, ca, u, T)) \in Nat
<1>1. IsFiniteSet(LeaveCalls)
  BY LobbyAssumption, FS_Subset DEF LeaveCalls
<1>2. Due(st, ca, u, T) \in [LeaveCalls -> Nat]
  BY DEF Due, LeaveCalls
<1>3. Due(st, ca, u, T) \in [LeaveCalls -> Int]
  BY <1>2
<1> QED
  BY <1>1, <1>2, <1>3, TotalType

\* They do not change with steps outside T.
LEMMA DueSame ==
  ASSUME NEW st, NEW st2, NEW ca, NEW ca2, NEW u, NEW T,
         \A c \in LeaveCalls : /\ st2[c] \in T <=> st[c] \in T
                               /\ st[c] \in T => ca2[c] = ca[c]
  PROVE  Due(st2, ca2, u, T) = Due(st, ca, u, T)
  BY DEF Due

\* A call that comes to T brings its cash-out.
LEMMA DueEnters ==
  ASSUME NEW st, NEW st2, NEW ca \in [LobbyCalls -> Nat], NEW T, NEW c \in LeaveCalls,
         st[c] \notin T, st2[c] \in T,
         \A e \in LeaveCalls : e # c => (st2[e] \in T <=> st[e] \in T), NEW u
  PROVE  Total(Due(st2, ca, u, T)) = Total(Due(st, ca, u, T)) + (IF u = c.user THEN ca[c] ELSE 0)
<1> DEFINE f == Due(st, ca, u, T)
           g == Due(st2, ca, u, T)
<1>1. f \in [LeaveCalls -> Nat] /\ g \in [LeaveCalls -> Nat] /\ IsFiniteSet(LeaveCalls)
  BY DueType
<1>2. \A e \in LeaveCalls : e # c => g[e] = f[e]
  BY DEF Due
<1>3. f[c] = 0 /\ g[c] = IF u = c.user THEN ca[c] ELSE 0
  BY DEF Due
<1>4. Total(g) = Total(f) + g[c] - f[c]
  <2> HIDE DEF f, g
  <2> QED
    BY <1>1, <1>2, TotalPoint
<1>5. Total(f) \in Nat /\ Total(g) \in Nat
  BY DueType
<1>6. g[c] \in Nat
  BY <1>1
<1> QED
  <2>1. Total(g) = Total(f) + g[c]
    <3> HIDE DEF f, g
    <3> QED
      BY <1>3, <1>4, <1>5, <1>6
  <2> QED
    BY <1>3, <2>1

\* The cash-outs as the module writes them.
LEMMA CashOutsDue ==
  /\ \A u : Owed(u) = Total(Due(step, cash, u, {"credit", "commit"}))
  /\ \A u : Lost(u) = Total(Due(step, cash, u, {"unpaid"}))
  /\ \A u : Owed(u)' = Total(Due(step', cash', u, {"credit", "commit"}))
  /\ \A u : Lost(u)' = Total(Due(step', cash', u, {"unpaid"}))
  BY DEF Owed, Lost, CashOuts, Due, LeaveCalls

\* The owed cash-outs, the lost ones and the chips at a table are numbers.
LEMMA BankTypes ==
  ASSUME WalletInv
  PROVE  /\ \A u \in Users : Owed(u) \in Nat /\ Lost(u) \in Nat /\ balance[u] \in Nat
         /\ \A g \in Games : /\ pot[g] \in Nat /\ stack[g] \in [Users -> Nat]
                             /\ Total(stack[g]) \in Nat /\ ChipsAt(g) \in Nat
<1>1. \A u \in Users : Owed(u) \in Nat /\ Lost(u) \in Nat
  BY CashOutsDue, DueType DEF WalletInv, LobbyInv, PlanTypes
<1>2. ASSUME NEW g \in Games
      PROVE  /\ pot[g] \in Nat /\ stack[g] \in [Users -> Nat]
             /\ Total(stack[g]) \in Nat /\ ChipsAt(g) \in Nat
  <2>1. pot[g] \in Nat /\ stack[g] \in [Users -> Nat]
    BY DEF WalletInv, LobbyInv, TableTypes
  <2>2. stack[g] \in [Users -> Int]
    BY <2>1
  <2>3. Total(stack[g]) \in Nat
    BY <2>2, AccountsAssumption, TotalType
  <2> QED
    BY <2>1, <2>3 DEF ChipsAt
<1> QED
  BY <1>1, <1>2 DEF WalletInv, WalletTypes

\* What users see: every step of the wallet leaves it alone or is one of the bank's.
BankView == <<Account, deposited, AtTable, Missing>>
BankStep == B!Next \/ UNCHANGED BankView

\* A step that changes no balance, no table and no cash-out.
LEMMA QuietStep ==
  ASSUME UNCHANGED deposited,
         \A u \in Users : (balance[u] + Owed(u))' = balance[u] + Owed(u) /\ Lost(u)' = Lost(u),
         \A g \in Games : ChipsAt(g)' = ChipsAt(g)
  PROVE  BankStep
  BY DEF BankStep, BankView, Account, AtTable, Missing

-----------------------------------------------------------------------------
(***************************************************************************)
(* Refinement: one lemma per operation.                                    *)
(***************************************************************************)

\* Chips of the lobby do not move while its variables do not change.
LEMMA LobbySame ==
  ASSUME UNCHANGED <<step, cash, stack, pot>>
  PROVE  /\ \A u \in Users : Owed(u)' = Owed(u) /\ Lost(u)' = Lost(u)
         /\ \A g \in Games : ChipsAt(g)' = ChipsAt(g)
  BY CashOutsDue DEF ChipsAt

\* A report: its commit is a deposit, every other statement is invisible.
LEMMA DepositBank ==
  ASSUME WalletInv, NEW c \in ReportCalls, (\E u \in Users : Report(c, u)) \/ DepositStep(c),
         UNCHANGED lobbyVars
  PROVE  BankStep
<1>1. UNCHANGED <<step, cash, stack, pot>>
  BY DEF lobbyVars, tableVars, planVars
<1>2. /\ \A u \in Users : Owed(u)' = Owed(u) /\ Lost(u)' = Lost(u)
      /\ \A g \in Games : ChipsAt(g)' = ChipsAt(g)
  BY <1>1, LobbySame
<1>3. CASE UNCHANGED <<balance, deposited>>
  BY <1>2, <1>3, QuietStep
<1>4. CASE Commit(c)
  <2> DEFINE u == req[c].user
  <2>1. /\ u \in Users /\ delta[c] \in Nat
        /\ deposited \in [Users -> Nat]
        /\ deposited' = [deposited EXCEPT ![u] = @ + delta[c]]
    BY <1>4, CommitFacts DEF WalletInv, DepositInv, DepositTypes
  <2>2. \A v \in Users : balance'[v] = balance[v] + (IF v = u THEN delta[c] ELSE 0)
    <3>1. balance' = [v \in Users |-> IF holder[v] = c THEN balance[v] + change[v] ELSE balance[v]]
      BY <1>4 DEF Commit, CommitBalance
    <3>2. \A v \in Users : holder[v] = c <=> v = u
      BY <1>4, CommitFacts DEF WalletInv, RowsHeld, ReportHolds
    <3>3. change[u] = delta[c]
      BY <2>1, <3>2 DEF WalletInv, RowsHeld
    <3>4. \A v \in Users : balance[v] \in Nat
      BY BankTypes
    <3> QED
      BY <3>1, <3>2, <3>3, <3>4
  <2>3. CASE delta[c] = 0
    <3>0. deposited[u] + delta[c] = deposited[u]
      BY <2>1, <2>3
    <3>1. deposited' = deposited /\ \A v \in Users : balance'[v] = balance[v]
      BY <2>1, <2>2, <2>3, <3>0, BankTypes
    <3> QED
      BY <1>2, <3>1, QuietStep
  <2>4. CASE delta[c] > 0
    <3>1. deposited'[u] = deposited[u] + delta[c] /\ deposited[u] \in Nat
      BY <2>1
    <3>2. deposited'[u] > deposited[u] /\ deposited' = [deposited EXCEPT ![u] = deposited'[u]]
      <4>1. deposited'[u] > deposited[u]
        BY <2>1, <2>4, <3>1
      <4>2. deposited' = [deposited EXCEPT ![u] = deposited[u] + delta[c]]
        BY <2>1
      <4> QED
        BY <3>1, <4>1, <4>2
    <3>3. \A v \in Users : Account'[v] = IF v = u THEN Account[v] + deposited'[u] - deposited[u]
                                                  ELSE Account[v]
      BY <1>2, <2>1, <2>2, <3>1, BankTypes DEF Account
    <3>4. Account' = [Account EXCEPT ![u] = @ + deposited'[u] - deposited[u]]
      BY <2>1, <3>3 DEF Account
    <3>5. UNCHANGED <<AtTable, Missing>>
      BY <1>2 DEF AtTable, Missing
    <3>6. B!Deposit(u)
      BY <3>2, <3>4, <3>5 DEF B!Deposit
    <3> QED
      BY <2>1, <3>6 DEF BankStep, B!Next
  <2> QED
    BY <2>1, <2>3, <2>4
<1> QED
  BY <1>3, <1>4
  DEF Report, DepositStep, Proceed, Begin, FindReport, Replay, ComputeDelta, ReadCap, ApplyCap,
      Upsert, InsertAudit, ApplyDeposit, FailReport, Rollback, RollbackBalance, accountVars

\* A statement of a lobby call that moves no chips and no cash-out.
LEMMA LobbyQuiet ==
  ASSUME WalletInv, NEW c \in LobbyCalls, OwnPlan(c), UNCHANGED <<balance, deposited, stack, pot>>,
         c.op = "leave" => /\ step[c] \in {"credit", "commit"} <=> step'[c] \in {"credit", "commit"}
                           /\ step[c] = "unpaid" <=> step'[c] = "unpaid"
                           /\ step[c] \in {"credit", "commit", "unpaid"} => cash'[c] = cash[c]
  PROVE  BankStep
<1>1. \A e \in LeaveCalls :
        /\ step'[e] \in {"credit", "commit"} <=> step[e] \in {"credit", "commit"}
        /\ step'[e] \in {"unpaid"} <=> step[e] \in {"unpaid"}
        /\ step[e] \in {"credit", "commit"} => cash'[e] = cash[e]
        /\ step[e] \in {"unpaid"} => cash'[e] = cash[e]
  BY DEF OwnPlan, LeaveCalls
<1>2. \A u \in Users : Owed(u)' = Owed(u)
  BY <1>1, DueSame, CashOutsDue
<1>3. \A u \in Users : Lost(u)' = Lost(u)
  BY <1>1, DueSame, CashOutsDue
<1>4. \A g \in Games : ChipsAt(g)' = ChipsAt(g)
  BY DEF ChipsAt
<1> QED
  BY <1>2, <1>3, <1>4, QuietStep

\* The commit of a join is a buy-in: the debit and the stack appear at once.
LEMMA JoinBank ==
  ASSUME WalletInv, NEW c \in LobbyCalls, CommitLobby(c), c.op = "join", OwnPlan(c)
  PROVE  BankStep
<1> DEFINE u == c.user
           g == c.game
           n == c.buyIn
<1>0. u \in Users /\ g \in Games /\ n \in Nat /\ n > 0
  BY LobbyCallType
<1>1. /\ step[c] = "commit" /\ UNCHANGED <<deposited, pot, cash>>
      /\ stack' = [stack EXCEPT ![g][u] = n]
      /\ balance' = [v \in Users |-> IF holder[v] = c THEN balance[v] + change[v] ELSE balance[v]]
  BY DEF CommitLobby, Joined, planVars, CommitBalance
<1>2. \A v \in Users : holder[v] = c <=> v = u
  BY <1>1 DEF WalletInv, RowsHeld, LobbyHolds
<1>3. change[u] = -n /\ balance[u] >= n
  <2>1. change[u] = -n /\ balance[u] + change[u] >= 0
    BY <1>0, <1>2 DEF WalletInv, RowsHeld
  <2> QED
    BY <1>0, <2>1, BankTypes
<1>4. \A v \in Users : balance'[v] = IF v = u THEN balance[v] - n ELSE balance[v]
  BY <1>0, <1>1, <1>2, <1>3, BankTypes
<1>5. \A v \in Users : Owed(v)' = Owed(v) /\ Lost(v)' = Lost(v)
  <2>1. \A e \in LeaveCalls : step'[e] = step[e] /\ cash'[e] = cash[e]
    BY DEF OwnPlan, LeaveCalls
  <2> QED
    BY <2>1, DueSame, CashOutsDue
<1>6. stack[g][u] = 0
  BY <1>0, <1>1 DEF WalletInv, LobbyInv, PlansCurrent, PlanCurrent, StacksSeated
<1>7. \A h \in Games : ChipsAt(h)' = IF h = g THEN ChipsAt(h) + n ELSE ChipsAt(h)
  <2>1. ASSUME NEW h \in Games, h # g PROVE ChipsAt(h)' = ChipsAt(h)
    BY <1>1, <2>1 DEF ChipsAt, WalletInv, LobbyInv, TableTypes
  <2>2. stack'[g] = [stack[g] EXCEPT ![u] = n]
    BY <1>0, <1>1 DEF WalletInv, LobbyInv, TableTypes
  <2>3. /\ stack'[g] \in [Users -> Nat] /\ stack[g] \in [Users -> Nat]
        /\ \A v \in Users : v # u => stack'[g][v] = stack[g][v]
        /\ stack'[g][u] = n
    BY <1>0, <2>2, BankTypes
  <2>4. Total(stack'[g]) = Total(stack[g]) + stack'[g][u] - stack[g][u]
    BY <1>0, <2>3, AccountsAssumption, TotalPoint
  <2>5. Total(stack'[g]) = Total(stack[g]) + n
    BY <1>0, <1>6, <2>3, <2>4, BankTypes
  <2> QED
    BY <1>0, <1>1, <2>1, <2>5, BankTypes DEF ChipsAt
<1>8. Account' = [Account EXCEPT ![u] = @ - n]
  <2>1. \A v \in Users : Account'[v] = IF v = u THEN Account[v] - n ELSE Account[v]
    BY <1>0, <1>4, <1>5, BankTypes DEF Account
  <2> QED
    BY <1>0, <2>1 DEF Account
<1>9. AtTable' = [AtTable EXCEPT ![g] = @ + n]
  BY <1>0, <1>7 DEF AtTable
<1>10. n \in 1..Account[u] /\ AtTable'[g] > AtTable[g]
  BY <1>0, <1>3, <1>7, BankTypes DEF Account, AtTable
<1>11. UNCHANGED <<deposited, Missing>>
  BY <1>1, <1>5 DEF Missing
<1>12. B!BuyIn(u, g)
  <2> HIDE DEF u, g, n
  <2> QED
    BY <1>8, <1>9, <1>10, <1>11 DEF B!BuyIn
<1> QED
  BY <1>0, <1>12 DEF BankStep, B!Next

\* PlayerLeft is the cash-out: from here on the chips are owed to the user.
LEMMA LeaveBank ==
  ASSUME WalletInv, NEW c \in LobbyCalls, AppendLeft(c), Left(c), Go(c, "credit"), ~Taken(c),
         UNCHANGED <<balance, deposited>>
  PROVE  BankStep
<1> DEFINE u == c.user
           g == c.game
           n == cash[c]
<1>0. u \in Users /\ g \in Games /\ n \in Nat
  BY LobbyCallType DEF WalletInv, LobbyInv, PlanTypes
<1>1. /\ step[c] = "append" /\ step' = [step EXCEPT ![c] = "credit"]
      /\ UNCHANGED <<pot, cash>> /\ stack' = [stack EXCEPT ![g][u] = 0]
  BY DEF AppendLeft, Left, Go, planVars
<1>2. c \in LeaveCalls /\ n = stack[g][u]
  BY <1>1 DEF WalletInv, LobbyInv, PlansCurrent, PlanCurrent, Current, Taken, LeaveCalls
<1>3. /\ step'[c] = "credit" /\ \A e \in LeaveCalls : e # c => step'[e] = step[e]
      /\ cash \in [LobbyCalls -> Nat]
  BY <1>1 DEF WalletInv, LobbyInv, PlanTypes, LeaveCalls
<1>4. \A v \in Users : Owed(v)' = Owed(v) + (IF v = u THEN n ELSE 0)
  <2> DEFINE T == {"credit", "commit"}
  <2>1. /\ step[c] \notin T /\ step'[c] \in T
        /\ \A e \in LeaveCalls : e # c => (step'[e] \in T <=> step[e] \in T)
    BY <1>1, <1>3
  <2>2. \A v : Total(Due(step', cash, v, T))
                 = Total(Due(step, cash, v, T)) + (IF v = u THEN n ELSE 0)
    <3> HIDE DEF T
    <3> QED
      BY <1>2, <1>3, <2>1, DueEnters
  <2> QED
    BY <1>1, <2>2, CashOutsDue
<1>5. \A v \in Users : Lost(v)' = Lost(v)
  <2>1. \A e \in LeaveCalls : /\ step'[e] \in {"unpaid"} <=> step[e] \in {"unpaid"}
                              /\ step[e] \in {"unpaid"} => cash'[e] = cash[e]
    BY <1>1, <1>3
  <2> QED
    BY <2>1, DueSame, CashOutsDue
<1>6. \A h \in Games : ChipsAt(h)' = IF h = g THEN ChipsAt(h) - n ELSE ChipsAt(h)
  <2>1. ASSUME NEW h \in Games, h # g PROVE ChipsAt(h)' = ChipsAt(h)
    BY <1>1, <2>1 DEF ChipsAt, WalletInv, LobbyInv, TableTypes
  <2>2. stack'[g] = [stack[g] EXCEPT ![u] = 0]
    BY <1>0, <1>1 DEF WalletInv, LobbyInv, TableTypes
  <2>3. /\ stack'[g] \in [Users -> Nat] /\ stack[g] \in [Users -> Nat]
        /\ \A v \in Users : v # u => stack'[g][v] = stack[g][v]
        /\ stack'[g][u] = 0
    BY <1>0, <2>2, BankTypes
  <2>4. Total(stack'[g]) = Total(stack[g]) + stack'[g][u] - stack[g][u]
    BY <1>0, <2>3, AccountsAssumption, TotalPoint
  <2>5. Total(stack'[g]) = Total(stack[g]) - n
    BY <1>0, <1>2, <2>3, <2>4, BankTypes
  <2> QED
    BY <1>0, <1>1, <2>1, <2>5, BankTypes DEF ChipsAt
<1>7. n <= ChipsAt(g)
  <2>1. stack[g][u] <= Total(stack[g])
    BY <1>0, AccountsAssumption, TotalBound, BankTypes
  <2> QED
    BY <1>0, <1>2, <2>1, BankTypes DEF ChipsAt
<1>8. Account' = [Account EXCEPT ![u] = @ + n]
  <2>1. \A v \in Users : Account'[v] = IF v = u THEN Account[v] + n ELSE Account[v]
    BY <1>0, <1>4, BankTypes DEF Account
  <2> QED
    BY <1>0, <2>1 DEF Account
<1>9. AtTable' = [AtTable EXCEPT ![g] = @ - n]
  BY <1>0, <1>6 DEF AtTable
<1>10. UNCHANGED <<deposited, Missing>>
  BY <1>5 DEF Missing
<1>11. CASE n = 0
  <2>1. /\ \A v \in Users : (balance[v] + Owed(v))' = balance[v] + Owed(v)
        /\ \A h \in Games : ChipsAt(h)' = ChipsAt(h)
    BY <1>4, <1>6, <1>11, BankTypes
  <2> QED
    BY <1>5, <2>1, QuietStep
<1>12. CASE n > 0
  <2>1. n \in 1..AtTable[g] /\ AtTable'[g] < AtTable[g]
    BY <1>0, <1>6, <1>7, <1>12, BankTypes DEF AtTable
  <2>2. B!CashOut(u, g)
    <3> HIDE DEF u, g, n
    <3> QED
      BY <1>8, <1>9, <1>10, <2>1 DEF B!CashOut
  <2> QED
    BY <1>0, <2>2 DEF BankStep, B!Next
<1> QED
  BY <1>0, <1>11, <1>12

\* The commit of a leave turns what is owed into balance.
LEMMA PaidBank ==
  ASSUME WalletInv, NEW c \in LobbyCalls, CommitLobby(c), c.op = "leave", OwnPlan(c)
  PROVE  BankStep
<1> DEFINE u == c.user
           n == cash[c]
<1>0. u \in Users /\ n \in Nat /\ c \in LeaveCalls
  BY LobbyCallType DEF WalletInv, LobbyInv, PlanTypes, LeaveCalls
<1>1. /\ step[c] = "commit" /\ UNCHANGED <<deposited, stack, pot, cash>>
      /\ balance' = [v \in Users |-> IF holder[v] = c THEN balance[v] + change[v] ELSE balance[v]]
      /\ step'[c] \in {"ok", "failed"}
  BY DEF CommitLobby, tableVars, planVars, CommitBalance, Go, WalletInv, LobbyInv, PlanTypes
<1>2. \A v \in Users : holder[v] = c <=> v = u /\ n > 0
  BY <1>1 DEF WalletInv, RowsHeld, LobbyHolds
<1>3. n > 0 => change[u] = n
  BY <1>0, <1>2 DEF WalletInv, RowsHeld
<1>4. \A v \in Users : balance'[v] = balance[v] + (IF v = u THEN n ELSE 0)
  BY <1>0, <1>1, <1>2, <1>3, BankTypes
<1>5. \A e \in LeaveCalls : e # c => step'[e] = step[e]
  BY DEF OwnPlan, LeaveCalls
<1>6. cash \in [LobbyCalls -> Nat]
  BY DEF WalletInv, LobbyInv, PlanTypes
<1>7. \A v \in Users : Owed(v) = Owed(v)' + (IF v = u THEN n ELSE 0)
  <2> DEFINE T == {"credit", "commit"}
  <2>1. /\ step'[c] \notin T /\ step[c] \in T
        /\ \A e \in LeaveCalls : e # c => (step[e] \in T <=> step'[e] \in T)
    BY <1>1, <1>5
  <2>2. \A v : Total(Due(step, cash, v, T))
                 = Total(Due(step', cash, v, T)) + (IF v = u THEN n ELSE 0)
    <3> HIDE DEF T
    <3> QED
      BY <1>0, <1>6, <2>1, DueEnters
  <2> QED
    BY <1>1, <2>2, CashOutsDue
<1>8. \A v \in Users : Owed(v)' \in Nat
  BY <1>1, <1>6, DueType, CashOutsDue
<1>9. \A v \in Users : (balance[v] + Owed(v))' = balance[v] + Owed(v)
  BY <1>0, <1>4, <1>7, <1>8, BankTypes
<1>10. \A v \in Users : Lost(v)' = Lost(v)
  <2>1. \A e \in LeaveCalls : /\ step'[e] \in {"unpaid"} <=> step[e] \in {"unpaid"}
                              /\ step[e] \in {"unpaid"} => cash'[e] = cash[e]
    BY <1>1, <1>5
  <2> QED
    BY <2>1, DueSame, CashOutsDue
<1>11. \A g \in Games : ChipsAt(g)' = ChipsAt(g)
  BY <1>1 DEF ChipsAt
<1> QED
  BY <1>1, <1>9, <1>10, <1>11, QuietStep

\* A failure after PlayerLeft: the cash-out is lost, and nothing else.
LEMMA FailBank ==
  ASSUME WalletInv, UNCHANGED <<balance, deposited, stack, pot, cash>>, faults' > faults,
         \A c \in LeaveCalls :
           /\ step'[c] \in {"credit", "commit"} => step[c] \in {"credit", "commit"}
           /\ step'[c] = "unpaid" <=>
                \/ step[c] = "unpaid"
                \/ step[c] \in {"credit", "commit"} /\ step'[c] \notin {"credit", "commit"}
  PROVE  BankStep
<1> DEFINE T == {"credit", "commit"}
<1>0. cash \in [LobbyCalls -> Nat]
  BY DEF WalletInv, LobbyInv, PlanTypes
<1>1. ASSUME NEW u \in Users
      PROVE  /\ Owed(u)' + Lost(u)' = Owed(u) + Lost(u) /\ Lost(u)' >= Lost(u)
             /\ Owed(u)' \in Nat /\ Lost(u)' \in Nat
  <2> DEFINE f == Due(step, cash, u, T)      g == Due(step, cash, u, {"unpaid"})
             f2 == Due(step', cash, u, T)    g2 == Due(step', cash, u, {"unpaid"})
  <2>1. /\ IsFiniteSet(LeaveCalls) /\ f \in [LeaveCalls -> Nat] /\ g \in [LeaveCalls -> Nat]
        /\ f2 \in [LeaveCalls -> Nat] /\ g2 \in [LeaveCalls -> Nat]
        /\ Total(f) \in Nat /\ Total(g) \in Nat /\ Total(f2) \in Nat /\ Total(g2) \in Nat
    BY <1>0, DueType
  <2>2. \A c \in LeaveCalls : f2[c] + g2[c] = f[c] + g[c] /\ g[c] <= g2[c]
    <3>1. SUFFICES ASSUME NEW c \in LeaveCalls
                   PROVE  f2[c] + g2[c] = f[c] + g[c] /\ g[c] <= g2[c]
      OBVIOUS
    <3>2. cash[c] \in Nat
      BY <1>0 DEF LeaveCalls
    <3>3. /\ f[c] = IF c.user = u /\ step[c] \in T THEN cash[c] ELSE 0
          /\ g[c] = IF c.user = u /\ step[c] = "unpaid" THEN cash[c] ELSE 0
          /\ f2[c] = IF c.user = u /\ step'[c] \in T THEN cash[c] ELSE 0
          /\ g2[c] = IF c.user = u /\ step'[c] = "unpaid" THEN cash[c] ELSE 0
      BY DEF Due
    <3> QED
      BY <3>2, <3>3
  <2>3. Total(f2) + Total(g2) = Total(f) + Total(g)
    <3> HIDE DEF f, g, f2, g2
    <3> QED
      BY <2>1, <2>2, TotalMoves
  <2>4. Total(g) <= Total(g2)
    <3>1. g \in [LeaveCalls -> Int] /\ g2 \in [LeaveCalls -> Int]
      BY <2>1
    <3> HIDE DEF f, g, f2, g2
    <3> QED
      BY <2>1, <2>2, <3>1, TotalLeq
  <2>5. Owed(u) = Total(f) /\ Lost(u) = Total(g) /\ Owed(u)' = Total(f2) /\ Lost(u)' = Total(g2)
    BY CashOutsDue
  <2> HIDE DEF f, g, f2, g2
  <2> QED
    BY <2>1, <2>3, <2>4, <2>5
<1>2. \A g \in Games : ChipsAt(g)' = ChipsAt(g)
  BY DEF ChipsAt
<1>3. \A u \in Users : /\ Account'[u] + Missing'[u] = Account[u] + Missing[u]
                       /\ Missing'[u] >= Missing[u]
  BY <1>1, BankTypes DEF Account, Missing
<1>4. UNCHANGED <<deposited, AtTable>>
  BY <1>2 DEF AtTable
<1> QED
  BY <1>3, <1>4 DEF BankStep, B!Next, B!Fail

\* Play at a table moves chips between its players.
LEMMA SessionBank ==
  ASSUME WalletInv, NEW g \in Games, SessionAppends(g)
  PROVE  BankStep
<1>1. UNCHANGED <<balance, deposited, step, cash>>
  BY DEF SessionAppends, accountVars, planVars
<1>2. \A u \in Users : Owed(u)' = Owed(u) /\ Lost(u)' = Lost(u)
  BY <1>1, CashOutsDue
<1>3. TableTypes
  BY DEF WalletInv, LobbyInv
<1>4. ASSUME NEW h \in Games, h # g PROVE ChipsAt(h)' = ChipsAt(h)
  BY <1>3, <1>4, PlayMoves DEF ChipsAt
<1>5. ChipsAt(g)' = ChipsAt(g)
  <2>1. CASE UNCHANGED <<stack, pot>>
    BY <2>1 DEF ChipsAt
  <2>2. ASSUME NEW u \in Users, NEW n \in Int, stack[g][u] + n \in Nat, pot[g] - n \in Nat,
               stack' = [stack EXCEPT ![g][u] = @ + n], pot' = [pot EXCEPT ![g] = @ - n]
        PROVE  ChipsAt(g)' = ChipsAt(g)
    <3>1. stack[g] \in [Users -> Nat] /\ pot[g] \in Nat /\ Total(stack[g]) \in Nat
      BY BankTypes
    <3>2. /\ stack'[g] = [stack[g] EXCEPT ![u] = stack[g][u] + n]
          /\ pot'[g] = pot[g] - n
      BY <1>3, <2>2 DEF TableTypes
    <3>3. /\ stack'[g] \in [Users -> Nat] /\ stack'[g][u] = stack[g][u] + n
          /\ \A v \in Users : v # u => stack'[g][v] = stack[g][v]
      BY <2>2, <3>1, <3>2
    <3>4. Total(stack'[g]) = Total(stack[g]) + stack'[g][u] - stack[g][u]
      BY <3>1, <3>3, AccountsAssumption, TotalPoint
    <3>5. stack[g][u] \in Nat
      BY <3>1
    <3>6. Total(stack'[g]) = Total(stack[g]) + n
      BY <3>1, <3>3, <3>4, <3>5
    <3> QED
      BY <3>1, <3>2, <3>6 DEF ChipsAt
  <2> QED
    BY <1>3, <2>1, <2>2, PlayMoves
<1> QED
  BY <1>1, <1>2, <1>4, <1>5, QuietStep

\* A failure of the store and the end of the process.
LEMMA FailuresBank ==
  ASSUME WalletInv, (\E c \in LobbyCalls : FailLobby(c)) \/ Restart
  PROVE  BankStep
<1>0. faults' > faults
  BY DEF FailLobby, Restart, Fault, WalletInv, WalletTypes
<1>1. ASSUME NEW c \in LobbyCalls, FailLobby(c)
      PROVE  BankStep
  <2>1. /\ UNCHANGED <<balance, deposited, stack, pot, cash>>
        /\ step' = [step EXCEPT ![c] = IF Unpaid(c) THEN "unpaid" ELSE "failed"]
        /\ InLobbyTx(c) \/ step[c] = "start"
    BY <1>1 DEF FailLobby, Abort, RollbackBalance, Go, tableVars, planVars
  <2>2. ASSUME NEW e \in LeaveCalls
        PROVE  /\ step'[e] \in {"credit", "commit"} => step[e] \in {"credit", "commit"}
               /\ step'[e] = "unpaid" <=>
                    \/ step[e] = "unpaid"
                    \/ step[e] \in {"credit", "commit"} /\ step'[e] \notin {"credit", "commit"}
    <3>1. e \in LobbyCalls /\ e.op = "leave"
      BY DEF LeaveCalls
    <3>2. CASE e # c
      BY <2>1, <3>1, <3>2 DEF WalletInv, LobbyInv, PlanTypes
    <3>3. CASE e = c
      BY <2>1, <3>1, <3>3 DEF WalletInv, LobbyInv, PlanTypes, Unpaid, InLobbyTx
    <3> QED
      BY <3>2, <3>3
  <2> QED
    BY <1>0, <2>1, <2>2, FailBank
<1>2. CASE Restart
  <2>1. UNCHANGED <<balance, deposited, stack, pot, cash>>
    BY <1>2 DEF Restart, tableVars, planVars
  <2>2. ASSUME NEW e \in LeaveCalls
        PROVE  /\ step'[e] \in {"credit", "commit"} => step[e] \in {"credit", "commit"}
               /\ step'[e] = "unpaid" <=>
                    \/ step[e] = "unpaid"
                    \/ step[e] \in {"credit", "commit"} /\ step'[e] \notin {"credit", "commit"}
    <3>1. e \in LobbyCalls /\ e.op = "leave"
      BY DEF LeaveCalls
    <3>2. /\ step'[e] \in {"new", "ok", "failed", "unpaid"}
          /\ step'[e] = "unpaid" <=> step[e] = "unpaid" \/ Unpaid(e)
      BY <1>2, <3>1, RestartEnds DEF WalletInv, LobbyInv, DepositInv
    <3> QED
      BY <3>1, <3>2 DEF Unpaid
  <2> QED
    BY <1>0, <2>1, <2>2, FailBank
<1> QED
  BY <1>1, <1>2

\* A join or a leave.
LEMMA LobbyBank ==
  ASSUME WalletInv, NEW c \in LobbyCalls, LobbyStep(c)
  PROVE  BankStep
<1>0. /\ OwnPlan(c) /\ PlanTypes /\ PlanCurrent(c) /\ c.op \in {"join", "leave"}
  BY LobbyOwnPlan, LobbyCallType DEF WalletInv, LobbyInv, PlansCurrent
<1>1. ASSUME UNCHANGED <<balance, deposited, stack, pot>>,
             step[c] \notin {"credit", "commit", "unpaid"}, NEW s, Go(c, s),
             s \notin {"credit", "commit", "unpaid"}
      PROVE  BankStep
  <2>1. step'[c] = s
    BY <1>0, <1>1 DEF Go, PlanTypes
  <2> QED
    BY <1>0, <1>1, <2>1, LobbyQuiet
<1>2. ASSUME Abort(c), UNCHANGED <<stack, pot>>, step[c] \notin {"credit", "commit", "unpaid"},
             NEW s \in {"start", "ok", "failed"}, Go(c, s)
      PROVE  BankStep
  BY <1>1, <1>2 DEF Abort, RollbackBalance
<1>3. CASE Call(c) \/ Start(c) \/ BeginAppend(c)
  BY <1>1, <1>3 DEF Call, Start, BeginAppend, accountVars, tableVars
<1>4. CASE Find(c)
  BY <1>1, <1>2, <1>4 DEF Find, tableVars
<1>5. CASE LoadForJoin(c)
  BY <1>1, <1>2, <1>5 DEF LoadForJoin, tableVars
<1>6. CASE LoadForLeave(c)
  BY <1>1, <1>2, <1>6 DEF LoadForLeave, tableVars
<1>7. CASE Debit(c)
  BY <1>1, <1>2, <1>7 DEF Debit, DebitUserBalance, tableVars
<1>8. CASE InsertJoined(c)
  <2>1. CASE ConcurrentWrite(c)
    BY <1>2, <1>8, <2>1 DEF InsertJoined, ConcurrentWrite, tableVars
  <2>2. CASE Go(c, "commit") /\ UNCHANGED <<balance, deposited>>
    <3>1. c.op = "join" /\ UNCHANGED <<stack, pot>>
      BY <1>0, <1>8 DEF InsertJoined, PlanCurrent, tableVars
    <3> QED
      BY <1>0, <2>2, <3>1, LobbyQuiet
  <2> QED
    BY <1>8, <2>1, <2>2 DEF InsertJoined
<1>9. CASE AppendLeft(c)
  <2>1. CASE ConcurrentWrite(c) /\ UNCHANGED tableVars
    BY <1>2, <1>9, <2>1 DEF AppendLeft, ConcurrentWrite, tableVars
  <2>2. CASE Left(c) /\ Go(c, "credit") /\ ~Taken(c) /\ UNCHANGED <<balance, deposited>>
    BY <1>9, <2>2, LeaveBank
  <2> QED
    BY <1>9, <2>1, <2>2 DEF AppendLeft
<1>10. CASE Credit(c)
  <2>1. /\ step[c] = "credit" /\ step'[c] = "commit" /\ cash' = cash
        /\ UNCHANGED <<balance, deposited, stack, pot>>
    BY <1>0, <1>10 DEF Credit, Go, PlanTypes, tableVars, planVars
  <2> QED
    BY <1>0, <2>1, LobbyQuiet
<1>11. CASE CommitLobby(c)
  BY <1>0, <1>11, JoinBank, PaidBank
<1>12. CASE FailLobby(c)
  BY <1>12, FailuresBank
<1> QED
  BY <1>3, <1>4, <1>5, <1>6, <1>7, <1>8, <1>9, <1>10, <1>11, <1>12 DEF LobbyStep, ProceedLobby

-----------------------------------------------------------------------------
(***************************************************************************)
(* Refinement: the theorems.                                               *)
(***************************************************************************)

\* Every step of the wallet is a step of the bank or invisible.
LEMMA WalletBankStep == WalletInv /\ [Next]_vars => BankStep
<1> SUFFICES ASSUME WalletInv, [Next]_vars
             PROVE  BankStep
  OBVIOUS
<1>1. CASE UNCHANGED vars
  <2>1. UNCHANGED <<balance, deposited, step, cash, stack, pot>>
    BY <1>1 DEF vars, accountVars, lobbyVars, tableVars, planVars
  <2> QED
    BY <2>1, LobbySame, QuietStep
<1>2. CASE Next
  BY <1>2, DepositBank, LobbyBank, SessionBank, FailuresBank DEF Next
<1> QED
  BY <1>1, <1>2

\* At first every user's chips are on the account, and nothing is owed, lost or at a table.
LEMMA BankInit == Init => B!Init
<1> SUFFICES ASSUME Init
             PROVE  B!Init
  OBVIOUS
<1>1. /\ step = [c \in LobbyCalls |-> "new"] /\ balance = [u \in Users |-> InitialChips]
      /\ deposited = balance /\ cash \in [LobbyCalls -> Nat]
      /\ \A g \in Games : pot[g] = 0 /\ stack[g] = [u \in Users |-> 0]
  BY DEF Init, AccountsInit, LobbyInit
<1>2. \A u \in Users : Owed(u) = 0 /\ Lost(u) = 0
  <2>1. ASSUME NEW u, NEW T, "new" \notin T PROVE Total(Due(step, cash, u, T)) = 0
    <3>1. Due(step, cash, u, T) \in [LeaveCalls -> Int]
      BY <1>1, DueType
    <3>2. \A c \in LeaveCalls : Due(step, cash, u, T)[c] = 0
      BY <1>1, <2>1 DEF Due, LeaveCalls
    <3> QED
      BY <3>1, <3>2, TotalZero
  <2> QED
    BY <2>1, CashOutsDue
<1>3. \A g \in Games : ChipsAt(g) = 0
  <2>1. [u \in Users |-> 0] \in [Users -> Int] /\ \A u \in Users : [v \in Users |-> 0][u] = 0
    OBVIOUS
  <2>2. Total([u \in Users |-> 0]) = 0
    BY <2>1, TotalZero
  <2> QED
    BY <1>1, <2>2 DEF ChipsAt
<1>4. Account = deposited
  BY <1>1, <1>2, WalletAssumption DEF Account
<1>5. AtTable = [g \in Games |-> 0] /\ Missing = [u \in Users |-> 0]
  BY <1>2, <1>3 DEF AtTable, Missing
<1> QED
  BY <1>4, <1>5 DEF B!Init

\* Users see each deposit, buy-in and cash-out as one step, of the whole stack and never
\* of more than the account holds, and lose chips only in a step in which a call of the
\* store fails: the transactions of ReportSteps, JoinTable and LeaveTable implement Bank.
THEOREM WalletImplementsBank == Spec => ImplementsBank
<1>1. BankStep => [B!Next]_<<Account, deposited, AtTable, Missing>>
  BY DEF BankStep, BankView
<1> QED
  BY <1>1, BankInit, WalletBankStep, WalletInvariant, PTL DEF Spec, ImplementsBank, B!Spec

-----------------------------------------------------------------------------
(***************************************************************************)
(* Conservation, from the refinement: no step of the bank changes the sum. *)
(***************************************************************************)

BankNat ==
  /\ Account \in [Users -> Nat] /\ deposited \in [Users -> Nat]
  /\ AtTable \in [Games -> Nat] /\ Missing \in [Users -> Nat]

\* The bank's variables are numbers.
LEMMA BankIsNat == WalletInv => BankNat
<1> SUFFICES ASSUME WalletInv
             PROVE  BankNat
  OBVIOUS
<1>1. deposited \in [Users -> Nat]
  BY DEF WalletInv, DepositInv, DepositTypes
<1>2. Account \in [Users -> Nat] /\ AtTable \in [Games -> Nat] /\ Missing \in [Users -> Nat]
  BY BankTypes DEF Account, AtTable, Missing
<1> QED
  BY <1>1, <1>2 DEF BankNat

\* The sums of the bank's variables are numbers.
LEMMA BankSums ==
  ASSUME NEW S, IsFiniteSet(S), NEW f \in [S -> Nat]
  PROVE  Total(f) \in Nat
<1>1. f \in [S -> Int]
  OBVIOUS
<1> QED
  BY <1>1, TotalType

\* A deposit grows the account by what it grants.
LEMMA DepositSound ==
  ASSUME BankNat, BankNat', WalletSound, NEW u \in Users, B!Deposit(u)
  PROVE  WalletSound'
<1>1. /\ Account' = [Account EXCEPT ![u] = @ + deposited'[u] - deposited[u]]
      /\ deposited' = [deposited EXCEPT ![u] = deposited'[u]]
      /\ AtTable' = AtTable /\ Missing' = Missing
  BY DEF B!Deposit
<1>2. /\ Account \in [Users -> Nat] /\ Account' \in [Users -> Nat]
      /\ deposited \in [Users -> Nat] /\ deposited' \in [Users -> Nat]
      /\ AtTable \in [Games -> Nat] /\ Missing \in [Users -> Nat]
  BY DEF BankNat
<1>3. /\ \A v \in Users : v # u => Account'[v] = Account[v] /\ deposited'[v] = deposited[v]
      /\ Account'[u] = Account[u] + deposited'[u] - deposited[u]
  BY <1>1, <1>2
<1>4. /\ Total(Account') = Total(Account) + Account'[u] - Account[u]
      /\ Total(deposited') = Total(deposited) + deposited'[u] - deposited[u]
  BY <1>2, <1>3, AccountsAssumption, TotalPoint
<1>5. /\ Total(Account) \in Nat /\ Total(deposited) \in Nat
      /\ Total(AtTable) \in Nat /\ Total(Missing) \in Nat
      /\ Account[u] \in Nat /\ deposited[u] \in Nat /\ deposited'[u] \in Nat
  BY <1>2, AccountsAssumption, LobbyAssumption, BankSums
<1> QED
  BY <1>1, <1>3, <1>4, <1>5 DEF WalletSound

\* A buy-in and a cash-out carry as many chips as they take.
LEMMA CarrySound ==
  ASSUME BankNat, BankNat', WalletSound, NEW u \in Users, NEW g \in Games,
         B!BuyIn(u, g) \/ B!CashOut(u, g)
  PROVE  WalletSound'
<1>1. PICK n \in Int : /\ Account' = [Account EXCEPT ![u] = @ + n]
                       /\ AtTable' = [AtTable EXCEPT ![g] = @ - n]
                       /\ deposited' = deposited /\ Missing' = Missing
  <2>0. Account[u] \in Nat /\ AtTable[g] \in Nat
    BY DEF BankNat
  <2>1. CASE B!BuyIn(u, g)
    <3>1. PICK n \in 1..Account[u] : /\ Account' = [Account EXCEPT ![u] = @ - n]
                                     /\ AtTable' = [AtTable EXCEPT ![g] = @ + n]
      BY <2>1 DEF B!BuyIn
    <3>2. -n \in Int /\ Account[u] - n = Account[u] + (-n) /\ AtTable[g] + n = AtTable[g] - (-n)
      BY <2>0, <3>1
    <3> QED
      BY <2>1, <3>1, <3>2 DEF B!BuyIn
  <2>2. CASE B!CashOut(u, g)
    <3>1. PICK n \in 1..AtTable[g] : /\ Account' = [Account EXCEPT ![u] = @ + n]
                                     /\ AtTable' = [AtTable EXCEPT ![g] = @ - n]
      BY <2>2 DEF B!CashOut
    <3>2. n \in Int
      BY <2>0, <3>1
    <3> QED
      BY <2>2, <3>1, <3>2 DEF B!CashOut
  <2> QED
    BY <2>1, <2>2
<1>2. /\ Account \in [Users -> Nat] /\ Account' \in [Users -> Nat]
      /\ deposited \in [Users -> Nat] /\ Missing \in [Users -> Nat]
      /\ AtTable \in [Games -> Nat] /\ AtTable' \in [Games -> Nat]
  BY DEF BankNat
<1>3. /\ \A v \in Users : v # u => Account'[v] = Account[v]
      /\ \A h \in Games : h # g => AtTable'[h] = AtTable[h]
      /\ Account'[u] = Account[u] + n /\ AtTable'[g] = AtTable[g] - n
  BY <1>1, <1>2
<1>4. /\ Total(Account') = Total(Account) + Account'[u] - Account[u]
      /\ Total(AtTable') = Total(AtTable) + AtTable'[g] - AtTable[g]
  BY <1>2, <1>3, AccountsAssumption, LobbyAssumption, TotalPoint
<1>5. /\ Total(Account) \in Nat /\ Total(deposited) \in Nat
      /\ Total(AtTable) \in Nat /\ Total(Missing) \in Nat
      /\ Account[u] \in Nat /\ AtTable[g] \in Nat
  BY <1>2, AccountsAssumption, LobbyAssumption, BankSums
<1> QED
  BY <1>1, <1>3, <1>4, <1>5 DEF WalletSound

\* A failure takes from an account what it adds to the chips lost.
LEMMA FailSound ==
  ASSUME BankNat, BankNat', WalletSound, B!Fail
  PROVE  WalletSound'
<1>1. /\ Account \in [Users -> Nat] /\ Account' \in [Users -> Nat]
      /\ Missing \in [Users -> Nat] /\ Missing' \in [Users -> Nat]
      /\ deposited \in [Users -> Nat] /\ AtTable \in [Games -> Nat]
  BY DEF BankNat
<1>2. /\ \A u \in Users : Account'[u] + Missing'[u] = Account[u] + Missing[u]
      /\ deposited' = deposited /\ AtTable' = AtTable
  BY DEF B!Fail
<1>3. Total(Account') + Total(Missing') = Total(Account) + Total(Missing)
  BY <1>1, <1>2, AccountsAssumption, TotalMoves
<1>4. /\ Total(Account) \in Nat /\ Total(Account') \in Nat
      /\ Total(Missing) \in Nat /\ Total(Missing') \in Nat
      /\ Total(AtTable) \in Nat /\ Total(deposited) \in Nat
  BY <1>1, AccountsAssumption, LobbyAssumption, BankSums
<1> QED
  BY <1>2, <1>3, <1>4 DEF WalletSound

\* At first everything granted is on the accounts.
LEMMA BankInitSound == BankNat /\ B!Init => WalletSound
<1> SUFFICES ASSUME BankNat, B!Init
             PROVE  WalletSound
  OBVIOUS
<1>1. /\ Account = deposited
      /\ AtTable = [g \in Games |-> 0] /\ Missing = [u \in Users |-> 0]
  BY DEF B!Init
<1>2. ASSUME NEW S PROVE Total([x \in S |-> 0]) = 0
  <2>1. [x \in S |-> 0] \in [S -> Int] /\ \A x \in S : [y \in S |-> 0][x] = 0
    OBVIOUS
  <2> QED
    BY <2>1, TotalZero
<1>3. Total(AtTable) = 0 /\ Total(Missing) = 0
  BY <1>1, <1>2
<1>4. Total(deposited) \in Nat
  BY AccountsAssumption, BankSums DEF BankNat
<1> QED
  BY <1>1, <1>3, <1>4 DEF WalletSound

\* Reports, joins, leaves, their retries and their failures never create chips, and lose
\* only the cash-outs of leaves that failed after their events were appended: all chips
\* ever granted by ReportSteps are on an account, at a table, owed or counted as lost.
THEOREM WalletConservesChips == Spec => []WalletSound
<1>1. BankNat /\ BankNat' /\ WalletSound /\ BankStep => WalletSound'
  <2> SUFFICES ASSUME BankNat, BankNat', WalletSound, BankStep
               PROVE  WalletSound'
    OBVIOUS
  <2>1. CASE B!Next
    BY <2>1, DepositSound, CarrySound, FailSound DEF B!Next
  <2>2. CASE UNCHANGED BankView
    BY <2>2 DEF BankView, WalletSound
  <2> QED
    BY <2>1, <2>2 DEF BankStep
<1> QED
  BY <1>1, BankInit, BankInitSound, BankIsNat, WalletBankStep, WalletInvariant, PTL DEF Spec

=============================================================================
