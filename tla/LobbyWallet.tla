----------------------------- MODULE LobbyWallet -----------------------------
(***************************************************************************)
(* JoinTable and LeaveTable (lobby/join_leave.go): chips move between the  *)
(* balance of a user and a stack at a table, statement by statement, while *)
(* sessions and other calls append to the same event logs.                 *)
(*                                                                         *)
(* Abstractions.  The log of a game is the number of its last event, the   *)
(* lobby commands it has events of, and the chips and seats its events     *)
(* add up to.  Between lobby events the sessions play, with more freedom  *)
(* than the rules of module Table leave them.                              *)
(***************************************************************************)
EXTENDS Accounts, FiniteSetsExt

CONSTANTS
  Games,
  LobbyCalls,  \* records: id, op ("join" or "leave"), user, game, buyIn, seat, and a
               \* number n that tells calls with the same command id apart
  MaxSeats,    \* CashGameConfig.max_seats
  MinBuyIn,    \* CashGameConfig.min_buy_in
  MaxBuyIn,    \* CashGameConfig.max_buy_in, 0 for none
  MaxCalls,    \* bound: calls of the lobby that are made
  MaxPlays     \* bound: events of sessions

MaxAttempts == 3  \* server.retryOnConcurrentWrite

ASSUME LobbyAssumption ==
  /\ IsFiniteSet(LobbyCalls) /\ IsFiniteSet(Games) /\ None \notin LobbyCalls
  /\ \A c \in LobbyCalls :
       /\ c.op \in {"join", "leave"} /\ c.user \in Users /\ c.game \in Games
       /\ c.buyIn \in Nat \ {0} /\ c.seat \in Nat
  /\ MaxSeats \in Nat /\ MinBuyIn \in Nat /\ MaxBuyIn \in Nat
  /\ MaxCalls \in Nat /\ MaxPlays \in Nat

VARIABLES
  seq,        \* the latest sequence number of a game
  handled,    \* the lobby commands that events of a game were caused by
  seat,       \* the seat of a user, 0 when not seated
  stack,      \* the chips in front of a user
  pot,        \* the chips in the pot
  hand,       \* whether a hand is being played
  folded,     \* the players whose is_folded is set
  inserting,  \* the transaction whose event of the game is not committed yet
  step,       \* where a call is
  base,       \* the latest sequence number it has loaded
  chosen,     \* the seat it has chosen
  cash,       \* the cash-out it has computed
  folds,      \* whether it folds the player first
  tries,      \* attempts that met ErrConcurrentWrite
  plays       \* events of sessions

tableVars  == <<seq, handled, seat, stack, pot, hand, folded>>
planVars   == <<base, chosen, cash, folds>>
lobbyVars  == <<tableVars, inserting, step, planVars, tries, plays>>

Go(c, s) == step' = [step EXCEPT ![c] = s]
InLobbyTx(c) == step[c] \in {"find", "load", "debit", "insert", "begin2", "append",
                             "credit", "commit"}
Seen(c) == c.id \in handled[c.game]

\* The transaction ends without effect.
Abort(c) ==
  /\ RollbackBalance(c)
  /\ inserting' = [g \in Games |-> IF inserting[g] = c THEN None ELSE inserting[g]]

\* ErrConcurrentWrite: rolled back and tried again, up to three times in all.
ConcurrentWrite(c) ==
  /\ Abort(c)
  /\ tries' = [tries EXCEPT ![c] = @ + 1]
  /\ Go(c, IF tries[c] + 1 < MaxAttempts THEN "start" ELSE "failed")

-----------------------------------------------------------------------------
(***************************************************************************)
(* Both operations begin alike.                                            *)
(***************************************************************************)

\* The server has checked the request; a client may send a command again at any time.
Call(c) ==
  /\ step[c] = "new"
  /\ Cardinality({e \in LobbyCalls : step[e] # "new"}) < MaxCalls
  /\ Go(c, "start")
  /\ UNCHANGED <<accountVars, tableVars, inserting, planVars, tries, plays>>

Start(c) ==
  /\ step[c] = "start"
  /\ BeginTx(c)
  /\ Go(c, "find")
  /\ UNCHANGED <<balance, deposited, rowVars, faults, tableVars, inserting, planVars,
                 tries, plays>>

\* 1. A command seen before succeeds without doing anything.
Find(c) ==
  /\ step[c] = "find"
  /\ \/ Seen(c) /\ Abort(c) /\ Go(c, "ok")
     \/ ~Seen(c) /\ Go(c, "load") /\ UNCHANGED <<balance, deposited, rowVars, poolVars,
                                                 inserting>>
  /\ UNCHANGED <<faults, tableVars, planVars, tries, plays>>

-----------------------------------------------------------------------------
(***************************************************************************)
(* JoinTable.                                                              *)
(***************************************************************************)

FreeSeats(g) == (1..MaxSeats) \ {seat[g][u] : u \in Users}

\* selectSeat: the seat asked for, or the lowest free one.
SelectSeat(c) ==
  IF c.seat > 0 THEN {c.seat} \cap FreeSeats(c.game)
  ELSE {s \in FreeSeats(c.game) : \A t \in FreeSeats(c.game) : s <= t}

Joinable(c) ==
  /\ c.buyIn >= MinBuyIn
  /\ MaxBuyIn > 0 => c.buyIn <= MaxBuyIn
  /\ seat[c.game][c.user] = 0
  /\ SelectSeat(c) # {}

\* 2.-6. The state is loaded and the join validated.
LoadForJoin(c) ==
  /\ step[c] = "load" /\ c.op = "join"
  /\ \/ /\ Joinable(c)
        /\ base' = [base EXCEPT ![c] = seq[c.game]]
        /\ \E s \in SelectSeat(c) : chosen' = [chosen EXCEPT ![c] = s]
        /\ Go(c, "debit")
        /\ UNCHANGED <<balance, deposited, rowVars, poolVars, inserting>>
     \/ /\ ~Joinable(c)
        /\ Abort(c) /\ Go(c, "failed")
        /\ UNCHANGED <<base, chosen>>
  /\ UNCHANGED <<faults, tableVars, cash, folds, tries, plays>>

\* Mutant: neither the WHERE clause nor user_snapshots_balance_nonneg guards the debit.
DebitUnguarded(c) ==
  /\ AddToBalance(c, c.user, -c.buyIn)
  /\ Go(c, "insert") /\ UNCHANGED <<balance, deposited, poolVars, inserting>>

\* 7. UPDATE ... WHERE chip_balance >= amount.
DebitUserBalance(c) ==
  \/ /\ balance[c.user] >= c.buyIn
     /\ AddToBalance(c, c.user, -c.buyIn)
     /\ Go(c, "insert") /\ UNCHANGED <<balance, deposited, poolVars, inserting>>
  \/ balance[c.user] < c.buyIn /\ Abort(c) /\ Go(c, "failed")

Debit(c) ==
  /\ step[c] = "debit"
  /\ DebitUserBalance(c)
  /\ UNCHANGED <<faults, tableVars, planVars, tries, plays>>

\* Mutant: no unique index on (game_id, sequence).
TakenUnchecked(c) == FALSE

\* A committed event has the number this one would get.
Taken(c) == seq[c.game] # base[c]

\* 8. AppendEvent inside the transaction: an uncommitted event with the same number
\* is waited for.
InsertJoined(c) ==
  /\ step[c] = "insert"
  /\ \/ Taken(c) /\ ConcurrentWrite(c)
     \/ /\ ~Taken(c) /\ inserting[c.game] = None
        /\ inserting' = [inserting EXCEPT ![c.game] = c]
        /\ Go(c, "commit")
        /\ UNCHANGED <<balance, deposited, rowVars, poolVars, tries>>
  /\ UNCHANGED <<faults, tableVars, planVars, plays>>

Joined(c) ==
  /\ seq' = [seq EXCEPT ![c.game] = @ + 1]
  /\ handled' = [handled EXCEPT ![c.game] = @ \cup {c.id}]
  /\ seat' = [seat EXCEPT ![c.game][c.user] = chosen[c]]
  /\ stack' = [stack EXCEPT ![c.game][c.user] = c.buyIn]
  /\ UNCHANGED <<pot, hand, folded>>

-----------------------------------------------------------------------------
(***************************************************************************)
(* LeaveTable.                                                             *)
(***************************************************************************)

\* 2. and 3. The cash-out is the stack; a player of a hand is folded first.
LoadForLeave(c) ==
  /\ step[c] = "load" /\ c.op = "leave"
  /\ \/ /\ seat[c.game][c.user] # 0
        /\ base' = [base EXCEPT ![c] = seq[c.game]]
        /\ cash' = [cash EXCEPT ![c] = stack[c.game][c.user]]
        /\ folds' = [folds EXCEPT ![c] = hand[c.game] /\ c.user \notin folded[c.game]]
        /\ Go(c, "begin2")
        /\ UNCHANGED <<balance, deposited, rowVars, poolVars, inserting>>
     \/ /\ seat[c.game][c.user] = 0
        /\ Abort(c) /\ Go(c, "failed")
        /\ UNCHANGED <<base, cash, folds>>
  /\ UNCHANGED <<faults, tableVars, chosen, tries, plays>>

\* 4. AppendEvents begins a transaction of its own: a second connection.
BeginAppend(c) ==
  /\ step[c] = "begin2"
  /\ ConnectionFree
  /\ inAppend' = inAppend \cup {c}
  /\ Go(c, "append")
  /\ UNCHANGED <<balance, deposited, rowVars, inTx, faults, tableVars, inserting,
                 planVars, tries, plays>>

\* The player is gone; the chips bet so far stay in the pot.
Left(c) ==
  /\ seq' = [seq EXCEPT ![c.game] = @ + IF folds[c] THEN 2 ELSE 1]
  /\ handled' = [handled EXCEPT ![c.game] = @ \cup {c.id}]
  /\ seat' = [seat EXCEPT ![c.game][c.user] = 0]
  /\ stack' = [stack EXCEPT ![c.game][c.user] = 0]
  /\ folded' = [folded EXCEPT ![c.game] = @ \ {c.user}]
  /\ UNCHANGED <<pot, hand>>

\* The events are committed here, before anything is credited.
AppendLeft(c) ==
  /\ step[c] = "append"
  /\ \/ Taken(c) /\ ConcurrentWrite(c) /\ UNCHANGED <<tableVars, faults>>
     \/ /\ ~Taken(c) /\ inserting[c.game] = None
        /\ Left(c)
        /\ inAppend' = inAppend \ {c}
        /\ Go(c, "credit")
        /\ UNCHANGED <<balance, deposited, rowVars, inTx, inserting, tries, faults>>
  /\ UNCHANGED <<planVars, plays>>

\* 5. CreditUserBalance, or just a read when there is nothing to credit.
Credit(c) ==
  /\ step[c] = "credit"
  /\ IF cash[c] > 0 THEN AddToBalance(c, c.user, cash[c]) ELSE UNCHANGED rowVars
  /\ Go(c, "commit")
  /\ UNCHANGED <<balance, deposited, poolVars, faults, tableVars, inserting, planVars,
                 tries, plays>>

-----------------------------------------------------------------------------
\* The commit; if its answer is lost the client sees a failure.
CommitLobby(c) ==
  /\ step[c] = "commit"
  /\ CommitBalance(c) /\ UNCHANGED deposited
  /\ IF c.op = "join"
     THEN Joined(c) /\ inserting' = [inserting EXCEPT ![c.game] = None]
     ELSE UNCHANGED <<tableVars, inserting>>
  /\ \/ Go(c, "ok") /\ UNCHANGED faults
     \/ Go(c, "failed") /\ Fault
  /\ UNCHANGED <<planVars, tries, plays>>

\* The player has left for good and the cash-out has not been committed.
Unpaid(c) == c.op = "leave" /\ step[c] \in {"credit", "commit"}

\* A statement fails and the caller is told so, also when the player has left unpaid.
FailLobby(c) ==
  /\ InLobbyTx(c) \/ step[c] = "start"
  /\ Fault
  /\ Abort(c)
  /\ Go(c, IF Unpaid(c) THEN "unpaid" ELSE "failed")
  /\ UNCHANGED <<tableVars, planVars, tries, plays>>

-----------------------------------------------------------------------------
Seated(g) == {u \in Users : seat[g][u] # 0}
Unfolded(g) == Seated(g) \ folded[g]

\* What an event of a session may do to the chips: start a hand, move a chip into the
\* pot, fold a player, or end the hand and pay the pot to a player who has not folded.
Play(g) ==
  \/ /\ ~hand[g] /\ Cardinality(Seated(g)) > 1
     /\ hand' = [hand EXCEPT ![g] = TRUE]
     /\ folded' = [folded EXCEPT ![g] = {}]
     /\ UNCHANGED <<stack, pot>>
  \/ /\ hand[g] /\ \E u \in Unfolded(g) :
          stack[g][u] > 0 /\ stack' = [stack EXCEPT ![g][u] = @ - 1]
     /\ pot' = [pot EXCEPT ![g] = @ + 1]
     /\ UNCHANGED <<hand, folded>>
  \/ /\ hand[g] /\ \E u \in Unfolded(g) : folded' = [folded EXCEPT ![g] = @ \cup {u}]
     /\ UNCHANGED <<stack, pot, hand>>
  \/ /\ hand[g] /\ \E u \in Unfolded(g) : stack' = [stack EXCEPT ![g][u] = @ + pot[g]]
     /\ pot' = [pot EXCEPT ![g] = 0]
     /\ hand' = [hand EXCEPT ![g] = FALSE]
     /\ UNCHANGED folded

\* A session appends an event; it waits for an uncommitted one.
SessionAppends(g) ==
  /\ plays < MaxPlays
  /\ plays' = plays + 1
  /\ inserting[g] = None
  /\ Play(g)
  /\ seq' = [seq EXCEPT ![g] = @ + 1]
  /\ UNCHANGED <<accountVars, handled, seat, inserting, step, planVars, tries>>

LobbyInit ==
  /\ seq = [g \in Games |-> 1]
  /\ handled = [g \in Games |-> {}]
  /\ seat = [g \in Games |-> [u \in Users |-> 0]]
  /\ stack = [g \in Games |-> [u \in Users |-> 0]]
  /\ pot = [g \in Games |-> 0]
  /\ hand = [g \in Games |-> FALSE]
  /\ folded = [g \in Games |-> {}]
  /\ inserting = [g \in Games |-> None]
  /\ step = [c \in LobbyCalls |-> "new"]
  /\ base = [c \in LobbyCalls |-> 0]
  /\ chosen = [c \in LobbyCalls |-> 0]
  /\ cash = [c \in LobbyCalls |-> 0]
  /\ folds = [c \in LobbyCalls |-> FALSE]
  /\ tries = [c \in LobbyCalls |-> 0]
  /\ plays = 0

ProceedLobby(c) ==
  \/ Start(c) \/ Find(c)
  \/ LoadForJoin(c) \/ Debit(c) \/ InsertJoined(c)
  \/ LoadForLeave(c) \/ BeginAppend(c) \/ AppendLeft(c) \/ Credit(c)
  \/ CommitLobby(c)

LobbyStep(c) == Call(c) \/ ProceedLobby(c) \/ FailLobby(c)

-----------------------------------------------------------------------------
\* Two players never share a seat, whichever of them is seated first and however
\* often a join met a concurrent write: the seat is chosen on a state that the
\* event's sequence number proves to be current.
SeatsDistinct ==
  \A g \in Games : \A u, v \in Seated(g) : seat[g][u] = seat[g][v] => u = v

=============================================================================
