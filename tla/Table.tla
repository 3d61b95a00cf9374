-------------------------------- MODULE Table --------------------------------
(***************************************************************************)
(* One cash-game table of the poker server: the GameState that             *)
(* internal/engine owns, the player commands HandleCommand accepts, the    *)
(* lifecycle steps advance() takes after every command, and the two lobby  *)
(* operations (join and leave) that move chips between the wallet and the  *)
(* table.                                                                  *)
(*                                                                         *)
(* A command and the runAdvance loop behind it are one critical section of *)
(* the session goroutine.  The loop is modelled step by step: busy is TRUE *)
(* from the command until advance returns no event, and nothing else may   *)
(* happen meanwhile.  Joining and leaving do not run the loop.             *)
(*                                                                         *)
(* Abstractions.  Cards are left out: a player holds hole cards or not,    *)
(* and the showdown chooses the rank bestHand gives to every evaluated     *)
(* hand.  ActionOrder and PendingActions are lists that list players by    *)
(* position, so order gives every player's position (0: not in the list)   *)
(* and pending is the set of the listed players.  MinRaiseAmount and       *)
(* LastFullRaiseTo are never read by the engine and are left out.  Time is *)
(* the flag expired: the acting player's deadline has passed.  Of the      *)
(* session that serves the table only its deadline timer is kept.          *)
(***************************************************************************)
EXTENDS Counting

CONSTANTS
  Players,        \* users who may sit down; the lobby uses the user id as player id
  None,           \* no player: an absent acting_player_id or dealer
  MaxSeats,       \* config: max_seats
  SmallBlind,     \* config: small_blind
  BigBlind,       \* config: big_blind
  Ante,           \* config: ante, 0 = disabled
  BBAnte,         \* config: bb_ante, 0 = disabled
  RakeBps,        \* config: rake_bps
  RakeCap,        \* config: rake_cap, 0 = uncapped
  MaxRaises,      \* config: max_raises_per_street of a fixed-limit table, 0 otherwise
  UncapHeadsUp,   \* config: uncap_heads_up
  MinPlayers,     \* config: min_players_to_start
  MinBuyIn,       \* config: min_buy_in
  MaxBuyIn,       \* config: max_buy_in, 0 = uncapped
  ActionTimeout,  \* config: TRUE iff action_timeout is set and positive
  Balance,        \* chips every user's wallet starts with
  BuyIns,         \* buy-ins the users try
  SeatRequests,   \* seats the users ask for, 0 = any
  HandRanks,      \* ranks the hand evaluator can give
  MaxHands        \* bound: hands played on this table

ASSUME PlayersAssumption ==
  /\ IsFiniteSet(Players)
  /\ None \notin Players

\* What validateCashGameConfig requires of the numbers of a configuration.  It does
\* not look at the antes and the rake cap; a negative one means the same as 0.
ASSUME ConfigAssumption ==
  /\ MaxSeats \in Nat /\ MaxSeats >= 2
  /\ SmallBlind \in Nat /\ SmallBlind > 0
  /\ BigBlind \in Nat /\ BigBlind > SmallBlind
  /\ Ante \in Nat /\ BBAnte \in Nat
  /\ RakeBps \in Nat /\ RakeBps <= 10000 /\ RakeCap \in Nat
  /\ MaxRaises \in Nat /\ UncapHeadsUp \in BOOLEAN
  /\ MinPlayers \in Nat /\ MinPlayers >= 2 /\ MinPlayers <= MaxSeats
  /\ MinBuyIn \in Nat /\ MinBuyIn > 0
  /\ MaxBuyIn \in Nat /\ (MaxBuyIn # 0 => MaxBuyIn >= MinBuyIn)
  /\ ActionTimeout \in BOOLEAN

ASSUME BoundsAssumption ==
  /\ Balance \in Nat
  /\ BuyIns \subseteq Nat
  /\ SeatRequests \subseteq Nat
  /\ HandRanks \subseteq Nat /\ HandRanks # {}
  /\ MaxHands \in Nat

VARIABLES
  \* The players at the table (GameState.players, PlayerState).
  seated,      \* ids in GameState.players
  seat,        \* seat, 0 for a user who is not at the table
  stack,       \* stack
  bet,         \* current_bet: chips put in this betting round
  committed,   \* total_committed_this_hand
  folded,      \* players with is_folded
  allIn,       \* players with is_all_in
  sittingOut,  \* players with is_sitting_out
  holding,     \* players with hole cards
  \* The hand in progress (GameState.current_hand, HandState).
  phase,       \* "none" when current_hand is absent
  pot,         \* pot
  highBet,     \* current_highest_bet
  lastRaise,   \* last_raise_amount
  raises,      \* raises_this_street, counted on fixed-limit tables
  closedFor,   \* action_closed_for
  order,       \* action_order: position of every player, 0 = not listed
  pending,     \* pending_actions
  acting,      \* acting_player_id
  expired,     \* the action deadline of the acting player has passed
  dealer,      \* dealer_player_id
  \* The table and the money around it.
  dealerSeat,  \* dealer_seat
  handNumber,  \* hand_number
  wallet,      \* chip_balance of every user
  house,       \* rake taken so far
  \* The session that serves the table.
  busy,        \* the session goroutine is inside runAdvance
  armed        \* the session waits and has a timer for the deadline: dlC is not nil

chipVars   == <<stack, bet, committed, pot>>
roundVars  == <<highBet, lastRaise, raises, closedFor>>
turnVars   == <<pending, acting, expired>>
handVars   == <<phase, order, dealer, holding>>
seatVars   == <<seated, seat>>
bankVars   == <<wallet, house>>
buttonVars == <<dealerSeat, handNumber>>
sessionVars == <<busy, armed>>
vars == <<chipVars, roundVars, turnVars, handVars, seatVars, bankVars,
          buttonVars, sessionVars, folded, allIn, sittingOut>>

Phases == {"none", "preflop", "flop", "turn", "river"}

NoChips == [p \in Players |-> 0]

-----------------------------------------------------------------------------
(***************************************************************************)
(* Seat order.                                                             *)
(***************************************************************************)

\* Sitting-in players with chips: the players a new hand or street lists.
Active == {p \in seated : p \notin sittingOut /\ stack[p] > 0}

LowestSeat(S) == CHOOSE p \in S : \A q \in S : seat[p] <= seat[q]

\* The next player of S clockwise of seat s.
Clockwise(S, s) ==
  LET above == {p \in S : seat[p] > s}
  IN  LowestSeat(IF above # {} THEN above ELSE S)

\* The positions of the players in S when the list starts left of target, or
\* at the lowest seat when target is not in S.
RotateAfter(S, target) ==
  LET base == IF target \in S THEN seat[target] ELSE 0
  IN  [p \in Players |->
         IF p \in S THEN 1 + ((seat[p] - base - 1) % MaxSeats) ELSE 0]

\* The player of S that the action order lists first.
First(S) == CHOOSE p \in S : \A q \in S : order[p] <= order[q]

\* Mutant: nonFoldedCount without its test of is_folded.
LiveCountsFolded == {p \in seated : order[p] > 0}

\* Players of the hand who have not folded, as far as the action order lists them.
Live == {p \in seated \ folded : order[p] > 0}

\* At most one such player is left.
OneLive == \A p, q \in Live : p = q

\* Who must respond to a bet or raise of p.
OthersInOrder(p) == Live \ (allIn \cup {p})

-----------------------------------------------------------------------------
(***************************************************************************)
(* Player commands.  A command that fails validation changes nothing but   *)
(* still runs the lifecycle loop: OtherCommand.                            *)
(***************************************************************************)

\* requireActiveGame, requireHandInProgress, requireSeated, requireCanAct and
\* requireActorsTurn.  The status is ACTIVE exactly while a hand is in progress,
\* because nothing emits TablePaused or TableClosed.
CanAct(p) ==
  /\ ~busy
  /\ phase # "none"
  /\ p \in seated
  /\ p \notin sittingOut \cup folded \cup allIn
  /\ acting = p

\* Mutant: callAmount without the cap.
CallAmountUncapped(p) == IF highBet <= bet[p] THEN 0 ELSE highBet - bet[p]

\* callAmount: what p must add to call, at most the whole stack.  Antes can leave a
\* stack negative, and then so is the amount.
CallAmount(p) ==
  IF highBet <= bet[p] THEN 0
  ELSE IF highBet - bet[p] > stack[p] THEN stack[p] ELSE highBet - bet[p]

MinRaiseTo == highBet + (IF lastRaise < BigBlind THEN BigBlind ELSE lastRaise)

\* Mutant: the commitment to the hand forgets the earlier streets.
PutInThisStreet(p, amount) ==
  /\ stack' = [stack EXCEPT ![p] = @ - amount]
  /\ bet' = [bet EXCEPT ![p] = @ + amount]
  /\ committed' = [committed EXCEPT ![p] = bet[p] + amount]
  /\ pot' = pot + amount

\* p moves amount from the stack into the pot as part of the current bet.
PutIn(p, amount) ==
  /\ stack' = [stack EXCEPT ![p] = @ - amount]
  /\ bet' = [bet EXCEPT ![p] = @ + amount]
  /\ committed' = [committed EXCEPT ![p] = @ + amount]
  /\ pot' = pot + amount

\* Mutant: an event that ends a turn does not clear acting_player_id.
KeepTurn == UNCHANGED <<acting, expired>>

\* Nobody is acting until the loop starts the next action.
ClearTurn == acting' = None /\ expired' = FALSE

\* Mutant: the player stays in pending_actions.
PassTurnStaysPending(p) == UNCHANGED pending /\ ClearTurn

\* The turn passes on without reopening the betting.
PassTurn(p) == pending' = pending \ {p} /\ ClearTurn

CountRaise == raises' = IF MaxRaises > 0 THEN raises + 1 ELSE raises

\* Mutant: a raise does not ask those who have already acted again.
ReopenPendingOnly(p, total) ==
  /\ highBet' = total
  /\ lastRaise' = total - highBet
  /\ CountRaise
  /\ closedFor' = {}
  /\ pending' = pending \ {p}
  /\ ClearTurn

\* A bet or a full raise to total: everyone else has to respond.
Reopen(p, total) ==
  /\ highBet' = total
  /\ lastRaise' = total - highBet
  /\ CountRaise
  /\ closedFor' = {}
  /\ pending' = OthersInOrder(p)
  /\ ClearTurn

\* The command was handled; runAdvance takes over.  Nobody looks at the timer until
\* resetDeadline sets it again.
RunAdvance == busy' = TRUE /\ armed' = FALSE

Fold(p) ==
  /\ CanAct(p)
  /\ folded' = folded \cup {p}
  /\ PassTurn(p)
  /\ RunAdvance
  /\ UNCHANGED <<chipVars, roundVars, handVars, seatVars, bankVars, buttonVars,
                 allIn, sittingOut>>

Check(p) ==
  /\ CanAct(p)
  /\ CallAmount(p) <= 0
  /\ PassTurn(p)
  /\ RunAdvance
  /\ UNCHANGED <<chipVars, roundVars, handVars, seatVars, bankVars, buttonVars,
                 folded, allIn, sittingOut>>

Call(p) ==
  /\ CanAct(p)
  /\ CallAmount(p) # 0
  /\ PutIn(p, CallAmount(p))
  /\ allIn' = IF stack[p] = CallAmount(p) THEN allIn \cup {p} ELSE allIn
  /\ PassTurn(p)
  /\ RunAdvance
  /\ UNCHANGED <<roundVars, handVars, seatVars, bankVars, buttonVars,
                 folded, sittingOut>>

\* A bet of the whole stack does not set is_all_in.
Bet(p, amount) ==
  /\ CanAct(p)
  /\ highBet <= 0
  /\ amount > 0
  /\ amount >= BigBlind \/ amount = stack[p]
  /\ amount <= stack[p]
  /\ PutIn(p, amount - bet[p])
  /\ Reopen(p, amount)
  /\ RunAdvance
  /\ UNCHANGED <<handVars, seatVars, bankVars, buttonVars, folded, allIn, sittingOut>>

\* The raise cap of a fixed-limit table is reached.
PlayersInHand == seated \ (folded \cup sittingOut)
RaiseCapReached ==
  /\ MaxRaises > 0
  /\ ~(UncapHeadsUp /\ Cardinality(PlayersInHand) = 2)
  /\ raises >= MaxRaises

Raise(p, to) ==
  /\ CanAct(p)
  /\ highBet # 0
  /\ p \notin closedFor
  /\ to > highBet
  /\ to - bet[p] <= stack[p]
  /\ to >= MinRaiseTo \/ to - bet[p] = stack[p]
  /\ ~RaiseCapReached
  /\ PutIn(p, to - bet[p])
  /\ allIn' = IF stack[p] = to - bet[p] THEN allIn \cup {p} ELSE allIn
  /\ Reopen(p, to)
  /\ RunAdvance
  /\ UNCHANGED <<handVars, seatVars, bankVars, buttonVars, folded, sittingOut>>

\* An all-in of less than a full raise: the players who have already acted are
\* asked again, but may not raise.
ShortRaise(p, total) ==
  /\ highBet' = total
  /\ lastRaise' = total - highBet
  /\ CountRaise
  /\ closedFor' = OthersInOrder(p) \ pending
  /\ pending' = OthersInOrder(p)
  /\ ClearTurn

AllIn(p) ==
  LET total == bet[p] + stack[p] IN
  /\ CanAct(p)
  /\ stack[p] > 0
  /\ PutIn(p, stack[p])
  /\ allIn' = allIn \cup {p}
  /\ \/ /\ total <= highBet
        /\ PassTurn(p)
        /\ UNCHANGED roundVars
     \/ /\ total > highBet
        /\ lastRaise = 0 \/ total - highBet >= lastRaise
        /\ Reopen(p, total)
     \/ /\ total > highBet
        /\ lastRaise # 0 /\ total - highBet < lastRaise
        /\ ShortRaise(p, total)
  /\ RunAdvance
  /\ UNCHANGED <<handVars, seatVars, bankVars, buttonVars, folded, sittingOut>>

SitOut(p) ==
  /\ ~busy
  /\ p \in seated \ sittingOut
  /\ sittingOut' = sittingOut \cup {p}
  /\ RunAdvance
  /\ UNCHANGED <<chipVars, roundVars, turnVars, handVars, seatVars, bankVars,
                 buttonVars, folded, allIn>>

SitIn(p) ==
  /\ ~busy
  /\ p \in seated \cap sittingOut
  /\ sittingOut' = sittingOut \ {p}
  /\ RunAdvance
  /\ UNCHANGED <<chipVars, roundVars, turnVars, handVars, seatVars, bankVars,
                 buttonVars, folded, allIn>>

\* A rejected command, or one that only informs (chat, emote, time bank, run it
\* twice; cards can never be shown or mucked, for no command sees a showdown).
OtherCommand ==
  /\ ~busy
  /\ RunAdvance
  /\ UNCHANGED <<chipVars, roundVars, turnVars, handVars, seatVars, bankVars,
                 buttonVars, folded, allIn, sittingOut>>
-----------------------------------------------------------------------------
(***************************************************************************)
(* The lobby and the clock.                                                *)
(***************************************************************************)

\* selectSeat: the requested seat if it is free, the lowest free one for 0.
\* Nothing reserves seats, so reserved_seats is always empty.
SelectSeat(request, s) ==
  LET free == 1..MaxSeats \ {seat[p] : p \in seated}
  IN  /\ s \in free
      /\ IF request > 0 THEN s = request ELSE \A t \in free : s <= t

\* Router.Invalidate: the session is cancelled, and its timer with it.
InvalidateSession == armed' = FALSE

\* JoinTable: debit the wallet and append PlayerJoined in one transaction.  The
\* new PlayerState is fresh even when the user played in the hand before.
Join(p, request, buyIn) ==
  /\ ~busy
  /\ p \notin seated
  /\ buyIn >= MinBuyIn
  /\ MaxBuyIn > 0 => buyIn <= MaxBuyIn
  /\ buyIn <= wallet[p]
  /\ \E s \in 1..MaxSeats : SelectSeat(request, s) /\ seat' = [seat EXCEPT ![p] = s]
  /\ seated' = seated \cup {p}
  /\ stack' = [stack EXCEPT ![p] = buyIn]
  /\ wallet' = [wallet EXCEPT ![p] = @ - buyIn]
  /\ InvalidateSession
  /\ UNCHANGED <<bet, committed, pot, roundVars, turnVars, handVars, house,
                 buttonVars, folded, allIn, sittingOut, busy>>

DropChips(p) ==
  /\ stack' = [stack EXCEPT ![p] = 0]
  /\ bet' = [bet EXCEPT ![p] = 0]
  /\ committed' = [committed EXCEPT ![p] = 0]

\* Mutant: the departing player is still counted among the folded ones.
DropFlagsButFolded(p) ==
  /\ UNCHANGED folded
  /\ allIn' = allIn \ {p}
  /\ sittingOut' = sittingOut \ {p}
  /\ holding' = holding \ {p}

DropFlags(p) ==
  /\ folded' = folded \ {p}
  /\ allIn' = allIn \ {p}
  /\ sittingOut' = sittingOut \ {p}
  /\ holding' = holding \ {p}

\* PlayerLeft: the PlayerState is deleted with everything it says of the hand.
RemovePlayer(p) ==
  /\ seated' = seated \ {p}
  /\ seat' = [seat EXCEPT ![p] = 0]
  /\ DropChips(p)
  /\ DropFlags(p)

\* LeaveTable: fold a player who is in the hand, remove the PlayerState and credit
\* the stack.  The action lists keep a player who had folded before.
Leave(p) ==
  /\ ~busy
  /\ p \in seated
  /\ IF phase # "none" /\ p \notin folded THEN PassTurn(p) ELSE UNCHANGED turnVars
  /\ RemovePlayer(p)
  /\ wallet' = [wallet EXCEPT ![p] = IF stack[p] > 0 THEN @ + stack[p] ELSE @]
  /\ InvalidateSession
  /\ UNCHANGED <<pot, roundVars, phase, order, dealer, house, buttonVars, busy>>

\* Time passes: the acting player's deadline runs out, whether or not a session waits.
DeadlinePasses ==
  /\ ActionTimeout
  /\ ~busy
  /\ acting # None
  /\ ~expired
  /\ expired' = TRUE
  /\ UNCHANGED <<chipVars, roundVars, pending, acting, handVars, seatVars, bankVars,
                 buttonVars, sessionVars, folded, allIn, sittingOut>>

\* The session's deadline timer fires and runs the lifecycle loop.
DeadlineTimer ==
  /\ ~busy
  /\ armed
  /\ expired
  /\ RunAdvance
  /\ UNCHANGED <<chipVars, roundVars, turnVars, handVars, seatVars, bankVars,
                 buttonVars, folded, allIn, sittingOut>>

\* The waiting session ends: idle, reaped or with the process.  The next command loads
\* the table into a new one.
SessionEnds ==
  /\ ~busy
  /\ armed
  /\ armed' = FALSE
  /\ UNCHANGED <<chipVars, roundVars, turnVars, handVars, seatVars, bankVars,
                 buttonVars, folded, allIn, sittingOut, busy>>

-----------------------------------------------------------------------------
(***************************************************************************)
(* advance: the lifecycle steps, taken while busy until none is left.      *)
(***************************************************************************)

\* resetDeadline: a deadline that is over by now arms nothing.
ResetDeadline == armed' = (ActionTimeout /\ acting # None /\ ~expired')

\* advance returns no event: runAdvance ends, and the session waits again.
Quiesce ==
  /\ busy' = FALSE
  /\ ResetDeadline
  /\ UNCHANGED <<chipVars, roundVars, pending, acting, handVars, seatVars, bankVars,
                 buttonVars, folded, allIn, sittingOut>>

Busted == {p \in seated \ sittingOut : stack[p] = 0}

SatOutBusted ==
  /\ busy
  /\ phase = "none"
  /\ Busted # {}
  /\ sittingOut' = sittingOut \cup Busted
  /\ UNCHANGED <<chipVars, roundVars, turnVars, handVars, seatVars, bankVars,
                 buttonVars, sessionVars, folded, allIn>>

EnoughPlayers == Cardinality(Active) >= MinPlayers /\ handNumber < MaxHands

QuiesceIdle ==
  /\ busy
  /\ phase = "none"
  /\ Busted = {}
  /\ ~EnoughPlayers
  /\ Quiesce
  /\ UNCHANGED expired

Capped(p, amount) == IF amount < stack[p] THEN amount ELSE stack[p]

\* newDealerIdx
NewDealer ==
  IF handNumber = 0 THEN LowestSeat(Active) ELSE Clockwise(Active, dealerSeat)

\* HandStarted: the list starts left of the big blind, and nobody has acted yet.
HandStarted(d, bb) ==
  /\ phase' = "preflop"
  /\ dealer' = d
  /\ dealerSeat' = seat[d]
  /\ order' = RotateAfter(Active, bb)
  /\ pending' = Active
  /\ ClearTurn
  /\ raises' = 0
  /\ closedFor' = {}
  /\ folded' = {}
  /\ allIn' = {}

\* AntePosted and BlindPosted: antes are committed to the hand, blinds are bets too.
\* Neither sets is_all_in.
BlindsPosted(ante, blind, sb, bb) ==
  /\ bet' = blind
  /\ committed' = [p \in Players |-> ante[p] + blind[p]]
  /\ stack' = [p \in Players |-> stack[p] - (ante[p] + blind[p])]
  /\ pot' = Total(committed')
  /\ highBet' = IF blind[bb] < blind[sb] THEN blind[sb] ELSE blind[bb]
  /\ lastRaise' = blind[bb]

\* startNewHand: antes, blinds and hole cards.  Every amount is capped by the
\* stack the player had before posting any of them.
StartNewHand ==
  LET d == NewDealer
      sb == IF Cardinality(Active) = 2 THEN d ELSE Clockwise(Active, seat[d])
      bb == Clockwise(Active, seat[sb])
      ante == [p \in Players |->
                 IF p \notin Active THEN 0
                 ELSE Capped(p, Ante) + (IF p = bb THEN Capped(p, BBAnte) ELSE 0)]
      blind == [p \in Players |->
                  IF p = sb THEN Capped(p, SmallBlind)
                  ELSE IF p = bb THEN Capped(p, BigBlind) ELSE 0]
  IN  /\ busy
      /\ phase = "none"
      /\ Busted = {}
      /\ EnoughPlayers
      /\ HandStarted(d, bb)
      /\ BlindsPosted(ante, blind, sb, bb)
      /\ holding' = Active
      /\ UNCHANGED <<seatVars, bankVars, handNumber, sessionVars, sittingOut>>

\* timeoutAction: fold when there is a bet to match, check otherwise.
TimeoutAction ==
  /\ busy
  /\ phase # "none"
  /\ acting # None
  /\ expired
  /\ folded' = IF acting \in seated /\ highBet > bet[acting]
               THEN folded \cup {acting} ELSE folded
  /\ PassTurn(acting)
  /\ UNCHANGED <<chipVars, roundVars, handVars, seatVars, bankVars, buttonVars,
                 sessionVars, allIn, sittingOut>>

\* advanceHand past its deadline check.
InHand == busy /\ phase # "none" /\ ~(acting # None /\ expired)

\* computeRake
Rake ==
  LET rake == (pot * RakeBps) \div 10000
  IN  IF pot <= 0 THEN 0
      ELSE IF RakeCap > 0 /\ rake > RakeCap THEN RakeCap ELSE rake

\* HandEnded: current_hand is dropped, with whatever is left of its pot.  The
\* flags and bets of the players stay until the next hand starts.
HandEnded ==
  /\ phase' = "none"
  /\ pot' = 0
  /\ highBet' = 0
  /\ lastRaise' = 0
  /\ raises' = 0
  /\ closedFor' = {}
  /\ order' = NoChips
  /\ pending' = {}
  /\ ClearTurn
  /\ dealer' = None
  /\ handNumber' = handNumber + 1
  /\ UNCHANGED <<committed, holding, seatVars, wallet, dealerSeat, sessionVars,
                 folded, allIn, sittingOut>>

\* endHandUncontested: the last player of the action order takes the pot.
EndHandUncontested(winner) ==
  /\ InHand
  /\ Live = {winner}
  /\ stack' = [stack EXCEPT ![winner] = @ + (pot - Rake)]
  /\ house' = house + Rake
  /\ bet' = bet
  /\ HandEnded

\* endHandUncontested finds nobody in the action order and returns no event.
QuiesceNoWinner ==
  /\ InHand
  /\ Live = {}
  /\ Quiesce
  /\ UNCHANGED expired

\* Waiting for the acting player, whose deadline may have passed since runAdvance read
\* the clock, before its first iteration.
QuiesceWaiting ==
  /\ InHand
  /\ ~OneLive
  /\ acting # None
  /\ expired' \in {FALSE, ActionTimeout}
  /\ Quiesce

StartNextAction ==
  /\ InHand
  /\ ~OneLive
  /\ acting = None
  /\ pending # {}
  /\ acting' = First(pending)
  /\ expired' = FALSE
  /\ UNCHANGED <<chipVars, roundVars, pending, handVars, seatVars, bankVars,
                 buttonVars, sessionVars, folded, allIn, sittingOut>>

\* The betting round is over.
RoundEnded ==
  /\ InHand
  /\ ~OneLive
  /\ acting = None
  /\ pending = {}

NextPhase == [preflop |-> "flop", flop |-> "turn", turn |-> "river"]

\* resetStreetState: everybody who is active is listed and has to act, left of the
\* dealer first.
ResetStreetState ==
  /\ bet' = NoChips
  /\ highBet' = 0
  /\ lastRaise' = 0
  /\ raises' = 0
  /\ closedFor' = {}
  /\ order' = RotateAfter(Active, dealer)
  /\ pending' = Active
  /\ ClearTurn

\* BettingRoundEnded, then FlopDealt, TurnDealt or RiverDealt.
AdvanceStreet ==
  /\ RoundEnded
  /\ phase # "river"
  /\ phase' = NextPhase[phase]
  /\ ResetStreetState
  /\ UNCHANGED <<stack, committed, pot, dealer, holding, seatVars, bankVars,
                 buttonVars, sessionVars, folded, allIn, sittingOut>>

-----------------------------------------------------------------------------
(***************************************************************************)
(* The showdown.  A pot is named by the set of players who may win it.     *)
(***************************************************************************)

\* Mutant: every contributor is eligible for every pot.
EligibleAnyLevel(level) == {p \in seated \ folded : committed[p] > 0}

\* Those who have put in at least level chips and have not folded.
Eligible(level) == {p \in seated \ folded : committed[p] >= level}

Contributors == {p \in seated : committed[p] > 0}

\* computePots: one pot per set of eligible players.  Chips of the same level go to
\* the same pot; with no contributor left at the table everything is one pot.
Pots ==
  IF Contributors = {} THEN {Live}
  ELSE UNION {{Eligible(level) : level \in 1..committed[p]} : p \in Contributors}

PotAmount(E) ==
  IF Contributors = {} THEN pot
  ELSE Cardinality(UNION {{p} \X {level \in 1..committed[p] : Eligible(level) = E} :
                            p \in Contributors})

\* The first pot, which pays the rake.
MainPot == IF Contributors = {} THEN Live ELSE Eligible(1)

\* Hands are evaluated for the players of the action order who hold cards.
Evaluated == Live \cap holding

\* potWinners: the best evaluated hands, or else the first player in action order.
PotWinners(E, rank) ==
  IF E \cap Evaluated # {}
  THEN {p \in E \cap Evaluated : \A q \in E \cap Evaluated : rank[q] <= rank[p]}
  ELSE {p \in E \cap Live : p = First(E \cap Live)}

\* Mutant: the odd chips of a split pot are dropped.
ShareWithoutRemainder(E, p, rank) ==
  LET amount == PotAmount(E) - (IF E = MainPot THEN Rake ELSE 0)
      winners == PotWinners(E, rank)
  IN  IF amount <= 0 \/ p \notin winners THEN 0 ELSE amount \div Cardinality(winners)

\* Mutant: every winner of a split pot gets all of it.
ShareWhole(E, p, rank) ==
  LET amount == PotAmount(E) - (IF E = MainPot THEN Rake ELSE 0)
  IN  IF amount <= 0 \/ p \notin PotWinners(E, rank) THEN 0 ELSE amount

\* What PotAwarded adds to p's stack from pot E: the odd chips go to the winner
\* listed first.
Share(E, p, rank) ==
  LET amount == PotAmount(E) - (IF E = MainPot THEN Rake ELSE 0)
      winners == PotWinners(E, rank)
  IN  IF amount <= 0 \/ p \notin winners THEN 0
      ELSE amount \div Cardinality(winners)
             + (IF p = First(winners) THEN amount % Cardinality(winners) ELSE 0)

Payout(p, rank) == Total([E \in Pots |-> Share(E, p, rank)])

EndHandShowdown(rank) ==
  /\ RoundEnded
  /\ phase = "river"
  /\ stack' = [p \in Players |-> stack[p] + Payout(p, rank)]
  /\ house' = house + Rake
  /\ bet' = NoChips
  /\ HandEnded

-----------------------------------------------------------------------------
(***************************************************************************)
(* The specification.                                                      *)
(***************************************************************************)

\* A table that has just been created.
Init ==
  /\ seated = {}
  /\ seat = NoChips /\ stack = NoChips /\ bet = NoChips /\ committed = NoChips
  /\ folded = {} /\ allIn = {} /\ sittingOut = {} /\ holding = {}
  /\ phase = "none" /\ pot = 0
  /\ highBet = 0 /\ lastRaise = 0 /\ raises = 0 /\ closedFor = {}
  /\ order = NoChips /\ pending = {} /\ acting = None /\ expired = FALSE
  /\ dealer = None /\ dealerSeat = -1 /\ handNumber = 0
  /\ wallet = [p \in Players |-> Balance] /\ house = 0
  /\ busy = FALSE /\ armed = FALSE

Betting(p) ==
  \/ Fold(p)
  \/ Check(p)
  \/ Call(p)
  \/ \E amount \in 1..stack[p] : Bet(p, amount)
  \/ \E to \in (highBet + 1)..(bet[p] + stack[p]) : Raise(p, to)
  \/ AllIn(p)

Advance ==
  \/ SatOutBusted
  \/ QuiesceIdle
  \/ StartNewHand
  \/ TimeoutAction
  \/ \E p \in Players : EndHandUncontested(p)
  \/ QuiesceNoWinner
  \/ QuiesceWaiting
  \/ StartNextAction
  \/ AdvanceStreet
  \/ \E rank \in [Evaluated -> HandRanks] : EndHandShowdown(rank)

\* Sitting out, sitting in, joining and leaving.
Seating(p) ==
  \/ SitOut(p)
  \/ SitIn(p)
  \/ \E request \in SeatRequests, buyIn \in BuyIns : Join(p, request, buyIn)
  \/ Leave(p)

\* The clock, the timer and the end of the session.
Clock == DeadlinePasses \/ DeadlineTimer \/ SessionEnds

Next ==
  \/ \E p \in Players : Betting(p) \/ Seating(p)
  \/ OtherCommand
  \/ Clock
  \/ Advance

Spec == Init /\ [][Next]_vars

\* The same table when players come, go and pause only between hands.
StableNext ==
  \/ \E p \in Players : Betting(p) \/ (phase = "none" /\ Seating(p))
  \/ OtherCommand
  \/ Clock
  \/ Advance

StableSpec == Init /\ [][StableNext]_vars

\* Weak fairness: the goroutine inside runAdvance goes on, and an armed timer
\* fires.  Strong fairness: the clock moves on however often commands interrupt
\* the waiting.  Players are never obliged to act.
FairSpec ==
  /\ StableSpec
  /\ WF_vars(Advance)
  /\ WF_vars(DeadlineTimer)
  /\ SF_vars(DeadlinePasses)

-----------------------------------------------------------------------------
(***************************************************************************)
(* Properties of every table.                                              *)
(***************************************************************************)

\* Every field has its type; the players listed by the hand were all at the table
\* when the street began, and nothing of an absent hand is left behind.
TypeOK ==
  /\ seated \subseteq Players
  /\ seat \in [Players -> 0..MaxSeats]
  /\ stack \in [Players -> Int]
  /\ bet \in [Players -> Int]
  /\ committed \in [Players -> Int]
  /\ folded \subseteq seated
  /\ allIn \subseteq seated
  /\ sittingOut \subseteq seated
  /\ holding \subseteq seated
  /\ phase \in Phases
  /\ pot \in Int
  /\ highBet \in Nat
  /\ lastRaise \in Nat
  /\ raises \in Nat
  /\ closedFor \subseteq Players
  /\ order \in [Players -> 0..MaxSeats]
  /\ pending \subseteq Players
  /\ acting \in Players \cup {None}
  /\ expired \in BOOLEAN
  /\ dealer \in Players \cup {None}
  /\ dealerSeat \in -1..MaxSeats
  /\ handNumber \in Nat
  /\ wallet \in [Players -> Nat]
  /\ house \in Nat
  /\ busy \in BOOLEAN
  /\ armed \in BOOLEAN

\* The player on the clock is the first pending one, and only players listed in
\* the action order are pending: no fold, raise, timeout or departure leaves
\* acting_player_id pointing at somebody whose turn it is not.
ActingIsFirstPending ==
  /\ \A p \in pending : order[p] > 0
  /\ acting # None => acting \in pending /\ \A q \in pending : order[acting] <= order[q]

\* Nobody's bet of the round exceeds the bet the others are asked to call.  Without
\* antes nobody bets chips they do not have, neither a bet nor the pot is negative,
\* and the bet of the round is part of what the player has committed to the hand.
BetsMatched == phase # "none" => \A p \in Players : bet[p] <= highBet
ChipsBacked ==
  pot >= 0 /\ \A p \in Players : stack[p] >= 0 /\ bet[p] >= 0 /\ bet[p] <= committed[p]
StacksAndBetsSound == BetsMatched /\ (Ante = 0 /\ BBAnte = 0 => ChipsBacked)

\* No sequence of hands, joins and departures creates chips: wallets, stacks, the
\* pot and the rake never exceed what the wallets started with.
NoChipsCreated ==
  Total(wallet) + Total(stack) + pot + house <= Cardinality(Players) * Balance

\* How far advance is from returning no event.
AdvanceRank ==
  IF phase = "none" THEN (IF Busted # {} THEN 3 ELSE 2)
  ELSE IF acting # None /\ expired THEN 6
  ELSE IF Live = {} THEN 0
  ELSE IF OneLive THEN 4
  ELSE IF acting # None THEN 0
  ELSE IF pending # {} THEN 1
  ELSE IF phase = "river" THEN 4 ELSE 5

\* runAdvance always gets to rest: every lifecycle step brings it closer, so the
\* loop ends after at most seven iterations and maxSteps (64) never cuts it short.
AdvanceTerminates == [][busy /\ busy' => AdvanceRank' < AdvanceRank]_vars

\* A player who folds is out of the hand for as long as they stay at the table: until
\* the hand ends no step clears is_folded or pays them, whoever else leaves, sits out
\* or runs out of time.  It says nothing of those who leave after folding and come
\* back in the same hand: they are in it again (see OnlyHoldersPaid).
FoldedStaysOut ==
  [][\A p \in folded : phase # "none" /\ p \in seated' =>
                         p \in folded' /\ stack'[p] <= stack[p]]_vars

-----------------------------------------------------------------------------
(***************************************************************************)
(* Properties of a table whose players come and go between hands.          *)
(***************************************************************************)

\* Chips are conserved exactly over any number of hands: blinds, bets, side pots,
\* odd chips, rake, buy-ins and cash-outs.
ChipsConserved ==
  Total(wallet) + Total(stack) + pot + house = Cardinality(Players) * Balance

\* The pot is the sum of what the players at the table have committed to it, so
\* the side pots computed from the commitments add up to the pot.
PotIsCommitments == phase # "none" => pot = Total(committed)

\* A betting round ends only when every player of it who has not folded and has
\* chips left has matched the highest bet.
RoundSettled ==
  [][phase # "none" /\ phase' # phase /\ ~OneLive =>
       \A p \in Live : stack[p] > 0 => bet[p] = highBet]_vars

\* At a showdown nobody wins more from another player than they put at risk
\* themselves: a stack grows by at most the sum of min(own commitment, other's).
Matched(p) ==
  Total([q \in Players |-> IF committed[q] < committed[p] THEN committed[q] ELSE committed[p]])
WinsAtMostMatched ==
  [][phase # "none" /\ phase' = "none" /\ ~OneLive =>
       \A p \in Players : stack'[p] - stack[p] <= Matched(p)]_vars

\* The acting player's time is over and no timer is going to wake anybody: the session
\* has ended, or found the deadline over when it came to set the timer.
Unattended == acting # None /\ expired /\ ~busy /\ ~armed

\* With an action timeout every hand ends, or reaches a state in which no listed
\* player is left to win it, although players never act: by itself, unless a turn is
\* left without a timer, and also then if the table goes on being sent commands,
\* whatever they are.
Resolved == phase = "none" \/ Live = {}
HandsResolve ==
  /\ phase # "none" ~> Resolved \/ Unattended
  /\ []<>busy => (phase # "none" ~> Resolved)

-----------------------------------------------------------------------------
(***************************************************************************)
(* What the repository's comments say, and the code does not do: TLC       *)
(* refutes each of these on the instances of MCTable.                      *)
(***************************************************************************)

\* resetStreetState: "Set pending actions to all active (not folded, not all-in)
\* players".  A player who folded earlier is put on the clock again.
PendingAreActive == pending \cap (folded \cup allIn) = {}

\* advanceHand: "Uncontested: all but one player folded."  Players who are all-in
\* are not listed on the next street and lose the pot unshown.
UncontestedMeansFolded ==
  [][phase # "none" /\ phase' = "none" /\ OneLive => holding \ folded \subseteq Live]_vars

\* HandleCommand drives the lifecycle "until the engine is quiescent (waiting for
\* the next player action or for more players to join)".  With everybody all-in it
\* rests in the middle of the hand with nobody to wait for.
RestsOnlyToWait == [][busy /\ ~busy' => phase' = "none" \/ acting' # None]_vars

\* LeaveTable: "Auto-fold if the player is in an active hand".  The fold goes with the
\* PlayerState: a player who leaves, before or after folding, and joins again in the
\* same hand has no cards, is still listed in the action order, and can win the pot.
OnlyHoldersPaid ==
  [][\A p \in seated \ holding :
       phase # "none" /\ p \in seated' => stack'[p] <= stack[p]]_vars

\* LeaveTable folds a player who leaves during a hand: "Their current_bet is already
\* committed to the pot (it stays there)."  The pots of the showdown are computed
\* from the players still at the table, and the rest of the pot is paid to nobody.
PotPaidInFull ==
  [][phase = "river" /\ phase' = "none" =>
       Total(stack') + house' = Total(stack) + house + pot]_vars

=============================================================================
