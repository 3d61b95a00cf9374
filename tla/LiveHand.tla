------------------------------ MODULE LiveHand ------------------------------
(***************************************************************************)
(* What a session keeps beside the state of its game while a hand is       *)
(* played: the dealer (engine/dealer.go, deck/deck.go) and the timer of    *)
(* the acting player's deadline (engine/session.go, resetDeadline).        *)
(* Neither is persisted.  The dealer is used while a batch of events is    *)
(* worked out, before the batch is appended, so an append that fails takes *)
(* back the events and not the cards.                                      *)
(*                                                                         *)
(* Abstractions.  What the players do and whether a betting round or the   *)
(* hand is over is left to module Table: every outcome may happen.  A card *)
(* is the shuffle it comes from and its place in that shuffle; 0 stands    *)
(* for the order of a new deck, which is the same in every session.  Two   *)
(* cards of one shuffle differ whenever their places do, and cards of two  *)
(* shuffles may be equal.  The events of one batch are worked out step by  *)
(* step, as runAdvance does, and committed or dropped in one step; a       *)
(* session that has been dropped does not finish its batch (GameSession    *)
(* has those that do).                                                     *)
(***************************************************************************)
EXTENDS Integers, Sequences

CONSTANTS
  Size,          \* deck.Size
  HandPlayers,   \* players dealt into a hand
  MaxHands,      \* bound: hands that are started
  MaxFaults,     \* bound: appends and shuffles that fail
  RandFails,     \* TRUE iff crypto/rand may fail
  MaxDrops       \* bound: sessions that end and may be loaded again

\* Two hole cards each, three cards burned and five on the board.
ASSUME HandAssumption ==
  /\ HandPlayers \in Nat \ {0} /\ Size \in Nat /\ Size >= 2 * HandPlayers + 8
  /\ MaxHands \in Nat /\ MaxFaults \in Nat /\ MaxDrops \in Nat
  /\ RandFails \in BOOLEAN

VARIABLES
  game,      \* the state of the game: phase, cards of the hand, acting, turn
  expired,   \* TRUE iff the deadline of the acting player has passed
  pc,        \* the session: "off", "select" (waiting) or "advance" (runAdvance)
  work,      \* the state that runAdvance has reached, and what it has seen and done
  deck,      \* CryptoDealer.d: the shuffle and the number of cards drawn from it
  armed,     \* TRUE iff dlC is not nil
  shuffles,  \* shuffles so far
  hands,     \* hands started so far
  faults,    \* appends and shuffles that have failed
  drops,     \* sessions that have ended
  unclean,   \* history: the deck of this hand was lost or shuffled again
  lost       \* history: no timer is going to end this turn

vars == <<game, expired, pc, work, deck, armed, shuffles, hands, faults, drops,
          unclean, lost>>

Streets == {"preflop", "flop", "turn", "river"}

\* No hand is played; nothing is being worked out.
NoHand == [phase |-> "none", cards |-> <<>>, acting |-> FALSE, turn |-> 0]
NoWork == [game |-> NoHand, late |-> FALSE, shuffled |-> FALSE]

-----------------------------------------------------------------------------
(***************************************************************************)
(* The deck.                                                               *)
(***************************************************************************)

NewDeck == [shuffle |-> 0, pos |-> 0]

\* Draw fails when all cards are drawn.
Enough(n) == deck.pos + n <= Size

\* Mutant: Deal looks at the next card and leaves it on the deck.
DrawPeeks(n) == deck

\* The deck after n calls of Draw.
Draw(n) == [deck EXCEPT !.pos = @ + n]

\* The cards n calls of Deal return after some have been burned.
Deal(d, burned, n) == [k \in 1..n |-> [shuffle |-> d.shuffle, pos |-> d.pos + burned + k]]

-----------------------------------------------------------------------------
(***************************************************************************)
(* Session.run: the select and the timer.                                  *)
(***************************************************************************)

\* Mutant: the timer is armed only when a turn starts.
ArmsNewTurn(g, late) == g.acting /\ ~late /\ g.turn # game.turn

\* resetDeadline: a deadline that has passed arms nothing.
Arms(g, late) == g.acting /\ ~late

\* NewSession, for the next command: a new dealer, and the timer if it is not too late.
Load ==
  /\ pc = "off"
  /\ pc' = "select"
  /\ deck' = NewDeck
  /\ armed' = Arms(game, expired)
  /\ unclean' = (unclean \/ game.phase # "none")
  /\ lost' = (game.acting /\ expired)
  /\ UNCHANGED <<game, expired, work, shuffles, hands, faults, drops>>

\* runAdvance reads the clock once, when it starts.
Begin(g) ==
  /\ pc = "select"
  /\ pc' = "advance"
  /\ work' = [game |-> g, late |-> expired, shuffled |-> FALSE]
  /\ UNCHANGED <<game, expired, deck, shuffles, hands, faults, drops, unclean, lost>>

\* A command of the acting player, who may be late, or any other one.
Command ==
  /\ \/ Begin(game)
     \/ game.acting /\ Begin([game EXCEPT !.acting = FALSE])
  /\ UNCHANGED armed

\* The timer fires: runProactiveAdvance.
Fire ==
  /\ armed /\ expired
  /\ Begin(game)
  /\ armed' = FALSE

\* Time passes.  A busy session notices after its batch, and arms nothing then.
Expire ==
  /\ game.acting /\ ~expired
  /\ expired' = TRUE
  /\ lost' = (lost \/ pc = "advance")
  /\ UNCHANGED <<game, pc, work, deck, armed, shuffles, hands, faults, drops, unclean>>

\* Invalidate, the idle timer or the end of the process: the session is gone, with
\* its batch, its dealer and its timer.  The join or leave that Invalidate follows may
\* have taken the acting player from the table.
Drop ==
  /\ pc # "off" /\ drops < MaxDrops
  /\ drops' = drops + 1
  /\ pc' = "off"
  /\ armed' = FALSE
  /\ work' = NoWork
  /\ deck' = NewDeck
  /\ \/ UNCHANGED <<game, expired>>
     \/ /\ game.acting
        /\ game' = [game EXCEPT !.acting = FALSE]
        /\ expired' = FALSE
  /\ lost' = game'.acting
  /\ UNCHANGED <<shuffles, hands, faults, unclean>>

-----------------------------------------------------------------------------
(***************************************************************************)
(* runAdvance: advance, until nothing is left to do.                       *)
(***************************************************************************)

Advancing == pc = "advance"
Settled == Advancing /\ ~work.game.acting

\* Mutant: the timer is not set again after a batch that failed.
GiveUpUnarmed(shuffled) ==
  /\ pc' = "select"
  /\ armed' = FALSE
  /\ unclean' = (unclean \/ (shuffled /\ game.phase # "none"))
  /\ lost' = (lost \/ (game.acting /\ expired))
  /\ work' = NoWork
  /\ UNCHANGED <<game, expired, hands, drops>>

\* The batch fails: its events are gone, the cards it drew are not put back, and a
\* shuffle for the next hand has replaced the deck of the hand that goes on.
GiveUp(shuffled) ==
  /\ pc' = "select"
  /\ armed' = Arms(game, expired)
  /\ unclean' = (unclean \/ (shuffled /\ game.phase # "none"))
  /\ lost' = (lost \/ (game.acting /\ expired))
  /\ work' = NoWork
  /\ UNCHANGED <<game, expired, hands, drops>>

\* timeoutAction.
TimeOut ==
  /\ Advancing /\ work.game.acting /\ work.late
  /\ work' = [work EXCEPT !.game.acting = FALSE]
  /\ UNCHANGED <<game, expired, pc, deck, armed, shuffles, hands, faults, drops, unclean,
                 lost>>

\* n cards, the first of them burned, lead to the next phase; with too few cards
\* left advance fails.
Street(from, to, n) ==
  /\ Settled /\ work.game.phase = from
  /\ \/ /\ Enough(n)
        /\ deck' = Draw(n)
        /\ work' = [work EXCEPT !.game.phase = to,
                               !.game.cards = @ \o Deal(deck, 1, n - 1)]
        /\ UNCHANGED <<game, expired, pc, armed, hands, drops, unclean, lost>>
     \/ /\ ~Enough(n)
        /\ deck' = Draw(Size - deck.pos)
        /\ GiveUp(work.shuffled)
  /\ UNCHANGED <<shuffles, faults>>

AdvanceStreet ==
  \/ Street("preflop", "flop", 4)
  \/ Street("flop", "turn", 2)
  \/ Street("turn", "river", 2)

\* endHandUncontested at any time, also when others have left the table during the
\* turn of the last player, and endHandShowdown after the river.
EndHand ==
  /\ Advancing /\ work.game.phase \in Streets
  /\ work.game.acting => ~work.late /\ work.game.turn = game.turn
  /\ work' = [work EXCEPT !.game.phase = "none", !.game.cards = <<>>,
                          !.game.acting = FALSE]
  /\ UNCHANGED <<game, expired, pc, deck, armed, shuffles, hands, faults, drops, unclean,
                 lost>>

\* CryptoDealer.Shuffle: all the cards in a new order.
Shuffled == [shuffle |-> shuffles + 1, pos |-> 0]

\* startNewHand: shuffle and deal the hole cards.  A shuffle that fails has replaced
\* the deck all the same.
StartNewHand ==
  /\ Settled /\ work.game.phase = "none" /\ hands < MaxHands
  /\ shuffles' = shuffles + 1
  /\ \/ /\ work' = [work EXCEPT !.game.phase = "preflop", !.shuffled = TRUE,
                               !.game.cards = Deal(Shuffled, 0, 2 * HandPlayers)]
        /\ deck' = [Shuffled EXCEPT !.pos = @ + 2 * HandPlayers]
        /\ hands' = hands + 1
        /\ UNCHANGED <<game, expired, pc, armed, faults, drops, unclean, lost>>
     \/ /\ RandFails /\ faults < MaxFaults
        /\ faults' = faults + 1
        /\ deck' = Shuffled
        /\ GiveUp(TRUE)

\* startNextAction: somebody is asked, and advance has nothing more to do.
StartNextAction ==
  /\ Settled /\ work.game.phase \in Streets
  /\ work' = [work EXCEPT !.game.acting = TRUE, !.game.turn = 1 - @, !.late = FALSE]
  /\ UNCHANGED <<game, expired, pc, deck, armed, shuffles, hands, faults, drops, unclean,
                 lost>>

\* endHandUncontested finds nobody to pay, because everybody left is all-in: the hand
\* stays as it is, and nothing moves it on.
Stall ==
  /\ Settled /\ work.game.phase \in Streets
  /\ work' = [work EXCEPT !.game.phase = "stalled"]
  /\ UNCHANGED <<game, expired, pc, deck, armed, shuffles, hands, faults, drops, unclean,
                 lost>>

\* Nothing is left to do: somebody is asked, or no hand can start or go on.
Quiescent ==
  IF work.game.acting THEN ~work.late ELSE work.game.phase \in {"none", "stalled"}

\* The batch is appended and applied, and the timer set.
AppendBatch ==
  LET sameTurn == work.game.acting /\ work.game.turn = game.turn
      late == sameTurn /\ expired IN
  /\ Advancing /\ Quiescent
  /\ \/ /\ game' = work.game
        /\ expired' = late
        /\ pc' = "select"
        /\ armed' = Arms(work.game, late)
        /\ unclean' = (unclean /\ ~work.shuffled)
        /\ lost' = (sameTurn /\ lost)
        /\ work' = NoWork
        /\ UNCHANGED <<hands, faults, drops>>
     \/ /\ faults < MaxFaults
        /\ faults' = faults + 1
        /\ GiveUp(work.shuffled)
  /\ UNCHANGED <<deck, shuffles>>

-----------------------------------------------------------------------------
Init ==
  /\ game = NoHand
  /\ expired = FALSE
  /\ pc = "off"
  /\ work = NoWork
  /\ deck = NewDeck
  /\ armed = FALSE
  /\ shuffles = 0 /\ hands = 0 /\ faults = 0 /\ drops = 0
  /\ unclean = FALSE /\ lost = FALSE

RunAdvance ==
  TimeOut \/ AdvanceStreet \/ EndHand \/ StartNewHand \/ StartNextAction \/ Stall
    \/ AppendBatch

Next == Load \/ Command \/ Fire \/ Expire \/ Drop \/ RunAdvance

Spec == Init /\ [][Next]_vars

\* The goroutine of the session keeps running and time passes.  Nobody has to send
\* a command.
FairSpec == Spec /\ WF_vars(RunAdvance) /\ WF_vars(Fire) /\ WF_vars(Expire)

-----------------------------------------------------------------------------
(***************************************************************************)
(* Properties.                                                             *)
(***************************************************************************)

\* No card is dealt twice in a hand: its cards are different places of one shuffle,
\* also when appends fail between the streets, as long as the session that dealt
\* it is there and has not shuffled for a next hand that then failed.
NoCardTwice ==
  ~unclean => \A i, j \in DOMAIN game.cards :
                /\ game.cards[i].shuffle = game.cards[j].shuffle
                /\ game.cards[i].shuffle # 0
                /\ game.cards[i] = game.cards[j] => i = j

\* A session that waits for a player whose deadline has not passed will wake up in
\* time: after a load, other players' commands, failed batches and new turns.
DeadlineArmed == pc = "select" /\ game.acting /\ ~expired => armed

\* A silent player's turn ends although nobody sends a command, unless the session
\* ends or fails, or is busy with another command when the deadline passes.
TurnEnds ==
  \A t \in {0, 1} :
    game.acting /\ game.turn = t ~> ~game.acting \/ game.turn # t \/ lost

-----------------------------------------------------------------------------
(***************************************************************************)
(* What the repository's comments say, and the code does not do.           *)
(***************************************************************************)

\* process: "A DB write failure returns an error without mutating state."  The
\* dealer has changed: the hand goes on with cards of another shuffle.
HandFromOneShuffle ==
  \A i, j \in DOMAIN game.cards :
    /\ game.cards[i].shuffle = game.cards[j].shuffle
    /\ game.cards[i] = game.cards[j] => i = j

=============================================================================
