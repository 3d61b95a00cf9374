--------------------------- MODULE LiveHand_proofs ---------------------------
(***************************************************************************)
(* Proofs about LiveHand, for decks and hands of every size and any number *)
(* of failed appends, failed shuffles and lost sessions.                   *)
(***************************************************************************)
EXTENDS LiveHand, SequenceTheorems, TLAPS

Cards == [shuffle : Nat, pos : Nat]
Hands == [phase : Streets \cup {"none", "stalled"}, cards : Seq(Cards),
          acting : BOOLEAN, turn : {0, 1}]
Batches == [game : Hands, late : BOOLEAN, shuffled : BOOLEAN]
Decks == [shuffle : Nat, pos : 0..Size]

HandTypes ==
  /\ game \in Hands
  /\ expired \in BOOLEAN
  /\ pc \in {"off", "select", "advance"}
  /\ work \in Batches
  /\ deck \in Decks
  /\ armed \in BOOLEAN
  /\ shuffles \in Nat
  /\ unclean \in BOOLEAN

\* The cards come from the part of deck d that has been drawn, each from a place of
\* its own.
DealtFrom(cards, d) ==
  /\ \A i \in DOMAIN cards : cards[i].shuffle = d.shuffle /\ cards[i].pos <= d.pos
  /\ \A i, j \in DOMAIN cards : cards[i].pos = cards[j].pos => i = j

\* Hand g has been dealt from deck d, which has been shuffled.
Backed(g, d) == g.phase # "none" => d.shuffle # 0 /\ DealtFrom(g.cards, d)

\* Without a hand there are no cards, and only runAdvance has work in progress.
NoCardsLeft ==
  /\ game.phase = "none" => game.cards = <<>>
  /\ work.game.phase = "none" => work.game.cards = <<>>
  /\ pc # "advance" => work = NoWork

\* As long as nothing has gone wrong in the hand, the dealer still has its deck, unless
\* the batch in progress has shuffled for the next hand.
DeckOfHand == pc # "off" /\ ~unclean /\ ~work.shuffled => Backed(game, deck)

\* What runAdvance has dealt, in the hand or in one it has started, comes from the deck.
DeckOfWork == pc = "advance" /\ (~unclean \/ work.shuffled) => Backed(work.game, deck)

IInv == HandTypes /\ NoCardsLeft /\ DeckOfHand /\ DeckOfWork /\ NoCardTwice

-----------------------------------------------------------------------------
(***************************************************************************)
(* The deck.                                                               *)
(***************************************************************************)

\* The cards of a sequence of cards.
LEMMA CardType ==
  ASSUME NEW cards \in Seq(Cards)
  PROVE  /\ Len(cards) \in Nat /\ DOMAIN cards = 1..Len(cards)
         /\ \A i \in DOMAIN cards : cards[i].pos \in Nat
<1>1. /\ Len(cards) \in Nat /\ DOMAIN cards = 1..Len(cards)
      /\ \A i \in DOMAIN cards : cards[i] \in Cards
  BY LenProperties
<1>2. \A x \in Cards : x.pos \in Nat
  BY DEF Cards
<1> QED
  BY <1>1, <1>2, Zenon

\* Deal returns a sequence of cards.
LEMMA DealType ==
  ASSUME NEW d \in Decks, NEW b \in Nat, NEW n \in Nat
  PROVE  /\ Deal(d, b, n) \in Seq(Cards)
         /\ DOMAIN Deal(d, b, n) = 1..n
         /\ Len(Deal(d, b, n)) = n
         /\ \A k \in 1..n : Deal(d, b, n)[k] = [shuffle |-> d.shuffle, pos |-> d.pos + b + k]
<1>1. \A k \in 1..n : [shuffle |-> d.shuffle, pos |-> d.pos + b + k] \in Cards
  BY HandAssumption DEF Cards, Decks
<1> QED
  BY <1>1 DEF Deal

\* Cards dealt next are new to a hand that has been dealt from the deck.
LEMMA DealContinues ==
  ASSUME NEW cards \in Seq(Cards), NEW d \in Decks,
         NEW e \in Decks, NEW n \in Nat,
         DealtFrom(cards, d), e.shuffle = d.shuffle, e.pos = d.pos + 1 + n
  PROVE  DealtFrom(cards \o Deal(d, 1, n), e)
<1> DEFINE new == Deal(d, 1, n)
<1> DEFINE all == cards \o new
<1>1. /\ new \in Seq(Cards) /\ Len(new) = n
      /\ \A k \in 1..n : new[k] = [shuffle |-> d.shuffle, pos |-> d.pos + 1 + k]
  BY DealType
<1>2. d.pos \in Nat /\ e.pos \in Nat
  BY HandAssumption DEF Decks
<1>3. Len(cards) \in Nat /\ DOMAIN cards = 1..Len(cards)
  BY CardType
<1>4. \A i \in DOMAIN cards : cards[i].pos \in Nat
  BY CardType
<1> HIDE DEF new
<1>5. /\ all \in Seq(Cards) /\ Len(all) = Len(cards) + Len(new)
      /\ \A i \in 1..(Len(cards) + Len(new)) :
           all[i] = IF i <= Len(cards) THEN cards[i] ELSE new[i - Len(cards)]
  BY <1>1, ConcatProperties
<1> HIDE DEF all
<1>6. DOMAIN all = 1..(Len(cards) + n)
  BY <1>1, <1>5, LenProperties
<1>7. ASSUME NEW i \in DOMAIN all, i <= Len(cards)
      PROVE  i \in DOMAIN cards /\ all[i] = cards[i]
  BY <1>1, <1>3, <1>5, <1>6, <1>7
<1>8. ASSUME NEW i \in DOMAIN all, ~(i <= Len(cards))
      PROVE  /\ all[i].shuffle = d.shuffle
             /\ all[i].pos = d.pos + 1 + (i - Len(cards))
  <2>1. i - Len(cards) \in 1..n /\ all[i] = new[i - Len(cards)]
    BY <1>1, <1>3, <1>5, <1>6, <1>8
  <2> QED
    BY <1>1, <2>1
<1>9. \A i \in DOMAIN all : all[i].shuffle = e.shuffle /\ all[i].pos <= e.pos
  BY <1>2, <1>3, <1>4, <1>6, <1>7, <1>8 DEF DealtFrom
<1>10. ASSUME NEW i \in DOMAIN all, NEW j \in DOMAIN all, all[i].pos = all[j].pos
       PROVE  i = j
  <2>1. i \in Int /\ j \in Int
    BY <1>3, <1>6
  <2>2. CASE i <= Len(cards) /\ j <= Len(cards)
    BY <1>7, <1>10, <2>2 DEF DealtFrom
  <2>3. CASE i <= Len(cards) /\ ~(j <= Len(cards))
    <3>1. all[i].pos <= d.pos /\ all[i].pos \in Nat
      BY <1>4, <1>7, <2>3 DEF DealtFrom
    <3> QED
      BY <1>2, <1>3, <1>8, <1>10, <2>1, <2>3, <3>1
  <2>4. CASE ~(i <= Len(cards)) /\ j <= Len(cards)
    <3>1. all[j].pos <= d.pos /\ all[j].pos \in Nat
      BY <1>4, <1>7, <2>4 DEF DealtFrom
    <3> QED
      BY <1>2, <1>3, <1>8, <1>10, <2>1, <2>4, <3>1
  <2>5. CASE ~(i <= Len(cards)) /\ ~(j <= Len(cards))
    BY <1>2, <1>3, <1>8, <1>10, <2>1, <2>5
  <2> QED
    BY <2>2, <2>3, <2>4, <2>5
<1> QED
  BY <1>9, <1>10 DEF DealtFrom, all, new

\* The first cards of a shuffle are all different.
LEMMA DealStarts ==
  ASSUME NEW d \in Decks, d.pos = 0,
         NEW e \in Decks, NEW n \in Nat,
         e.shuffle = d.shuffle, e.pos = n
  PROVE  DealtFrom(Deal(d, 0, n), e)
<1>1. /\ DOMAIN Deal(d, 0, n) = 1..n
      /\ \A k \in 1..n : Deal(d, 0, n)[k] = [shuffle |-> d.shuffle, pos |-> d.pos + 0 + k]
  BY DEF Deal
<1> DEFINE cards == Deal(d, 0, n)
<1>2. ASSUME NEW k \in DOMAIN cards
      PROVE  k \in 1..n /\ cards[k].shuffle = e.shuffle /\ cards[k].pos = k
  <2>1. k \in 1..n /\ cards[k] = [shuffle |-> d.shuffle, pos |-> d.pos + 0 + k]
    BY <1>1
  <2> HIDE DEF cards
  <2> QED
    BY <2>1
<1> HIDE DEF cards
<1>3. \A k \in DOMAIN cards : cards[k].shuffle = e.shuffle /\ cards[k].pos <= e.pos
  BY <1>2
<1>4. \A i, j \in DOMAIN cards : cards[i].pos = cards[j].pos => i = j
  BY <1>2
<1>5. DealtFrom(cards, e)
  BY <1>3, <1>4 DEF DealtFrom
<1> QED
  BY <1>5 DEF cards

\* Cards drawn and not used stay drawn.
LEMMA DrawnStaysDrawn ==
  ASSUME NEW g \in Hands, NEW d \in Decks,
         NEW e \in Decks,
         Backed(g, d), e.shuffle = d.shuffle, e.pos >= d.pos
  PROVE  Backed(g, e)
<1> SUFFICES ASSUME g.phase # "none", NEW i \in DOMAIN g.cards
             PROVE  g.cards[i].pos <= e.pos
  BY DEF Backed, DealtFrom
<1>1. g.cards[i].pos \in Nat
  BY CardType DEF Hands
<1> QED
  <2>1. g.cards[i].pos <= d.pos /\ d.pos \in Nat /\ e.pos \in Nat
    BY HandAssumption DEF Backed, DealtFrom, Decks
  <2> QED
    BY <1>1, <2>1

\* A hand that has been dealt from one deck has no card twice.
LEMMA BackedIsDistinct ==
  ASSUME NEW g \in Hands, NEW d, Backed(g, d), g.phase = "none" => g.cards = <<>>
  PROVE  \A i, j \in DOMAIN g.cards :
           /\ g.cards[i].shuffle = g.cards[j].shuffle
           /\ g.cards[i].shuffle # 0
           /\ g.cards[i] = g.cards[j] => i = j
  BY DEF Backed, DealtFrom, Hands

-----------------------------------------------------------------------------
(***************************************************************************)
(* The invariant is inductive.                                             *)
(***************************************************************************)

\* At first no cards are dealt and nothing is in progress.
LEMMA IInvInit == Init => IInv
<1> SUFFICES ASSUME Init PROVE IInv
  OBVIOUS
<1>1. NoHand \in Hands /\ NoHand.cards = <<>> /\ NoHand.phase = "none"
  BY DEF NoHand, Hands, Streets
<1>2. HandTypes
  <2>1. NoWork \in Batches /\ NewDeck \in Decks
    BY <1>1, HandAssumption DEF NoWork, Batches, NewDeck, Decks
  <2> QED
    BY <1>1, <2>1 DEF Init, HandTypes
<1>3. NoCardsLeft
  BY <1>1 DEF Init, NoCardsLeft, NoWork
<1>4. DeckOfHand /\ DeckOfWork
  BY DEF Init, DeckOfHand, DeckOfWork
<1>5. NoCardTwice
  BY <1>1 DEF Init, NoCardTwice
<1> QED
  BY <1>2, <1>3, <1>4, <1>5 DEF IInv

\* A step that keeps the game and the deck it was dealt from keeps the hand sound.
LEMMA GameKept ==
  ASSUME IInv, game' = game, unclean' = unclean
  PROVE  NoCardTwice'
  BY DEF IInv, NoCardTwice

\* A new session has a new deck: a hand in progress has lost its own.
LEMMA IInvLoad ==
  ASSUME IInv, Load
  PROVE  IInv'
<1> USE DEF IInv
<1>1. HandTypes'
  <2>1. NewDeck \in Decks
    BY HandAssumption DEF NewDeck, Decks
  <2>2. armed' \in BOOLEAN /\ unclean' \in BOOLEAN
    BY Zenon DEF Load, Arms
  <2> QED
    BY <2>1, <2>2 DEF Load, HandTypes
<1>2. NoCardsLeft'
  BY DEF Load, NoCardsLeft
<1>3. DeckOfHand'
  BY DEF Load, DeckOfHand, Backed
<1>4. DeckOfWork'
  BY DEF Load, DeckOfWork
<1>5. NoCardTwice'
  BY DEF Load, NoCardTwice
<1> QED
  BY <1>1, <1>2, <1>3, <1>4, <1>5

\* A batch starts with the hand as it is.
LEMMA IInvBegin ==
  ASSUME IInv, NEW g \in Hands, g.phase = game.phase, g.cards = game.cards, Begin(g),
         armed' \in BOOLEAN
  PROVE  IInv'
<1> USE DEF IInv
<1>1. HandTypes'
  BY DEF Begin, HandTypes, Batches
<1>2. NoCardsLeft'
  BY DEF Begin, NoCardsLeft
<1>3. DeckOfHand'
  BY DEF Begin, DeckOfHand, NoCardsLeft, NoWork
<1>4. DeckOfWork'
  BY DEF Begin, DeckOfWork, DeckOfHand, NoCardsLeft, NoWork, Backed
<1>5. NoCardTwice'
  BY GameKept DEF Begin
<1> QED
  BY <1>1, <1>2, <1>3, <1>4, <1>5

\* A batch fails: the hand goes on with a deck that has at most lost cards, unless the
\* batch had shuffled it.
LEMMA IInvGiveUp ==
  ASSUME IInv, NEW shuffled \in BOOLEAN, GiveUp(shuffled), shuffles' \in Nat,
         deck' \in Decks, pc = "advance", work.shuffled => shuffled,
         ~shuffled => deck'.shuffle = deck.shuffle /\ deck'.pos >= deck.pos
  PROVE  IInv'
<1> USE DEF IInv
<1>1. HandTypes'
  BY HandAssumption DEF GiveUp, HandTypes, Arms, NoWork, NoHand, Hands, Batches, Streets
<1>2. NoCardsLeft'
  BY DEF GiveUp, NoCardsLeft, NoWork, NoHand
<1>3. DeckOfHand'
  <2> SUFFICES ASSUME ~unclean' PROVE Backed(game, deck')
    BY DEF GiveUp, DeckOfHand
  <2>1. CASE shuffled
    BY <2>1 DEF GiveUp, Backed
  <2>2. CASE ~shuffled
    <3>1. Backed(game, deck)
      BY <2>2 DEF GiveUp, DeckOfHand, HandTypes
    <3> QED
      BY <2>2, <3>1, DrawnStaysDrawn DEF HandTypes
  <2> QED
    BY <2>1, <2>2
<1>4. DeckOfWork'
  BY DEF GiveUp, DeckOfWork
<1>5. NoCardTwice'
  BY DEF GiveUp, NoCardTwice
<1> QED
  BY <1>1, <1>2, <1>3, <1>4, <1>5

\* The batch goes on without a change of the deck; its hand keeps its cards or ends.
LEMMA IInvWork ==
  ASSUME IInv, pc = "advance", work' \in Batches, work'.shuffled = work.shuffled,
         work'.game.phase # "none" =>
           work.game.phase # "none" /\ work'.game.cards = work.game.cards,
         work'.game.phase = "none" => work'.game.cards = <<>>,
         UNCHANGED <<game, expired, pc, deck, armed, shuffles, unclean>>
  PROVE  IInv'
<1> USE DEF IInv
<1>1. HandTypes'
  BY DEF HandTypes
<1>2. NoCardsLeft'
  BY DEF NoCardsLeft
<1>3. DeckOfHand'
  BY DEF DeckOfHand
<1>4. DeckOfWork'
  BY DEF DeckOfWork, Backed
<1>5. NoCardTwice'
  BY GameKept
<1> QED
  BY <1>1, <1>2, <1>3, <1>4, <1>5

\* A street is dealt from the deck, or the deck runs out.
LEMMA IInvStreet ==
  ASSUME IInv, NEW from \in Streets, NEW to \in Streets, NEW n \in Nat \ {0},
         Street(from, to, n)
  PROVE  IInv'
<1> USE DEF IInv
<1>1. deck \in Decks /\ deck.pos \in Nat /\ deck.pos <= Size /\ Size \in Nat
  BY HandAssumption DEF HandTypes, Decks
<1>2. pc = "advance" /\ work.game.phase = from /\ from # "none"
  BY DEF Street, Settled, Advancing, Streets
<1>3. CASE ~Enough(n) /\ deck' = Draw(Size - deck.pos) /\ GiveUp(work.shuffled)
  <2>1. deck' \in Decks /\ deck'.shuffle = deck.shuffle /\ deck'.pos >= deck.pos
    BY <1>1, <1>3 DEF Draw, Decks
  <2>2. work.shuffled \in BOOLEAN /\ shuffles' \in Nat
    BY DEF Street, HandTypes, Batches
  <2> QED
    BY <1>2, <1>3, <2>1, <2>2, IInvGiveUp
<1>4. CASE /\ Enough(n)
           /\ deck' = Draw(n)
           /\ work' = [work EXCEPT !.game.phase = to,
                                   !.game.cards = @ \o Deal(deck, 1, n - 1)]
           /\ UNCHANGED <<game, expired, pc, armed, hands, drops, unclean, lost>>
  <2> DEFINE dealt == Deal(deck, 1, n - 1)
  <2> DEFINE g == [work.game EXCEPT !.phase = to, !.cards = @ \o dealt]
  <2>1. deck' \in Decks /\ deck'.shuffle = deck.shuffle /\ deck'.pos = deck.pos + n
    BY <1>1, <1>4 DEF Draw, Decks, Enough
  <2>2. n - 1 \in Nat /\ deck'.pos = deck.pos + 1 + (n - 1)
    BY <1>1, <2>1
  <2>3. dealt \in Seq(Cards)
    BY <1>1, <2>2, DealType
  <2> HIDE DEF dealt
  <2>4. work.game \in Hands /\ work.game.cards \in Seq(Cards)
    BY DEF HandTypes, Batches, Hands
  <2>5. work.game.cards \o dealt \in Seq(Cards)
    BY <2>3, <2>4, ConcatProperties
  <2>6. g \in Hands /\ g.phase = to /\ g.cards = work.game.cards \o dealt
    BY <2>4, <2>5 DEF Hands
  <2>7. work' = [work EXCEPT !.game = g]
    BY <1>4 DEF dealt, HandTypes, Batches, Hands
  <2>8. /\ work' \in Batches
        /\ work'.game = g /\ work'.shuffled = work.shuffled
    <3> HIDE DEF g
    <3> QED
      BY <2>6, <2>7 DEF HandTypes, Batches
  <2> HIDE DEF g
  <2>9. ASSUME Backed(work.game, deck) PROVE Backed(g, deck')
    <3>1. deck.shuffle # 0 /\ DealtFrom(work.game.cards, deck)
      BY <1>2, <2>9 DEF Backed
    <3>2. DealtFrom(work.game.cards \o dealt, deck')
      BY <1>1, <2>1, <2>2, <2>4, <3>1, DealContinues DEF dealt
    <3> QED
      BY <2>1, <2>6, <3>1, <3>2 DEF Backed
  <2>10. HandTypes'
    BY <1>4, <2>1, <2>8 DEF HandTypes, Street
  <2>11. NoCardsLeft'
    BY <1>2, <1>4, <2>6, <2>8 DEF NoCardsLeft, Streets
  <2>12. DeckOfHand'
    <3> SUFFICES ASSUME ~unclean, ~work.shuffled PROVE Backed(game, deck')
      BY <1>4, <2>8 DEF DeckOfHand
    <3>1. Backed(game, deck)
      BY <1>2 DEF DeckOfHand
    <3> QED
      BY <1>1, <2>1, <2>2, <3>1, DrawnStaysDrawn DEF HandTypes
  <2>13. DeckOfWork'
    BY <1>2, <1>4, <2>8, <2>9 DEF DeckOfWork
  <2>14. NoCardTwice'
    BY <1>4, GameKept
  <2> QED
    BY <2>10, <2>11, <2>12, <2>13, <2>14
<1> QED
  BY <1>3, <1>4 DEF Street

\* A timeout, the end of the hand, the next turn or a hand nobody can win.
LEMMA IInvBatchGoesOn ==
  ASSUME IInv, TimeOut \/ EndHand \/ StartNextAction \/ Stall
  PROVE  IInv'
<1>1. work \in Batches /\ work.game \in Hands
  BY DEF IInv, HandTypes, Batches
<1>2. CASE TimeOut
  <2>1. /\ work' \in Batches /\ work'.shuffled = work.shuffled
        /\ work'.game.phase = work.game.phase /\ work'.game.cards = work.game.cards
    BY <1>1, <1>2 DEF TimeOut, Batches, Hands
  <2> QED
    BY <1>2, <2>1, IInvWork DEF TimeOut, Advancing, IInv, NoCardsLeft
<1>3. CASE EndHand
  <2>1. /\ work' \in Batches /\ work'.shuffled = work.shuffled
        /\ work'.game.phase = "none" /\ work'.game.cards = <<>>
    <3> DEFINE g == [work.game EXCEPT !.phase = "none", !.cards = <<>>, !.acting = FALSE]
    <3>1. work' = [work EXCEPT !.game = g]
      BY <1>1, <1>3 DEF EndHand, Batches, Hands
    <3>2. g \in Hands /\ g.phase = "none" /\ g.cards = <<>>
      BY <1>1, EmptySeq DEF Hands
    <3> HIDE DEF g
    <3> QED
      BY <1>1, <3>1, <3>2 DEF Batches
  <2> QED
    BY <1>3, <2>1, IInvWork DEF EndHand, Advancing
<1>4. CASE StartNextAction
  <2>1. /\ work' \in Batches /\ work'.shuffled = work.shuffled
        /\ work'.game.phase = work.game.phase /\ work'.game.cards = work.game.cards
    <3> DEFINE g == [work.game EXCEPT !.acting = TRUE, !.turn = 1 - @]
    <3> DEFINE w == [work EXCEPT !.game.acting = TRUE, !.game.turn = 1 - @]
    <3>1. w = [work EXCEPT !.game = g]
      BY <1>1 DEF Batches, Hands
    <3>2. work' = [w EXCEPT !.late = FALSE]
      BY <1>4 DEF StartNextAction
    <3>3. g \in Hands /\ g.phase = work.game.phase /\ g.cards = work.game.cards
      <4> DEFINE t == 1 - work.game.turn
      <4>1. t \in {0, 1}
        BY <1>1 DEF Hands
      <4>2. g = [work.game EXCEPT !.acting = TRUE, !.turn = t]
        OBVIOUS
      <4> HIDE DEF t, g
      <4> QED
        BY <1>1, <4>1, <4>2 DEF Hands
    <3> HIDE DEF g, w
    <3> QED
      BY <1>1, <3>1, <3>2, <3>3 DEF Batches
  <2> QED
    BY <1>4, <2>1, IInvWork DEF StartNextAction, Settled, Advancing, IInv, NoCardsLeft
<1>5. CASE Stall
  <2>1. /\ work' \in Batches /\ work'.shuffled = work.shuffled
        /\ work'.game.phase = "stalled" /\ work'.game.cards = work.game.cards
        /\ work.game.phase # "none"
    BY <1>1, <1>5 DEF Stall, Batches, Hands, Streets
  <2> QED
    BY <1>5, <2>1, IInvWork DEF Stall, Settled, Advancing
<1> QED
  BY <1>2, <1>3, <1>4, <1>5

\* The next hand is dealt from a deck that has just been shuffled.
LEMMA IInvStartNewHand ==
  ASSUME IInv, StartNewHand
  PROVE  IInv'
<1> USE DEF IInv
<1>1. /\ Shuffled \in Decks /\ Shuffled.shuffle # 0 /\ Shuffled.pos = 0
      /\ shuffles' \in Nat /\ pc = "advance"
  BY HandAssumption DEF StartNewHand, Settled, Advancing, Shuffled, Decks, HandTypes
<1>2. CASE deck' = Shuffled /\ GiveUp(TRUE)
  BY <1>1, <1>2, IInvGiveUp
<1>3. CASE /\ work' = [work EXCEPT !.game.phase = "preflop", !.shuffled = TRUE,
                                   !.game.cards = Deal(Shuffled, 0, 2 * HandPlayers)]
           /\ deck' = [Shuffled EXCEPT !.pos = @ + 2 * HandPlayers]
           /\ UNCHANGED <<game, expired, pc, armed, faults, drops, unclean, lost>>
  <2> DEFINE dealt == Deal(Shuffled, 0, 2 * HandPlayers)
  <2>1. 2 * HandPlayers \in Nat /\ 2 * HandPlayers <= Size /\ Size \in Nat
    BY HandAssumption
  <2>2. deck' \in Decks /\ deck'.shuffle = Shuffled.shuffle /\ deck'.pos = 2 * HandPlayers
    BY <1>1, <1>3, <2>1 DEF Decks
  <2>3. dealt \in Seq(Cards)
    BY <1>1, <2>1, DealType
  <2>4. DealtFrom(dealt, deck')
    BY <1>1, <2>1, <2>2, DealStarts
  <2> HIDE DEF dealt
  <2>5. /\ work' \in Batches /\ work'.shuffled
        /\ work'.game.phase = "preflop" /\ work'.game.cards = dealt
    <3>1. work \in Batches /\ work.game \in Hands
      BY DEF HandTypes, Batches
    <3>2. work' = [work EXCEPT !.game.phase = "preflop", !.shuffled = TRUE,
                               !.game.cards = dealt]
      BY <1>3 DEF dealt
    <3> QED
      BY <2>3, <3>1, <3>2 DEF Batches, Hands, Streets
  <2>6. HandTypes'
    BY <1>1, <1>3, <2>2, <2>5 DEF HandTypes
  <2>7. NoCardsLeft'
    BY <1>1, <1>3, <2>5 DEF NoCardsLeft
  <2>8. DeckOfHand'
    BY <2>5 DEF DeckOfHand
  <2>9. DeckOfWork'
    BY <1>1, <2>2, <2>4, <2>5 DEF DeckOfWork, Backed
  <2>10. NoCardTwice'
    BY <1>3, GameKept
  <2> QED
    BY <2>6, <2>7, <2>8, <2>9, <2>10
<1> QED
  BY <1>2, <1>3 DEF StartNewHand

\* The batch becomes the state of the game, or is dropped.
LEMMA IInvAppendBatch ==
  ASSUME IInv, AppendBatch
  PROVE  IInv'
<1> USE DEF IInv
<1>1. pc = "advance" /\ work.shuffled \in BOOLEAN /\ work.game \in Hands
  BY DEF AppendBatch, Advancing, HandTypes, Batches
<1>2. CASE GiveUp(work.shuffled)
  <2>1. deck' \in Decks /\ deck' = deck /\ shuffles' \in Nat /\ deck.pos \in Int
    BY HandAssumption DEF AppendBatch, HandTypes, Decks
  <2> QED
    BY <1>1, <1>2, <2>1, IInvGiveUp
<1>3. CASE ~GiveUp(work.shuffled)
  <2>1. /\ game' = work.game /\ pc' = "select" /\ work' = NoWork /\ deck' = deck
        /\ unclean' = (unclean /\ ~work.shuffled) /\ shuffles' = shuffles
    BY <1>3 DEF AppendBatch
  <2>2. expired' \in BOOLEAN /\ armed' \in BOOLEAN /\ unclean' \in BOOLEAN
    BY <1>3, Zenon DEF AppendBatch, Arms
  <2>3. NoWork \in Batches /\ NoWork.game.phase = "none" /\ NoWork.game.cards = <<>>
    BY DEF NoWork, NoHand, Batches, Hands, Streets
  <2>4. HandTypes'
    BY <1>1, <2>1, <2>2, <2>3 DEF HandTypes
  <2>5. NoCardsLeft'
    BY <2>1, <2>3 DEF NoCardsLeft
  <2>6. ~unclean' => Backed(work.game, deck)
    BY <1>1, <2>1 DEF DeckOfWork
  <2>7. DeckOfHand' /\ DeckOfWork'
    BY <2>1, <2>6 DEF DeckOfHand, DeckOfWork
  <2>8. NoCardTwice'
    BY <1>1, <2>1, <2>6, BackedIsDistinct DEF NoCardTwice, NoCardsLeft
  <2> QED
    BY <2>4, <2>5, <2>7, <2>8
<1> QED
  BY <1>2, <1>3

\* The session ends, by itself or for a join or leave: the hand keeps its cards, and
\* nobody deals until a session is loaded.
LEMMA IInvDrop ==
  ASSUME IInv, Drop
  PROVE  IInv'
<1> USE DEF IInv
<1>1. /\ game' \in Hands /\ game'.phase = game.phase /\ game'.cards = game.cards
      /\ expired' \in BOOLEAN
  BY DEF Drop, HandTypes, Hands
<1>2. NoWork \in Batches /\ NoWork.game.phase = "none" /\ NoWork.game.cards = <<>>
  BY DEF NoWork, NoHand, Batches, Hands, Streets
<1>3. HandTypes'
  <2>1. NewDeck \in Decks
    BY HandAssumption DEF NewDeck, Decks
  <2> QED
    BY <1>1, <1>2, <2>1 DEF Drop, HandTypes
<1>4. NoCardsLeft'
  BY <1>1, <1>2 DEF Drop, NoCardsLeft
<1>5. DeckOfHand' /\ DeckOfWork'
  BY DEF Drop, DeckOfHand, DeckOfWork
<1>6. NoCardTwice'
  BY <1>1 DEF Drop, NoCardTwice
<1> QED
  BY <1>3, <1>4, <1>5, <1>6

\* Every step of the session, the clock and the process.
LEMMA IInvNext == IInv /\ [Next]_vars => IInv'
<1> SUFFICES ASSUME IInv, [Next]_vars PROVE IInv'
  OBVIOUS
<1>1. CASE Load
  BY <1>1, IInvLoad
<1>2. CASE Command
  <2>1. game \in Hands /\ armed \in BOOLEAN
    BY DEF IInv, HandTypes
  <2>2. /\ [game EXCEPT !.acting = FALSE] \in Hands
        /\ [game EXCEPT !.acting = FALSE].phase = game.phase
        /\ [game EXCEPT !.acting = FALSE].cards = game.cards
    BY <2>1 DEF Hands
  <2> QED
    BY <1>2, <2>1, <2>2, IInvBegin DEF Command
<1>3. CASE Fire
  <2>1. game \in Hands
    BY DEF IInv, HandTypes
  <2> QED
    BY <1>3, <2>1, IInvBegin DEF Fire
<1>4. CASE Expire
  BY <1>4, GameKept DEF Expire, IInv, HandTypes, NoCardsLeft, DeckOfHand, DeckOfWork
<1>5. CASE Drop
  BY <1>5, IInvDrop
<1>6. CASE TimeOut \/ EndHand \/ StartNextAction \/ Stall
  BY <1>6, IInvBatchGoesOn
<1>7. CASE AdvanceStreet
  BY <1>7, IInvStreet DEF AdvanceStreet, Streets
<1>8. CASE StartNewHand
  BY <1>8, IInvStartNewHand
<1>9. CASE AppendBatch
  BY <1>9, IInvAppendBatch
<1>10. CASE UNCHANGED vars
  BY <1>10, GameKept DEF vars, IInv, HandTypes, NoCardsLeft, DeckOfHand, DeckOfWork
<1> QED
  BY <1>1, <1>2, <1>3, <1>4, <1>5, <1>6, <1>7, <1>8, <1>9, <1>10 DEF Next, RunAdvance

-----------------------------------------------------------------------------
(***************************************************************************)
(* The theorems.                                                           *)
(***************************************************************************)

\* The dealer is changed before a batch is appended and never set back, and still no
\* card comes twice in a hand: a batch that fails has only drawn cards, as long as it
\* has not shuffled and the session has not been replaced.
THEOREM HandNoCardTwice == Spec => []NoCardTwice
<1>1. IInv => NoCardTwice
  BY DEF IInv
<1> QED
  BY <1>1, IInvInit, IInvNext, PTL DEF Spec

\* resetDeadline runs after every batch, also one that failed, and on every load, so a
\* session never waits for a player without a timer for the player's deadline.
THEOREM HandDeadlineArmed == Spec => []DeadlineArmed
<1>1. Init => DeadlineArmed
  BY DEF Init, DeadlineArmed
<1>2. IInv /\ DeadlineArmed /\ [Next]_vars => DeadlineArmed'
  <2> SUFFICES ASSUME IInv, DeadlineArmed, [Next]_vars PROVE DeadlineArmed'
    OBVIOUS
  <2>1. CASE Load
    BY <2>1, Zenon DEF Load, Arms, DeadlineArmed
  <2>2. CASE Command \/ Fire \/ Expire \/ Drop
    BY <2>2 DEF Command, Fire, Expire, Drop, Begin, DeadlineArmed
  <2>3. CASE TimeOut \/ EndHand \/ StartNextAction \/ Stall
    <3>1. pc' = "advance"
      BY <2>3 DEF TimeOut, EndHand, StartNextAction, Stall, Settled, Advancing
    <3> QED
      BY <3>1 DEF DeadlineArmed
  <2>4. ASSUME NEW b, GiveUp(b) PROVE DeadlineArmed'
    <3>1. game' = game /\ expired' = expired /\ armed' = (game.acting /\ ~expired)
      BY <2>4 DEF GiveUp, Arms
    <3> QED
      BY <3>1, Zenon DEF DeadlineArmed
  <2>5. CASE AdvanceStreet \/ StartNewHand
    <3>1. pc' = "advance" \/ \E b : GiveUp(b)
      BY <2>5 DEF AdvanceStreet, Street, StartNewHand, Settled, Advancing
    <3> QED
      BY <2>4, <3>1 DEF DeadlineArmed
  <2>6. CASE AppendBatch
    <3>1. CASE GiveUp(work.shuffled)
      BY <2>4, <3>1
    <3>2. CASE ~GiveUp(work.shuffled)
      <4>1. armed' = (game'.acting /\ ~expired')
        BY <2>6, <3>2 DEF AppendBatch, Arms
      <4> QED
        BY <4>1, Zenon DEF DeadlineArmed
    <3> QED
      BY <3>1, <3>2
  <2>7. CASE UNCHANGED vars
    BY <2>7 DEF vars, DeadlineArmed
  <2> QED
    BY <2>1, <2>2, <2>3, <2>5, <2>6, <2>7 DEF Next, RunAdvance
<1> QED
  BY <1>1, <1>2, IInvInit, IInvNext, PTL DEF Spec

=============================================================================
