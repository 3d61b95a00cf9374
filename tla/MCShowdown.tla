----------------------------- MODULE MCShowdown -----------------------------
(***************************************************************************)
(* Model-checking instance of EndHand: boards on which hands of every kind *)
(* meet, six cards for each that three players may hold, and a fourth      *)
(* player who has folded or is all-in and no longer in the action order.   *)
(* Hands and pots are computed from different fields, so the deals are     *)
(* tried with one set of commitments and all commitments with a few deals, *)
(* some of them with players who sat down during the hand.                 *)
(***************************************************************************)
EXTENDS EndHand, TLC

CONSTANTS p1, p2, p3, p4

ThreePlayers == <<p1, p2, p3>>

\* Ranks 0 to 12 for two to ace, suits 0 to 3.
Card(rank, suit) == suit * 13 + rank

\* Straight flushes, straights and flushes from the ace-low one upwards.
Wheel ==
  [board |-> <<Card(12, 0), Card(0, 0), Card(1, 0), Card(2, 1), Card(7, 1)>>,
   spare |-> {Card(3, 0), Card(2, 0), Card(3, 1), Card(4, 1), Card(12, 1), Card(7, 0)}]

\* Four of a kind, full houses and two pairs with kickers.
Paired ==
  [board |-> <<Card(5, 0), Card(5, 1), Card(11, 0), Card(11, 1), Card(0, 3)>>,
   spare |-> {Card(5, 2), Card(5, 3), Card(11, 2), Card(0, 2), Card(12, 0), Card(1, 0)}]

\* Ace-high straights and flushes; Q-K-A-2-3 is no straight.
Broadway ==
  [board |-> <<Card(8, 3), Card(9, 3), Card(10, 3), Card(0, 1), Card(1, 1)>>,
   spare |-> {Card(11, 3), Card(12, 3), Card(7, 3), Card(11, 2), Card(12, 2), Card(0, 2)}]

\* High cards, pairs and kickers.
Rainbow ==
  [board |-> <<Card(0, 0), Card(3, 1), Card(6, 2), Card(9, 3), Card(11, 0)>>,
   spare |-> {Card(12, 1), Card(12, 2), Card(10, 0), Card(1, 1), Card(11, 2), Card(3, 2)}]

\* Three of a kind and straights without ace or two.
Middle ==
  [board |-> <<Card(4, 0), Card(4, 1), Card(8, 2), Card(1, 3), Card(7, 0)>>,
   spare |-> {Card(4, 2), Card(8, 1), Card(1, 2), Card(5, 3), Card(6, 0), Card(12, 0)}]

\* Flushes against each other and against the one on the board.
Flushes ==
  [board |-> <<Card(0, 2), Card(4, 2), Card(7, 2), Card(9, 2), Card(6, 2)>>,
   spare |-> {Card(1, 2), Card(11, 2), Card(12, 2), Card(7, 1), Card(7, 0), Card(5, 2)}]

Boards == {Wheel, Paired, Broadway, Rainbow, Middle, Flushes}

\* Two different cards of the set in order.
Pairs(cards) == {h \in cards \X cards : h[1] < h[2]}

\* Three levels, and the folded player's chips between two of them.
OneSetOfCommitments ==
  /\ \E l \in Boards :
       /\ board = l.board
       /\ hole \in {h @@ (p4 :> <<>>) : h \in [{p1, p2, p3} -> Pairs(l.spare)]}
  /\ committed = (p1 :> 1 @@ p2 :> 3 @@ p3 :> 3 @@ p4 :> 2)
  /\ folded = {p4}
  /\ actionOrder = <<p1, p4, p2, p3>>
  /\ entries = <<p1, p4, p2, p3>>

\* p4's three of a kind beats the eights, which beat the threes, but p4 may have no place
\* in ActionOrder; p3, or everybody else, has sat down during the hand.
Deals ==
  LET trips == <<Card(12, 0), Card(4, 2)>>
      eights == <<Card(8, 1), Card(5, 3)>>
      threes == <<Card(6, 0), Card(1, 2)>>
  IN {p1 :> threes @@ p2 :> eights @@ p3 :> <<>> @@ p4 :> trips,
      p1 :> <<>> @@ p2 :> <<>> @@ p3 :> <<>> @@ p4 :> trips}

\* Any commitments with a few deals.
FewDeals ==
  /\ board = Middle.board
  /\ hole \in Deals
  /\ folded \in SUBSET {p4}
  /\ actionOrder \in {<<p1, p2, p3>>, <<p1, p2, p4, p3>>}

MCInit == (OneSetOfCommitments \/ FewDeals) /\ EndHandInit

MCSpec == MCInit /\ [][EndHandNext]_endHandVars

=============================================================================
