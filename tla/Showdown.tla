------------------------------ MODULE Showdown ------------------------------
(***************************************************************************)
(* Who has the best hand at the showdown: bestHand tries every five of a   *)
(* player's seven cards (engine/eval.go), potWinners compares the players  *)
(* (engine/advance.go) who may win a pot.  The properties compare the      *)
(* code's ranks, which are numbers, with the rules of the game, stated     *)
(* without numbers.                                                        *)
(*                                                                         *)
(* Abstractions.  Descriptions of hands are left out.  A handRank is 40    *)
(* bits shorter than in the code, where the lowest 40 bits are always 0.   *)
(* Any list may be the eligibleIDs of a pot: EndHand takes it from the     *)
(* side pots.                                                              *)
(***************************************************************************)
EXTENDS Integers, Sequences, FiniteSets, Functions

CONSTANTS
  Holders,   \* state.Players, who may hold two cards
  Players,   \* sequence: nonFolded, those in ActionOrder who have not folded
  Layouts    \* the boards, each a sequence of cards, with the cards players may hold

\* At the showdown the board has five cards.
ASSUME ShowdownAssumption ==
  /\ Players \in Seq(Holders) /\ Players # <<>>
  /\ \A l \in Layouts : /\ l.board \in Injection(1..5, 0..51)
                        /\ l.spare \subseteq (0..51) \ Range(l.board)

VARIABLES
  board, hole,   \* the cards of the hand; <<>> for a player without hole cards
  current,       \* the position of the player whose cards are evaluated
  idx,           \* bestHand: the five positions of the combination
  best,          \* bestHand: the best combination so far, or NoHand
  evals,         \* the bestHand of the players evaluated so far, of others NoHand
  eligible,      \* eligibleIDs of the pot that is awarded
  judged,        \* potWinners: the position of the player compared next, or 0
  winners        \* potWinners: the winners so far

cardVars == <<board, hole>>
evalVars == <<current, idx, best, evals>>
vars == <<cardVars, evalVars, eligible, judged, winners>>

\* first: no combination has been evaluated.
NoHand == [rank |-> -1, five |-> <<>>]

-----------------------------------------------------------------------------
(***************************************************************************)
(* eval5.                                                                  *)
(***************************************************************************)

cardRank(c) == c % 13
cardSuit(c) == c \div 13

\* The orders of five positions, listed once.
Orders == {o : o \in Bijection(1..5, 1..5)}

\* sort.Sort: an order of the five positions, the largest keys first.
SortOrder(keys) == CHOOSE o \in Orders : \A k \in 1..4 : keys[o[k]] >= keys[o[k + 1]]
Arranged(ranks, o) == <<ranks[o[1]], ranks[o[2]], ranks[o[3]], ranks[o[4]], ranks[o[5]]>>

\* sort.Reverse(sort.IntSlice): the ranks, the highest first.
Descending(ranks) == Arranged(ranks, SortOrder(ranks))

\* freq[r]
Freq(ranks, r) == Cardinality({k \in 1..5 : ranks[k] = r})

\* The ranks, those that occur most often first.
Tiebreakers(ranks) ==
  LET key(k) == 16 * Freq(ranks, ranks[k]) + ranks[k]
  IN Arranged(ranks, SortOrder(<<key(1), key(2), key(3), key(4), key(5)>>))

\* Mutant: the ace is high only.
detectStraightNoWheel(r) ==
  IF r[1] - r[5] = 4 /\ \A k \in 1..4 : r[k] # r[k + 1] THEN r[1] ELSE -1

\* The highest rank of the straight, or -1; in A-2-3-4-5 it is the five.
detectStraight(r) ==
  IF r[1] - r[5] = 4 /\ \A k \in 1..4 : r[k] # r[k + 1] THEN r[1]
  ELSE IF r = <<12, 3, 2, 1, 0>> THEN 3
  ELSE -1

newHandRank(cat, tb) ==
  ((((cat * 16 + tb[1]) * 16 + tb[2]) * 16 + tb[3]) * 16 + tb[4]) * 16 + tb[5]

eval5(five) ==
  LET ranks == Descending([k \in 1..5 |-> cardRank(five[k])])
      tb == Tiebreakers(ranks)
      hi == detectStraight(ranks)
      isFlush == \A k \in 1..4 : cardSuit(five[k]) = cardSuit(five[k + 1])
      top == Freq(ranks, tb[1])
      second == IF top < 5 THEN Freq(ranks, tb[top + 1]) ELSE 0
  IN IF isFlush /\ hi >= 0 THEN newHandRank(8, <<hi, 0, 0, 0, 0>>)
     ELSE IF top = 4 THEN newHandRank(7, tb)
     ELSE IF top = 3 /\ second = 2 THEN newHandRank(6, tb)
     ELSE IF isFlush THEN newHandRank(5, ranks)
     ELSE IF hi >= 0 THEN newHandRank(4, <<hi, 0, 0, 0, 0>>)
     ELSE IF top = 3 THEN newHandRank(3, tb)
     ELSE IF top = 2 /\ second = 2 THEN newHandRank(2, tb)
     ELSE IF top = 2 THEN newHandRank(1, tb)
     ELSE newHandRank(0, tb)

-----------------------------------------------------------------------------
(***************************************************************************)
(* bestHand and potWinners.                                                *)
(***************************************************************************)

Pool(p) == hole[p] \o board

\* The positions of the combination that can still move to the right.
MovablePositions(n) == {i \in 1..5 : idx[i] < i + n - 5}

\* The last of them moves, and the ones after it follow.
NextCombination(n) ==
  LET i == CHOOSE i \in MovablePositions(n) : \A j \in MovablePositions(n) : j <= i
  IN [j \in 1..5 |-> IF j < i THEN idx[j] ELSE idx[i] + 1 + (j - i)]

\* One turn of the loop: evaluate the combination, then the next one or the next player.
BestHand ==
  LET p == Players[current]
      pool == Pool(p)
      five == [k \in 1..5 |-> pool[idx[k]]]
      rank == eval5(five)
      better == IF best = NoHand \/ rank > best.rank
                THEN [rank |-> rank, five |-> five] ELSE best
  IN /\ current <= Len(Players) /\ hole[p] # <<>>
     /\ \/ /\ MovablePositions(Len(pool)) # {}
           /\ idx' = NextCombination(Len(pool))
           /\ best' = better
           /\ UNCHANGED <<current, evals>>
        \/ /\ MovablePositions(Len(pool)) = {}
           /\ evals' = [evals EXCEPT ![p] = better]
           /\ current' = current + 1
           /\ idx' = <<1, 2, 3, 4, 5>>
           /\ best' = NoHand
     /\ UNCHANGED <<cardVars, eligible, judged, winners>>

\* A player who has sat down during the hand has no cards to evaluate.
SkipPlayer ==
  /\ current <= Len(Players) /\ hole[Players[current]] = <<>>
  /\ current' = current + 1
  /\ UNCHANGED <<cardVars, idx, best, evals, eligible, judged, winners>>

\* potWinners is called for the next pot, when the evaluation is done.
AwardPot(eligibleIDs) ==
  /\ current > Len(Players) /\ judged = 0
  /\ eligible' = eligibleIDs
  /\ judged' = 1
  /\ winners' = <<>>
  /\ UNCHANGED <<cardVars, evalVars>>

\* Mutant: a tie is won by the first player alone.
JoinsFirstOnly(ws, p) == ws

\* A player whose hand is as good as the best so far shares the pot.
Joins(ws, p) == Append(ws, p)

\* One turn of the loop over eligibleIDs: who has not been evaluated is passed over.
\* best is the rank of the winners so far.
PotWinners ==
  LET p == eligible[judged]
  IN /\ judged \in 1..Len(eligible)
     /\ judged' = judged + 1
     /\ \/ evals[p] = NoHand /\ UNCHANGED winners
        \/ /\ evals[p] # NoHand
           /\ winners # <<>> => evals[p].rank > evals[winners[1]].rank
           /\ winners' = <<p>>
        \/ /\ evals[p] # NoHand /\ winners # <<>>
           /\ evals[p].rank = evals[winners[1]].rank
           /\ winners' = Joins(winners, p)
        \/ /\ evals[p] # NoHand /\ winners # <<>>
           /\ evals[p].rank < evals[winners[1]].rank
           /\ UNCHANGED winners
     /\ UNCHANGED <<cardVars, evalVars, eligible>>

\* The positions in ActionOrder of the players on the list.
ListedPlayers == {k \in 1..Len(Players) : Players[k] \in Range(eligible)}

\* If nobody on the list has been evaluated, the first of them in ActionOrder wins, and
\* nobody if none of them is in it.
firstEligibleInOrder ==
  /\ judged = Len(eligible) + 1
  /\ judged' = 0
  /\ \/ (winners # <<>> \/ ListedPlayers = {}) /\ UNCHANGED winners
     \/ /\ winners = <<>>
        /\ \E k \in ListedPlayers :
             (\A j \in ListedPlayers : k <= j) /\ winners' = <<Players[k]>>
  /\ UNCHANGED <<cardVars, evalVars, eligible>>

Init ==
  \E l \in Layouts :
    /\ board = l.board
    /\ hole \in [Holders -> {<<>>} \cup {<<c, d>> : c, d \in l.spare}]
    /\ \A p \in Holders : hole[p] # <<>> => hole[p][1] < hole[p][2]
    /\ \A p, q \in Holders : p # q => Range(hole[p]) \cap Range(hole[q]) = {}
    /\ current = 1
    /\ idx = <<1, 2, 3, 4, 5>>
    /\ best = NoHand
    /\ evals = [p \in Holders |-> NoHand]
    /\ eligible = <<>>
    /\ judged = 0
    /\ winners = <<>>

Next ==
  \/ BestHand
  \/ SkipPlayer
  \/ \E eligibleIDs \in Seq(Holders) : AwardPot(eligibleIDs)
  \/ PotWinners
  \/ firstEligibleInOrder

Spec == Init /\ [][Next]_vars

-----------------------------------------------------------------------------
(***************************************************************************)
(* The rules of the game.                                                  *)
(***************************************************************************)

\* The ranks of exactly n of the cards.
Ranked(five, n) ==
  {r \in {cardRank(c) : c \in five} : Cardinality({c \in five : cardRank(c) = r}) = n}

\* The runs of five ranks; the ace may also stand below the two.
Run(top) == IF top = 3 THEN {12, 0, 1, 2, 3} ELSE (top - 4)..top
Tops(five) == {top \in 3..12 : {cardRank(c) : c \in five} = Run(top)}

Suited(five) == \A c, d \in five : cardSuit(c) = cardSuit(d)

\* The kinds of hands from the best to the worst: the first that applies counts.
OfKind(five, k) ==
  \/ k = 1 /\ Suited(five) /\ Tops(five) # {}
  \/ k = 2 /\ Ranked(five, 4) # {}
  \/ k = 3 /\ Ranked(five, 3) # {} /\ Ranked(five, 2) # {}
  \/ k = 4 /\ Suited(five)
  \/ k = 5 /\ Tops(five) # {}
  \/ k = 6 /\ Ranked(five, 3) # {}
  \/ k = 7 /\ Cardinality(Ranked(five, 2)) = 2
  \/ k = 8 /\ Ranked(five, 2) # {}
  \/ k = 9

Kind(five) == CHOOSE k \in 1..9 : OfKind(five, k) /\ \A j \in 1..(k - 1) : ~OfKind(five, j)

\* Of two sets of ranks the one with the highest rank that is not in both wins.
Outranks(s, t) == \E r \in s \ t : \A q \in t \ s : q < r

\* Hands of one kind: straights by their top, others by the ranks that occur most
\* often and, if these are the same, by the ones that occur less often.
Above(five, other) ==
  IF Tops(five) # {}
  THEN \E s \in Tops(five), t \in Tops(other) : s > t
  ELSE \E n \in 1..4 : /\ Outranks(Ranked(five, n), Ranked(other, n))
                       /\ \A m \in (n + 1)..4 : Ranked(five, m) = Ranked(other, m)

Beats(five, other) ==
  \/ Kind(five) < Kind(other)
  \/ Kind(five) = Kind(other) /\ Above(five, other)

-----------------------------------------------------------------------------
(***************************************************************************)
(* Properties.                                                             *)
(***************************************************************************)

\* The five cards bestHand has returned for p.
HandOf(p) == Range(evals[p].five)

\* Any five of p's seven cards: all but two of them.
Fives(p) ==
  LET cards == Range(Pool(p))
  IN {cards \ {c[1], c[2]} : c \in {d \in cards \X cards : d[1] < d[2]}}

\* bestHand finds a best hand: when the hands are compared, no five of a player's seven
\* cards beat the five it has returned, by the rules of the game.
BestHandIsBest ==
  judged = 1 =>
    \A p \in Range(Players) :
      hole[p] # <<>> =>
        HandOf(p) \in Fives(p) /\ \A five \in Fives(p) : ~Beats(five, HandOf(p))

\* The players on the list whose hands are evaluated: those with hole cards who are in
\* ActionOrder and have not folded.
Shown == {p \in Range(eligible) \cap Range(Players) : hole[p] # <<>>}

\* Of the players on a pot's list whose hands are evaluated, the pot goes to exactly those
\* whose hand none of the others beats, and equal hands share it: the integer ranks order
\* hands of all kinds as the rules do.  A player on the list who is not in ActionOrder,
\* all-in since an earlier street, is not among them, however good the hand (see
\* PotGoesToBestHand).  If there are none of them, the pot goes to the first on the list
\* in ActionOrder.
WinnersHoldBestHand ==
  judged = 0 =>
    Range(winners) =
      IF Shown # {}
      THEN {p \in Shown : \A q \in Shown : ~Beats(HandOf(q), HandOf(p))}
      ELSE {Players[k] : k \in {m \in ListedPlayers : \A j \in ListedPlayers : m <= j}}

-----------------------------------------------------------------------------
(***************************************************************************)
(* What the comments say and the code does not do.                         *)
(***************************************************************************)

\* advance.go:369: "Award each pot to the player(s) with the best hand among eligible
\* players."  This fails: ActionOrder is rebuilt on each street from the players with a
\* positive stack (apply.go:615), so who is all-in since an earlier street may win the pot
\* by its list, but is not evaluated.
PotGoesToBestHand ==
  judged = 0 =>
    \A p \in Range(eligible) :
      p \in Range(winners)
        <=> /\ hole[p] # <<>>
            /\ \E five \in Fives(p) :
                 \A q \in Range(eligible) :
                   hole[q] # <<>> => \A other \in Fives(q) : ~Beats(other, five)

=============================================================================
