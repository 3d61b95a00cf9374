----------------------------- MODULE Table_proofs -----------------------------
(***************************************************************************)
(* Proofs about Table, for every value of its constants.                   *)
(***************************************************************************)
EXTENDS Table, Counting_proofs, FiniteSetTheorems, TLAPS

-----------------------------------------------------------------------------
(***************************************************************************)
(* Seats and positions.                                                    *)
(***************************************************************************)

\* LowestSeat and First pick a player of the set they are given.
LEMMA LowestSeatPicks ==
  ASSUME TypeOK, NEW S \in SUBSET Players, S # {}
  PROVE  LowestSeat(S) \in S
<1>1. \A p \in S : seat[p] \in Nat
  BY ConfigAssumption DEF TypeOK
<1>2. \E p \in S : \A q \in S : seat[p] <= seat[q]
  BY <1>1, MinimumExists
<1> QED
  BY <1>2 DEF LowestSeat

\* The next player clockwise from a seat is one of the players considered.
LEMMA ClockwisePicks ==
  ASSUME TypeOK, NEW S \in SUBSET Players, S # {}, NEW s
  PROVE  Clockwise(S, s) \in S
<1> DEFINE above == {p \in S : seat[p] > s}
<1> DEFINE candidates == IF above # {} THEN above ELSE S
<1>1. candidates \in SUBSET Players /\ candidates \subseteq S /\ candidates # {}
  OBVIOUS
<1>2. LowestSeat(candidates) \in candidates
  <2> HIDE DEF candidates
  <2> QED
    BY <1>1, LowestSeatPicks
<1> QED
  BY <1>1, <1>2 DEF Clockwise

\* The head of the action order is one of the players it lists.
LEMMA FirstPicks ==
  ASSUME TypeOK, NEW S \in SUBSET Players, S # {}
  PROVE  /\ First(S) \in S
         /\ \A q \in S : order[First(S)] <= order[q]
<1>1. \A p \in S : order[p] \in Nat
  BY ConfigAssumption DEF TypeOK
<1>2. \E p \in S : \A q \in S : order[p] <= order[q]
  BY <1>1, MinimumExists
<1> QED
  BY <1>2 DEF First

\* rotateAfter lists exactly the players it is given.
LEMMA RotateAfterLists ==
  ASSUME TypeOK, NEW S \in SUBSET Players, NEW target
  PROVE  /\ RotateAfter(S, target) \in [Players -> 0..MaxSeats]
         /\ \A p \in Players : RotateAfter(S, target)[p] > 0 <=> p \in S
<1> DEFINE base == IF target \in S THEN seat[target] ELSE 0
<1>1. base \in Int
  BY DEF TypeOK
<1>2. ASSUME NEW p \in S
      PROVE  1 + ((seat[p] - base - 1) % MaxSeats) \in 1..MaxSeats
  <2>1. seat[p] - base - 1 \in Int
    BY <1>1 DEF TypeOK
  <2>2. (seat[p] - base - 1) % MaxSeats \in 0..(MaxSeats - 1)
    BY <2>1, ConfigAssumption
  <2> QED
    BY <2>2, ConfigAssumption
<1>3. RotateAfter(S, target) =
        [p \in Players |-> IF p \in S THEN 1 + ((seat[p] - base - 1) % MaxSeats) ELSE 0]
  BY DEF RotateAfter
<1> HIDE DEF base
<1> QED
  BY <1>2, <1>3, ConfigAssumption

-----------------------------------------------------------------------------
(***************************************************************************)
(* The rake.                                                               *)
(***************************************************************************)

\* computeRake takes at most what is in the pot, and never a negative amount.
LEMMA RakeBounds ==
  ASSUME TypeOK
  PROVE  /\ Rake \in Nat
         /\ pot >= 0 => Rake <= pot
<1>1. pot \in Int
  BY DEF TypeOK
<1>2. CASE pot <= 0
  BY <1>1, <1>2 DEF Rake
<1>3. CASE pot > 0
  <2> DEFINE rake == (pot * RakeBps) \div 10000
  <2>1. pot * RakeBps \in Nat /\ pot * RakeBps <= pot * 10000
    BY <1>1, <1>3, ConfigAssumption
  <2>2. rake \in Nat /\ rake <= pot
    BY <1>1, <1>3, <2>1
  <2>3. Rake = IF RakeCap > 0 /\ rake > RakeCap THEN RakeCap ELSE rake
    BY <1>1, <1>3 DEF Rake
  <2> HIDE DEF rake
  <2> QED
    BY <1>1, <2>2, <2>3, ConfigAssumption
<1> QED
  BY <1>1, <1>2, <1>3

-----------------------------------------------------------------------------
(***************************************************************************)
(* The showdown.                                                           *)
(***************************************************************************)

\* potWinners only names players of the action order who have not folded.
LEMMA WinnersAreLive ==
  ASSUME NEW E, NEW rank
  PROVE  PotWinners(E, rank) \subseteq Live
BY DEF PotWinners, Evaluated

\* The contents of a main or side pot are a natural number.
LEMMA PotAmountType ==
  ASSUME TypeOK, NEW E
  PROVE  PotAmount(E) \in Int
<1>1. CASE Contributors = {}
  BY <1>1 DEF PotAmount, TypeOK
<1>2. CASE Contributors # {}
  <2> DEFINE h == [p \in Contributors |->
                     {p} \X {level \in 1..committed[p] : Eligible(level) = E}]
  <2>1. IsFiniteSet(Contributors)
    <3>1. Contributors \subseteq Players
      BY DEF Contributors, TypeOK
    <3> QED
      BY <3>1, PlayersAssumption, FS_Subset
  <2>2. \A p \in Contributors :
          committed[p] \in Int /\ h[p] \subseteq {p} \X (1..committed[p])
    BY DEF Contributors, TypeOK
  <2>3. {h[p] : p \in Contributors} =
          {{p} \X {level \in 1..committed[p] : Eligible(level) = E} : p \in Contributors}
    OBVIOUS
  <2>4. Cardinality(UNION {h[p] : p \in Contributors}) \in Nat
    <3> HIDE DEF h
    <3> QED
      BY <2>1, <2>2, PairsFinite
  <2>5. PotAmount(E) = Cardinality(UNION {h[p] : p \in Contributors})
    BY <1>2, <2>3 DEF PotAmount
  <2> QED
    BY <2>4, <2>5
<1> QED
  BY <1>1, <1>2

\* What one winner gets out of a pot is a natural number.
LEMMA ShareType ==
  ASSUME TypeOK, NEW E, NEW p, NEW rank
  PROVE  Share(E, p, rank) \in Int
<1> DEFINE winners == PotWinners(E, rank)
<1> DEFINE amount == PotAmount(E) - (IF E = MainPot THEN Rake ELSE 0)
<1>1. amount \in Int
  BY PotAmountType, RakeBounds
<1>2. winners \subseteq Players
  BY WinnersAreLive DEF Live, TypeOK
<1>3. IsFiniteSet(winners)
  BY <1>2, PlayersAssumption, FS_Subset
<1> HIDE DEF winners, amount
<1>4. CASE amount <= 0 \/ p \notin winners
  BY <1>4 DEF Share, winners, amount
<1>5. CASE ~(amount <= 0 \/ p \notin winners)
  <2>1. Cardinality(winners) \in Nat /\ Cardinality(winners) # 0
    BY <1>3, <1>5, FS_CardinalityType, FS_EmptySet
  <2>2. amount \div Cardinality(winners) \in Int /\ amount % Cardinality(winners) \in Int
    BY <1>1, <2>1
  <2>3. Share(E, p, rank) =
          amount \div Cardinality(winners)
            + (IF p = First(winners) THEN amount % Cardinality(winners) ELSE 0)
    BY <1>5 DEF Share, winners, amount
  <2> QED
    BY <2>2, <2>3
<1> QED
  BY <1>4, <1>5

\* Only finitely many of the possible pot levels are pots.
LEMMA PotsFinite ==
  ASSUME TypeOK
  PROVE  IsFiniteSet(Pots)
<1>1. Pots \subseteq SUBSET Players
  BY DEF Pots, Live, Eligible, TypeOK
<1>2. IsFiniteSet(SUBSET Players)
  BY PlayersAssumption, FS_SUBSET
<1> QED
  BY <1>1, <1>2, FS_Subset

\* What a player gets out of all pots together is a natural number.
LEMMA PayoutType ==
  ASSUME TypeOK, NEW p, NEW rank
  PROVE  Payout(p, rank) \in Nat
<1> DEFINE f == [E \in Pots |-> Share(E, p, rank)]
<1>1. f \in [Pots -> Int]
  BY ShareType
<1> HIDE DEF f
<1>2. Total(f) \in Nat
  BY <1>1, PotsFinite, TotalType
<1> QED
  BY <1>2 DEF Payout, f

\* Whoever has folded gets nothing out of any pot.
LEMMA FoldedGetNothing ==
  ASSUME TypeOK, NEW p \in folded, NEW rank
  PROVE  Payout(p, rank) = 0
<1> DEFINE f == [E \in Pots |-> Share(E, p, rank)]
<1>1. ASSUME NEW E
      PROVE  Share(E, p, rank) = 0
  <2>1. p \notin PotWinners(E, rank)
    BY WinnersAreLive DEF Live
  <2> QED
    BY <2>1 DEF Share
<1>2. f \in [Pots -> Int] /\ \A E \in Pots : f[E] = 0
  BY <1>1
<1> HIDE DEF f
<1>3. Total(f) = 0
  BY <1>2, TotalZero
<1> QED
  BY <1>3 DEF Payout, f

-----------------------------------------------------------------------------
(***************************************************************************)
(* Type correctness.                                                       *)
(***************************************************************************)

\* startNewHand finds at least two players, and the dealer and the blinds among them.
LEMMA NewHandPlayers ==
  ASSUME TypeOK, EnoughPlayers
  PROVE  /\ Active \in SUBSET Players
         /\ \E p, q \in Active : p # q
         /\ NewDealer \in Active
         /\ \A p \in Active : Clockwise(Active, seat[p]) \in Active
<1>1. Active \in SUBSET Players
  BY DEF Active, TypeOK
<1>2. IsFiniteSet(Active)
  BY <1>1, PlayersAssumption, FS_Subset
<1>3. Cardinality(Active) \in Nat /\ Cardinality(Active) >= 2
  BY <1>2, ConfigAssumption, FS_CardinalityType DEF EnoughPlayers
<1>4. Active # {}
  BY <1>3, FS_EmptySet
<1>5. \E p, q \in Active : p # q
  <2> SUFFICES ASSUME \A p, q \in Active : p = q PROVE FALSE
    OBVIOUS
  <2>1. \E x : Active = {x}
    BY <1>4
  <2>2. Cardinality(Active) = 1
    BY <1>2, <2>1, FS_Singleton
  <2> QED
    BY <1>3, <2>2
<1>6. NewDealer \in Active
  BY <1>1, <1>4, LowestSeatPicks, ClockwisePicks DEF NewDealer
<1>7. \A p \in Active : Clockwise(Active, seat[p]) \in Active
  BY <1>1, <1>4, ClockwisePicks
<1> QED
  BY <1>1, <1>5, <1>6, <1>7

\* A freshly created table is well-formed.
LEMMA TypeOKInit == Init => TypeOK
<1>1. NoChips \in [Players -> 0..MaxSeats] /\ NoChips \in [Players -> Int]
  BY ConfigAssumption DEF NoChips
<1>2. [p \in Players |-> Balance] \in [Players -> Nat]
  BY BoundsAssumption
<1>3. 0 \in Nat /\ 0 \in Int /\ -1 \in -1..MaxSeats
  BY ConfigAssumption
<1>4. FALSE \in BOOLEAN /\ "none" \in Phases
  BY DEF Phases
<1> QED
  BY <1>1, <1>2, <1>3, <1>4, Zenon DEF Init, TypeOK

\* Chips put into the pot are taken from a stack, by whatever amount.
LEMMA PutInType ==
  ASSUME TypeOK, NEW p \in Players, NEW amount \in Int, PutIn(p, amount)
  PROVE  /\ stack' \in [Players -> Int] /\ bet' \in [Players -> Int]
         /\ committed' \in [Players -> Int] /\ pot' \in Int
<1>1. stack' \in [Players -> Int]
  BY DEF PutIn, TypeOK
<1>2. bet' \in [Players -> Int]
  BY DEF PutIn, TypeOK
<1>3. committed' \in [Players -> Int]
  BY DEF PutIn, TypeOK
<1>4. pot' \in Int
  BY DEF PutIn, TypeOK
<1> QED
  BY <1>1, <1>2, <1>3, <1>4

\* A bet or raise leaves the betting round well-formed.
LEMMA RaiseType ==
  ASSUME TypeOK, NEW p \in Players, NEW total \in Int, total > highBet,
         Reopen(p, total) \/ ShortRaise(p, total)
  PROVE  /\ highBet' \in Nat /\ lastRaise' \in Nat /\ raises' \in Nat
         /\ closedFor' \subseteq Players /\ pending' \subseteq Players
         /\ acting' = None /\ expired' = FALSE
<1>1. OthersInOrder(p) \subseteq Players
  BY DEF OthersInOrder, Live, TypeOK
<1> QED
  BY <1>1 DEF Reopen, ShortRaise, CountRaise, ClearTurn, TypeOK

\* The bets of a player who may act.
LEMMA TypeOKBetting ==
  ASSUME TypeOK, NEW p \in Players, Betting(p)
  PROVE  TypeOK'
<1> USE DEF chipVars, roundVars, turnVars, sessionVars, handVars, seatVars,
        bankVars, buttonVars, CanAct, PassTurn, ClearTurn, RunAdvance
<1>1. CallAmount(p) \in Int
  BY DEF CallAmount, TypeOK
<1>3. CASE Fold(p)
  BY <1>3 DEF Fold, TypeOK
<1>4. CASE Check(p)
  BY <1>4 DEF Check, TypeOK
<1>5. CASE Call(p)
  <2>1. PutIn(p, CallAmount(p))
    BY <1>5 DEF Call
  <2> QED
    BY <1>1, <1>5, <2>1, PutInType DEF Call, TypeOK
<1>6. ASSUME NEW amount \in 1..stack[p], Bet(p, amount)
      PROVE  TypeOK'
  <2>1. PutIn(p, amount - bet[p]) /\ amount - bet[p] \in Int
    BY <1>6 DEF Bet, TypeOK
  <2>2. Reopen(p, amount) /\ amount \in Int /\ amount > highBet
    BY <1>6 DEF Bet, TypeOK
  <2> QED
    BY <1>6, <2>1, <2>2, PutInType, RaiseType DEF Bet, TypeOK
<1>7. ASSUME NEW to \in (highBet + 1)..(bet[p] + stack[p]), Raise(p, to)
      PROVE  TypeOK'
  <2>1. PutIn(p, to - bet[p]) /\ to - bet[p] \in Int
    BY <1>7 DEF Raise, TypeOK
  <2>2. Reopen(p, to) /\ to \in Int /\ to > highBet
    BY <1>7 DEF Raise, TypeOK
  <2>3. allIn' \subseteq seated'
    BY <1>7 DEF Raise, TypeOK
  <2> QED
    BY <1>7, <2>1, <2>2, <2>3, PutInType, RaiseType DEF Raise, TypeOK
<1>8. CASE AllIn(p)
  <2> DEFINE total == bet[p] + stack[p]
  <2>1. PutIn(p, stack[p]) /\ stack[p] \in Int /\ total \in Int
    BY <1>8 DEF AllIn, TypeOK
  <2>2. allIn' \subseteq seated'
    BY <1>8 DEF AllIn, TypeOK
  <2>3. \/ PassTurn(p) /\ UNCHANGED roundVars
        \/ total > highBet /\ (Reopen(p, total) \/ ShortRaise(p, total))
    BY <1>8 DEF AllIn
  <2>4. /\ highBet' \in Nat /\ lastRaise' \in Nat /\ raises' \in Nat
        /\ closedFor' \subseteq Players /\ pending' \subseteq Players
        /\ acting' = None /\ expired' = FALSE
    <3> HIDE DEF total
    <3> QED
      BY <2>1, <2>3, RaiseType DEF TypeOK
  <2> QED
    BY <1>8, <2>1, <2>2, <2>4, PutInType DEF AllIn, TypeOK
<1> QED
  BY <1>3, <1>4, <1>5, <1>6, <1>7, <1>8 DEF Betting

\* Sitting out and in, joining and leaving.
LEMMA TypeOKSeating ==
  ASSUME TypeOK, NEW p \in Players, Seating(p)
  PROVE  TypeOK'
<1> USE DEF chipVars, roundVars, turnVars, sessionVars, handVars, seatVars,
        bankVars, buttonVars, RunAdvance, InvalidateSession
<1>1. CASE SitOut(p)
  BY <1>1 DEF SitOut, TypeOK
<1>2. CASE SitIn(p)
  BY <1>2 DEF SitIn, TypeOK
<1>3. ASSUME NEW request \in SeatRequests, NEW buyIn \in BuyIns,
             Join(p, request, buyIn)
      PROVE  TypeOK'
  <2>1. /\ seat' \in [Players -> 0..MaxSeats]
        /\ stack' \in [Players -> Int]
        /\ seated' \subseteq Players /\ seated \subseteq seated'
    BY <1>3, BoundsAssumption DEF Join, TypeOK
  <2>2. wallet' \in [Players -> Nat]
    BY <1>3, BoundsAssumption DEF Join, TypeOK
  <2>3. armed' \in BOOLEAN
    BY <1>3 DEF Join
  <2> QED
    BY <1>3, <2>1, <2>2, <2>3 DEF Join, TypeOK
<1>4. CASE Leave(p)
  <2>1. /\ seat' \in [Players -> 0..MaxSeats]
        /\ stack' \in [Players -> Int]
        /\ bet' \in [Players -> Int]
        /\ committed' \in [Players -> Int]
    BY <1>4, ConfigAssumption DEF Leave, RemovePlayer, DropChips, TypeOK
  <2>2. wallet' \in [Players -> Nat]
    BY <1>4 DEF Leave, TypeOK
  <2>3. /\ seated' \subseteq Players
        /\ folded' \subseteq seated' /\ allIn' \subseteq seated'
        /\ sittingOut' \subseteq seated' /\ holding' \subseteq seated'
    BY <1>4 DEF Leave, RemovePlayer, DropFlags, TypeOK
  <2> QED
    BY <1>4, <2>1, <2>2, <2>3 DEF Leave, PassTurn, ClearTurn, TypeOK
<1> QED
  BY <1>1, <1>2, <1>3, <1>4 DEF Seating

\* The start of a hand: the list holds the active players, the blinds are not
\* negative and the pot is the sum of everything posted.
LEMMA TypeOKStartNewHand ==
  ASSUME TypeOK, StartNewHand
  PROVE  TypeOK'
<1> DEFINE d == NewDealer
<1> DEFINE sb == IF Cardinality(Active) = 2 THEN d ELSE Clockwise(Active, seat[d])
<1> DEFINE bb == Clockwise(Active, seat[sb])
<1> DEFINE ante == [p \in Players |->
                      IF p \notin Active THEN 0
                      ELSE Capped(p, Ante) + (IF p = bb THEN Capped(p, BBAnte) ELSE 0)]
<1> DEFINE blind == [p \in Players |->
                       IF p = sb THEN Capped(p, SmallBlind)
                       ELSE IF p = bb THEN Capped(p, BigBlind) ELSE 0]
<1>1. EnoughPlayers
  BY DEF StartNewHand
<1>2. Active \in SUBSET Players /\ d \in Active /\ sb \in Active /\ bb \in Active
  BY <1>1, NewHandPlayers
<1>3. /\ phase' = "preflop" /\ dealer' = d /\ dealerSeat' = seat[d]
      /\ order' = RotateAfter(Active, bb) /\ pending' = Active /\ ClearTurn
      /\ bet' = blind
      /\ committed' = [p \in Players |-> ante[p] + blind[p]]
      /\ stack' = [p \in Players |-> stack[p] - (ante[p] + blind[p])]
      /\ pot' = Total(committed')
      /\ highBet' = (IF blind[bb] < blind[sb] THEN blind[sb] ELSE blind[bb])
      /\ lastRaise' = blind[bb]
      /\ raises' = 0 /\ closedFor' = {} /\ folded' = {} /\ allIn' = {}
      /\ holding' = Active
      /\ UNCHANGED <<seatVars, bankVars, handNumber, sessionVars, sittingOut>>
  BY DEF StartNewHand, HandStarted, BlindsPosted
<1>4. \A p \in Players, a \in Nat : Capped(p, a) \in Int
  BY DEF Capped, TypeOK
<1>5. \A p \in Active, a \in Nat : Capped(p, a) \in Nat
  BY DEF Capped, Active, TypeOK
<1>6. /\ SmallBlind \in Nat /\ BigBlind \in Nat /\ Ante \in Nat /\ BBAnte \in Nat
  BY ConfigAssumption
<1> HIDE DEF d, sb, bb
<1>7. ante \in [Players -> Int] /\ blind \in [Players -> Int]
  BY <1>4, <1>6
<1>8. blind[sb] \in Nat /\ blind[bb] \in Nat
  BY <1>2, <1>5, <1>6
<1> HIDE DEF ante, blind
<1>9. bet' \in [Players -> Int] /\ stack' \in [Players -> Int]
  BY <1>3, <1>7 DEF TypeOK
<1>10. committed' \in [Players -> Int]
  BY <1>3, <1>7
<1>11. pot' \in Int
  <2>1. Total(committed') \in Nat
    BY <1>10, PlayersAssumption, TotalType
  <2> QED
    BY <1>3, <2>1
<1>12. highBet' \in Nat /\ lastRaise' \in Nat /\ raises' \in Nat
  BY <1>3, <1>8
<1>13. order' \in [Players -> 0..MaxSeats]
  BY <1>2, <1>3, RotateAfterLists
<1>14. dealer' \in Players /\ dealerSeat' \in -1..MaxSeats
  BY <1>2, <1>3 DEF TypeOK
<1>15. Active \subseteq seated
  BY DEF Active
<1> QED
  BY <1>3, <1>9, <1>10, <1>11, <1>12, <1>13, <1>14, <1>15
     DEF TypeOK, ClearTurn, seatVars, bankVars, sessionVars, Phases

\* The end of a hand, whoever is paid.
LEMMA TypeOKHandEnded ==
  ASSUME TypeOK, HandEnded, stack' \in [Players -> Int], bet' \in [Players -> Int],
         house' = house + Rake
  PROVE  TypeOK'
<1>1. NoChips \in [Players -> 0..MaxSeats]
  BY ConfigAssumption DEF NoChips
<1>2. house' \in Nat
  BY RakeBounds DEF TypeOK
<1>3. phase' \in Phases
  BY DEF HandEnded, Phases
<1>4. order' \in [Players -> 0..MaxSeats]
  BY <1>1 DEF HandEnded
<1>5. /\ pot' \in Int /\ highBet' \in Nat /\ lastRaise' \in Nat /\ raises' \in Nat
      /\ handNumber' \in Nat
  BY DEF HandEnded, TypeOK
<1>6. /\ closedFor' \subseteq Players /\ pending' \subseteq Players
      /\ acting' \in Players \cup {None} /\ expired' \in BOOLEAN
      /\ dealer' \in Players \cup {None}
  BY DEF HandEnded, ClearTurn
<1>7. UNCHANGED <<seated, seat, committed, folded, allIn, sittingOut, holding, wallet,
                  dealerSeat, busy, armed>>
  BY DEF HandEnded, seatVars, sessionVars
<1> QED
  BY <1>2, <1>3, <1>4, <1>5, <1>6, <1>7 DEF TypeOK

\* The steps of the lifecycle loop.
LEMMA TypeOKAdvance ==
  ASSUME TypeOK, Advance
  PROVE  TypeOK'
<1> USE DEF chipVars, roundVars, turnVars, sessionVars, handVars, seatVars, bankVars,
        buttonVars
<1>1. CASE SatOutBusted
  BY <1>1 DEF SatOutBusted, Busted, TypeOK
<1>2. CASE QuiesceIdle \/ QuiesceNoWinner \/ QuiesceWaiting
  <2>1. expired' \in BOOLEAN
    <3>1. expired' \in {expired, FALSE, ActionTimeout}
      BY <1>2 DEF QuiesceIdle, QuiesceNoWinner, QuiesceWaiting
    <3>2. expired \in BOOLEAN /\ ActionTimeout \in BOOLEAN
      BY ConfigAssumption DEF TypeOK
    <3> QED
      BY <3>1, <3>2, Zenon
  <2>2. armed' \in BOOLEAN
    BY <1>2, Zenon
       DEF QuiesceIdle, QuiesceNoWinner, QuiesceWaiting, Quiesce, ResetDeadline
  <2> QED
    BY <1>2, <2>1, <2>2 DEF QuiesceIdle, QuiesceNoWinner, QuiesceWaiting, Quiesce, TypeOK
<1>3. CASE StartNewHand
  BY <1>3, TypeOKStartNewHand
<1>4. CASE TimeoutAction
  BY <1>4 DEF TimeoutAction, PassTurn, ClearTurn, TypeOK
<1>5. ASSUME NEW winner \in Players, EndHandUncontested(winner)
      PROVE  TypeOK'
  <2>1. Rake \in Int
    BY RakeBounds
  <2>2. stack' \in [Players -> Int]
    BY <1>5, <2>1 DEF EndHandUncontested, TypeOK
  <2>3. bet' \in [Players -> Int] /\ house' = house + Rake /\ HandEnded
    BY <1>5 DEF EndHandUncontested, TypeOK
  <2> QED
    BY <2>2, <2>3, TypeOKHandEnded
<1>6. CASE StartNextAction
  <2>1. First(pending) \in Players
    BY <1>6, FirstPicks DEF StartNextAction, TypeOK
  <2> QED
    BY <1>6, <2>1 DEF StartNextAction, TypeOK
<1>7. CASE AdvanceStreet
  <2>1. Active \in SUBSET Players
    BY DEF Active, TypeOK
  <2>2. order' \in [Players -> 0..MaxSeats]
    BY <1>7, <2>1, RotateAfterLists DEF AdvanceStreet, ResetStreetState
  <2>3. bet' \in [Players -> Int]
    BY <1>7 DEF AdvanceStreet, ResetStreetState, NoChips
  <2>4. phase' \in Phases
    BY <1>7 DEF AdvanceStreet, RoundEnded, InHand, NextPhase, Phases, TypeOK
  <2> QED
    BY <1>7, <2>1, <2>2, <2>3, <2>4 DEF AdvanceStreet, ResetStreetState, ClearTurn, TypeOK
<1>8. ASSUME NEW rank \in [Evaluated -> HandRanks], EndHandShowdown(rank)
      PROVE  TypeOK'
  <2>1. \A p \in Players : Payout(p, rank) \in Int
    BY PayoutType
  <2>2. stack' \in [Players -> Int]
    BY <1>8, <2>1 DEF EndHandShowdown, TypeOK
  <2>3. bet' \in [Players -> Int] /\ house' = house + Rake /\ HandEnded
    BY <1>8 DEF EndHandShowdown, NoChips
  <2> QED
    BY <2>2, <2>3, TypeOKHandEnded
<1> QED
  BY <1>1, <1>2, <1>3, <1>4, <1>5, <1>6, <1>7, <1>8 DEF Advance

\* Every step of players, lobby and engine keeps the table well-formed.
LEMMA TypeOKNext ==
  ASSUME TypeOK, [Next]_vars
  PROVE  TypeOK'
<1> USE DEF chipVars, roundVars, turnVars, sessionVars, handVars, seatVars, bankVars,
        buttonVars
<1>1. ASSUME NEW p \in Players, Betting(p) PROVE TypeOK'
  BY <1>1, TypeOKBetting
<1>2. ASSUME NEW p \in Players, Seating(p) PROVE TypeOK'
  BY <1>2, TypeOKSeating
<1>3. CASE OtherCommand
  BY <1>3 DEF OtherCommand, RunAdvance, TypeOK
<1>4. CASE Clock
  BY <1>4 DEF Clock, DeadlinePasses, DeadlineTimer, SessionEnds, RunAdvance, TypeOK
<1>5. CASE Advance
  BY <1>5, TypeOKAdvance
<1>6. CASE UNCHANGED vars
  BY <1>6 DEF vars, TypeOK
<1> QED
  BY <1>1, <1>2, <1>3, <1>4, <1>5, <1>6 DEF Next

\* Type correctness of every table: whatever the configuration and however players
\* bet, join, leave, sit out or time out, the state the events build is well-formed.
THEOREM TableTypeOK == Spec => []TypeOK
<1>1. Init => TypeOK
  BY TypeOKInit
<1>2. TypeOK /\ [Next]_vars => TypeOK'
  BY TypeOKNext
<1> QED
  BY <1>1, <1>2, PTL DEF Spec

-----------------------------------------------------------------------------
(***************************************************************************)
(* Whose turn it is.  ActingIsFirstPending is inductive given TypeOK.      *)
(***************************************************************************)

\* Every step leaves the action with the first pending player of the order.
LEMMA ActingNext ==
  ASSUME TypeOK, ActingIsFirstPending, [Next]_vars
  PROVE  ActingIsFirstPending'
<1> USE DEF chipVars, roundVars, turnVars, sessionVars, handVars, seatVars, bankVars,
        buttonVars
<1>1. ASSUME NEW p \in Players, Betting(p)
      PROVE  ActingIsFirstPending'
  <2>1. UNCHANGED order /\ acting' = None
    BY <1>1 DEF Betting, Fold, Check, Call, Bet, Raise, AllIn, PassTurn, Reopen,
                ShortRaise, ClearTurn
  <2>2. pending' \subseteq pending \/ pending' = OthersInOrder(p)
    BY <1>1 DEF Betting, Fold, Check, Call, Bet, Raise, AllIn, PassTurn, Reopen,
                ShortRaise
  <2>3. \A q \in OthersInOrder(p) : order[q] > 0
    BY DEF OthersInOrder, Live
  <2> QED
    BY <2>1, <2>2, <2>3 DEF ActingIsFirstPending
<1>2. ASSUME NEW p \in Players, Seating(p)
      PROVE  ActingIsFirstPending'
  <2>1. UNCHANGED order
    BY <1>2 DEF Seating, SitOut, SitIn, Join, Leave
  <2>2. UNCHANGED turnVars \/ PassTurn(p)
    BY <1>2 DEF Seating, SitOut, SitIn, Join, Leave
  <2> QED
    BY <2>1, <2>2 DEF PassTurn, ClearTurn, ActingIsFirstPending
<1>3. CASE OtherCommand \/ Clock \/ UNCHANGED vars
  BY <1>3 DEF OtherCommand, Clock, DeadlinePasses, DeadlineTimer, SessionEnds, vars,
              ActingIsFirstPending
<1>4. CASE Advance
  <2>1. CASE SatOutBusted \/ QuiesceIdle \/ QuiesceNoWinner \/ QuiesceWaiting
    BY <2>1 DEF SatOutBusted, QuiesceIdle, QuiesceNoWinner, QuiesceWaiting, Quiesce,
                ActingIsFirstPending
  <2>2. CASE TimeoutAction
    BY <2>2 DEF TimeoutAction, PassTurn, ClearTurn, ActingIsFirstPending
  <2>3. CASE HandEnded
    BY <2>3 DEF HandEnded, ClearTurn, ActingIsFirstPending
  <2>4. ASSUME NEW target, order' = RotateAfter(Active, target), pending' = Active,
               acting' = None
        PROVE  ActingIsFirstPending'
    <3>1. Active \in SUBSET Players
      BY DEF Active, TypeOK
    <3>2. \A p \in Active : RotateAfter(Active, target)[p] > 0
      BY <3>1, RotateAfterLists
    <3> QED
      BY <2>4, <3>2 DEF ActingIsFirstPending
  <2>5. CASE StartNewHand
    <3>1. \E target : order' = RotateAfter(Active, target)
      BY <2>5 DEF StartNewHand, HandStarted
    <3>2. pending' = Active /\ acting' = None
      BY <2>5 DEF StartNewHand, HandStarted, ClearTurn
    <3> QED
      BY <2>4, <3>1, <3>2
  <2>6. CASE AdvanceStreet
    BY <2>4, <2>6 DEF AdvanceStreet, ResetStreetState, ClearTurn
  <2>7. CASE StartNextAction
    <3>1. pending \in SUBSET Players /\ pending # {}
      BY <2>7 DEF StartNextAction, TypeOK
    <3>2. acting' = First(pending) /\ UNCHANGED <<pending, order>>
      BY <2>7 DEF StartNextAction
    <3> QED
      BY <3>1, <3>2, FirstPicks DEF ActingIsFirstPending
  <2> QED
    BY <1>4, <2>1, <2>2, <2>3, <2>5, <2>6, <2>7
       DEF Advance, EndHandUncontested, EndHandShowdown
<1> QED
  BY <1>1, <1>2, <1>3, <1>4 DEF Next

\* On every table the player on the clock is the first of the pending ones, and the
\* pending ones are listed, through folds, raises, timeouts and departures.
THEOREM TableActingIsFirstPending == Spec => []ActingIsFirstPending
<1>1. Init => TypeOK /\ ActingIsFirstPending
  BY TypeOKInit DEF Init, ActingIsFirstPending
<1>2. TypeOK /\ ActingIsFirstPending /\ [Next]_vars => TypeOK' /\ ActingIsFirstPending'
  BY TypeOKNext, ActingNext
<1> QED
  BY <1>1, <1>2, PTL DEF Spec

-----------------------------------------------------------------------------
(***************************************************************************)
(* Folded players.                                                         *)
(***************************************************************************)

\* No action of the engine or the lobby clears the flag of a player who stays.
LEMMA FoldedFlagNext ==
  ASSUME TypeOK, Next, NEW p \in folded, phase # "none", p \in seated'
  PROVE  p \in folded'
<1> USE DEF chipVars, roundVars, turnVars, sessionVars, handVars, seatVars, bankVars,
        buttonVars
<1>1. ASSUME NEW q \in Players, Betting(q) PROVE p \in folded'
  BY <1>1 DEF Betting, Fold, Check, Call, Bet, Raise, AllIn
<1>2. ASSUME NEW q \in Players, Seating(q) PROVE p \in folded'
  <2>1. CASE Leave(q)
    BY <2>1 DEF Leave, RemovePlayer, DropFlags
  <2>2. CASE ~Leave(q)
    BY <1>2, <2>2 DEF Seating, SitOut, SitIn, Join
  <2> QED
    BY <2>1, <2>2
<1>3. CASE OtherCommand \/ Clock
  BY <1>3 DEF OtherCommand, Clock, DeadlinePasses, DeadlineTimer, SessionEnds
<1>4. CASE Advance
  <2>1. ASSUME HandEnded PROVE p \in folded'
    BY <2>1 DEF HandEnded
  <2>2. ~(SatOutBusted \/ QuiesceIdle \/ StartNewHand)
    BY DEF SatOutBusted, QuiesceIdle, StartNewHand
  <2>3. CASE \/ QuiesceNoWinner \/ QuiesceWaiting \/ TimeoutAction \/ StartNextAction
             \/ AdvanceStreet
    BY <2>3 DEF QuiesceNoWinner, QuiesceWaiting, Quiesce, TimeoutAction, StartNextAction,
                AdvanceStreet
  <2> QED
    BY <1>4, <2>1, <2>2, <2>3 DEF Advance, EndHandUncontested, EndHandShowdown
<1> QED
  BY <1>1, <1>2, <1>3, <1>4 DEF Next

\* No action of the engine or the lobby pays a player who has folded.
LEMMA FoldedNext ==
  ASSUME TypeOK, Next, NEW p \in folded, phase # "none", p \in seated'
  PROVE  stack'[p] <= stack[p]
<1> USE DEF chipVars, roundVars, turnVars, sessionVars, handVars, seatVars, bankVars,
        buttonVars
<1>1. p \in Players /\ p \in seated /\ stack[p] \in Int
  BY DEF TypeOK
<1>2. ASSUME NEW q \in Players, Betting(q)
      PROVE  stack'[p] = stack[p]
  <2>1. q # p
    BY <1>2 DEF Betting, Fold, Check, Call, Bet, Raise, AllIn, CanAct
  <2>2. UNCHANGED stack \/ \E amount : PutIn(q, amount)
    BY <1>2 DEF Betting, Fold, Check, Call, Bet, Raise, AllIn
  <2> QED
    BY <1>1, <2>1, <2>2 DEF PutIn, TypeOK
<1>3. ASSUME NEW q \in Players, Seating(q)
      PROVE  stack'[p] = stack[p]
  <2>1. CASE SitOut(q) \/ SitIn(q)
    BY <2>1 DEF SitOut, SitIn
  <2>2. ASSUME NEW request, NEW buyIn, Join(q, request, buyIn)
        PROVE  stack'[p] = stack[p]
    BY <1>1, <2>2 DEF Join, TypeOK
  <2>3. CASE Leave(q)
    BY <1>1, <2>3 DEF Leave, RemovePlayer, DropChips, TypeOK
  <2> QED
    BY <1>3, <2>1, <2>2, <2>3 DEF Seating
<1>4. CASE OtherCommand \/ Clock
  BY <1>1, <1>4 DEF OtherCommand, Clock, DeadlinePasses, DeadlineTimer, SessionEnds
<1>5. CASE Advance
  <2>1. CASE \/ QuiesceNoWinner \/ QuiesceWaiting \/ TimeoutAction \/ StartNextAction
             \/ AdvanceStreet
    <3>1. UNCHANGED stack
      BY <2>1 DEF QuiesceNoWinner, QuiesceWaiting, Quiesce, TimeoutAction,
                  StartNextAction, AdvanceStreet
    <3> QED
      BY <1>1, <3>1
  <2>2. ASSUME NEW winner \in Players, EndHandUncontested(winner)
        PROVE  stack'[p] = stack[p]
    <3>1. winner # p
      BY <2>2 DEF EndHandUncontested, Live
    <3> QED
      BY <1>1, <2>2, <3>1 DEF EndHandUncontested, TypeOK
  <2>3. ASSUME NEW rank, EndHandShowdown(rank)
        PROVE  stack'[p] = stack[p]
    BY <1>1, <2>3, FoldedGetNothing DEF EndHandShowdown
  <2>4. ~(SatOutBusted \/ QuiesceIdle \/ StartNewHand)
    BY DEF SatOutBusted, QuiesceIdle, StartNewHand
  <2> QED
    BY <1>1, <1>5, <2>1, <2>2, <2>3, <2>4 DEF Advance
<1> QED
  BY <1>1, <1>2, <1>3, <1>4, <1>5 DEF Next

\* On every table a player who has folded stays folded and unpaid until the hand ends
\* or the player leaves.
THEOREM TableFoldedStaysOut == Spec => FoldedStaysOut
<1>1. TypeOK /\ [Next]_vars =>
        [\A p \in folded : phase # "none" /\ p \in seated' =>
                              p \in folded' /\ stack'[p] <= stack[p]]_vars
  BY FoldedNext, FoldedFlagNext
<1> QED
  BY <1>1, TableTypeOK, PTL DEF Spec, FoldedStaysOut

-----------------------------------------------------------------------------
(***************************************************************************)
(* Termination of the lifecycle loop.                                      *)
(***************************************************************************)

\* Every step inside runAdvance that is not its last one lowers AdvanceRank.
LEMMA AdvanceRankDecreases ==
  ASSUME TypeOK, Next, busy, busy'
  PROVE  AdvanceRank' < AdvanceRank
<1> USE DEF chipVars, roundVars, turnVars, sessionVars, handVars, seatVars, bankVars,
        buttonVars
<1>1. Advance
  BY DEF Next, Betting, Fold, Check, Call, Bet, Raise, AllIn, CanAct, Seating, SitOut,
         SitIn, Join, Leave, OtherCommand, Clock, DeadlinePasses, DeadlineTimer, SessionEnds
<1>2. ~(QuiesceIdle \/ QuiesceNoWinner \/ QuiesceWaiting)
  BY DEF QuiesceIdle, QuiesceNoWinner, QuiesceWaiting, Quiesce
<1>3. CASE SatOutBusted
  <2>1. phase = "none" /\ phase' = "none" /\ Busted # {}
    BY <1>3 DEF SatOutBusted
  <2>2. Busted' = {}
    BY <1>3 DEF SatOutBusted, Busted
  <2> QED
    BY <2>1, <2>2 DEF AdvanceRank
<1>4. CASE StartNewHand
  <2>1. Active \in SUBSET Players /\ \E p, q \in Active : p # q
    BY <1>4, NewHandPlayers DEF StartNewHand
  <2>2. \E target : order' = RotateAfter(Active, target)
    BY <1>4 DEF StartNewHand, HandStarted
  <2>3. \A p \in Active : order'[p] > 0
    BY <2>1, <2>2, RotateAfterLists
  <2>4. /\ phase = "none" /\ Busted = {} /\ phase' # "none"
        /\ acting' = None /\ pending' = Active /\ folded' = {} /\ seated' = seated
    BY <1>4 DEF StartNewHand, HandStarted, ClearTurn
  <2>5. Active \subseteq Live'
    BY <2>3, <2>4 DEF Live, Active
  <2>6. ~OneLive'
    BY <2>1, <2>5 DEF OneLive
  <2>7. AdvanceRank = 2
    BY <2>4 DEF AdvanceRank
  <2>8. AdvanceRank' \in {0, 1}
    BY <2>1, <2>4, <2>6 DEF AdvanceRank
  <2> QED
    BY <2>7, <2>8
<1>5. CASE TimeoutAction
  <2>1. phase # "none" /\ acting # None /\ expired /\ phase' # "none" /\ acting' = None
    BY <1>5 DEF TimeoutAction, PassTurn, ClearTurn
  <2>2. AdvanceRank = 6
    BY <2>1 DEF AdvanceRank
  <2>3. AdvanceRank' \in {0, 1, 4, 5}
    BY <2>1 DEF AdvanceRank
  <2> QED
    BY <2>2, <2>3
<1>6. ASSUME NEW winner, EndHandUncontested(winner)
      PROVE  AdvanceRank' < AdvanceRank
  <2>1. InHand /\ OneLive /\ Live # {}
    BY <1>6 DEF EndHandUncontested, OneLive
  <2>2. AdvanceRank = 4
    BY <2>1 DEF InHand, AdvanceRank
  <2>3. AdvanceRank' \in {2, 3}
    BY <1>6 DEF EndHandUncontested, HandEnded, AdvanceRank
  <2> QED
    BY <2>2, <2>3
<1>7. CASE StartNextAction
  <2>1. InHand /\ ~OneLive /\ acting = None /\ pending # {}
    BY <1>7 DEF StartNextAction
  <2>2. acting' \in Players /\ ~expired'
    BY <1>7, <2>1, FirstPicks DEF StartNextAction, TypeOK
  <2>3. UNCHANGED <<phase, seated, folded, order>>
    BY <1>7 DEF StartNextAction
  <2>4. Live # {}
    BY <2>1 DEF OneLive
  <2>5. AdvanceRank = 1
    BY <2>1, <2>4 DEF InHand, AdvanceRank
  <2>6. Live' = Live /\ (OneLive' <=> OneLive)
    BY <2>3 DEF Live, OneLive
  <2>7. AdvanceRank' = 0
    BY <2>1, <2>2, <2>3, <2>6, PlayersAssumption DEF InHand, AdvanceRank
  <2> QED
    BY <2>5, <2>7
<1>8. CASE AdvanceStreet
  <2>1. InHand /\ ~OneLive /\ acting = None /\ pending = {} /\ phase # "river"
    BY <1>8 DEF AdvanceStreet, RoundEnded
  <2>2. Live # {}
    BY <2>1 DEF OneLive
  <2>3. AdvanceRank = 5
    BY <2>1, <2>2 DEF InHand, AdvanceRank
  <2>4. phase' # "none" /\ acting' = None /\ pending' = Active
    BY <1>8, <2>1 DEF AdvanceStreet, ResetStreetState, ClearTurn, NextPhase, InHand, TypeOK, Phases
  <2>5. Active = {} => Live' = {}
    <3>1. order' = RotateAfter(Active, dealer) /\ seated' = seated
      BY <1>8 DEF AdvanceStreet, ResetStreetState
    <3>2. \A p \in Players : order'[p] > 0 <=> p \in Active
      BY <3>1, RotateAfterLists DEF Active, TypeOK
    <3> QED
      BY <3>1, <3>2 DEF Live, TypeOK
  <2>6. AdvanceRank' \in {0, 1, 4}
    BY <2>4, <2>5 DEF AdvanceRank
  <2> QED
    BY <2>3, <2>6
<1>9. ASSUME NEW rank, EndHandShowdown(rank)
      PROVE  AdvanceRank' < AdvanceRank
  <2>1. InHand /\ ~OneLive /\ acting = None /\ pending = {} /\ phase = "river"
    BY <1>9 DEF EndHandShowdown, RoundEnded
  <2>2. Live # {}
    BY <2>1 DEF OneLive
  <2>3. AdvanceRank = 4
    BY <2>1, <2>2 DEF InHand, AdvanceRank
  <2>4. AdvanceRank' \in {2, 3}
    BY <1>9 DEF EndHandShowdown, HandEnded, AdvanceRank
  <2> QED
    BY <2>3, <2>4
<1> QED
  BY <1>1, <1>2, <1>3, <1>4, <1>5, <1>6, <1>7, <1>8, <1>9 DEF Advance

\* On every table the loop of runAdvance comes to rest by itself: its cap of 64 steps
\* never cuts a hand short.
THEOREM TableAdvanceTerminates == Spec => AdvanceTerminates
<1>1. TypeOK /\ [Next]_vars => [busy /\ busy' => AdvanceRank' < AdvanceRank]_vars
  BY AdvanceRankDecreases
<1> QED
  BY <1>1, TableTypeOK, PTL DEF Spec, AdvanceTerminates

-----------------------------------------------------------------------------
(***************************************************************************)
(* Bets and stacks.  StacksAndBetsSound is inductive given TypeOK.         *)
(***************************************************************************)

\* Putting chips in up to a total that the others are asked to match.
LEMMA PutInSound ==
  ASSUME TypeOK, phase # "none", BetsMatched, NEW p \in Players, NEW amount \in Int,
         PutIn(p, amount), highBet' \in Int, highBet' >= highBet,
         bet[p] + amount <= highBet'
  PROVE  /\ BetsMatched'
         /\ ChipsBacked /\ amount >= 0 /\ amount <= stack[p] => ChipsBacked'
<1>1. \A q \in Players : /\ bet[q] \in Int /\ stack[q] \in Int /\ committed[q] \in Int
                         /\ bet[q] <= highBet
  BY DEF TypeOK, BetsMatched
<1>2. \A q \in Players : bet'[q] = IF q = p THEN bet[p] + amount ELSE bet[q]
  BY DEF PutIn, TypeOK
<1>3. \A q \in Players : stack'[q] = IF q = p THEN stack[p] - amount ELSE stack[q]
  BY DEF PutIn, TypeOK
<1>4. \A q \in Players :
        committed'[q] = IF q = p THEN committed[p] + amount ELSE committed[q]
  BY DEF PutIn, TypeOK
<1>5. highBet \in Int /\ pot \in Int /\ pot' = pot + amount
  BY DEF PutIn, TypeOK
<1>6. BetsMatched'
  BY <1>1, <1>2, <1>5 DEF BetsMatched
<1>7. ASSUME ChipsBacked, amount >= 0, amount <= stack[p]
      PROVE  ChipsBacked'
  BY <1>1, <1>2, <1>3, <1>4, <1>5, <1>7 DEF ChipsBacked
<1> QED
  BY <1>6, <1>7

\* Folds, checks, calls, bets, raises and timeouts take no more than the stack holds.
LEMMA SoundBetting ==
  ASSUME TypeOK, StacksAndBetsSound, NEW p \in Players, Betting(p)
  PROVE  StacksAndBetsSound'
<1> USE DEF chipVars, roundVars, turnVars, sessionVars, handVars, seatVars, bankVars,
        buttonVars
<1> DEFINE NoAntes == Ante = 0 /\ BBAnte = 0
<1>1. phase # "none" /\ BetsMatched /\ (NoAntes => ChipsBacked)
  BY DEF Betting, Fold, Check, Call, Bet, Raise, AllIn, CanAct, StacksAndBetsSound
<1>2. bet[p] \in Int /\ stack[p] \in Int /\ highBet \in Nat /\ bet[p] <= highBet
  BY <1>1 DEF TypeOK, BetsMatched
<1>3. NoAntes => stack[p] >= 0 /\ bet[p] >= 0
  BY <1>1 DEF ChipsBacked
<1>4. SUFFICES ASSUME NEW amount \in Int, PutIn(p, amount), highBet' \in Int,
                      highBet' >= highBet, bet[p] + amount <= highBet',
                      NoAntes => amount >= 0 /\ amount <= stack[p]
               PROVE  StacksAndBetsSound'
  <2>1. CASE Fold(p) \/ Check(p)
    BY <2>1 DEF Fold, Check, StacksAndBetsSound, BetsMatched, ChipsBacked
  <2>2. CASE Call(p)
    <3>1. CallAmount(p) \in Int /\ bet[p] + CallAmount(p) <= highBet
      BY <1>2 DEF CallAmount
    <3>2. NoAntes => CallAmount(p) >= 0 /\ CallAmount(p) <= stack[p]
      BY <1>2, <1>3 DEF CallAmount
    <3>3. PutIn(p, CallAmount(p)) /\ highBet' = highBet
      BY <2>2 DEF Call
    <3> QED
      BY <1>2, <1>4, <3>1, <3>2, <3>3
  <2>3. ASSUME NEW amount \in 1..stack[p], Bet(p, amount)
        PROVE  StacksAndBetsSound'
    <3>1. PutIn(p, amount - bet[p]) /\ highBet' = amount /\ highBet <= 0
      BY <2>3 DEF Bet, Reopen
    <3> QED
      BY <1>2, <1>3, <1>4, <3>1
  <2>4. ASSUME NEW to \in (highBet + 1)..(bet[p] + stack[p]), Raise(p, to)
        PROVE  StacksAndBetsSound'
    <3>1. PutIn(p, to - bet[p]) /\ highBet' = to
      BY <2>4 DEF Raise, Reopen
    <3> QED
      BY <1>2, <1>3, <1>4, <3>1
  <2>5. CASE AllIn(p)
    <3>1. PutIn(p, stack[p])
      BY <2>5 DEF AllIn
    <3>2. \/ bet[p] + stack[p] <= highBet /\ highBet' = highBet
          \/ bet[p] + stack[p] > highBet /\ highBet' = bet[p] + stack[p]
      BY <2>5 DEF AllIn, Reopen, ShortRaise
    <3> QED
      BY <1>2, <1>3, <1>4, <3>1, <3>2
  <2> QED
    BY <2>1, <2>2, <2>3, <2>4, <2>5 DEF Betting
<1>5. BetsMatched' /\ (NoAntes => ChipsBacked')
  BY <1>1, <1>4, PutInSound
<1> QED
  BY <1>5 DEF StacksAndBetsSound

\* Joining and leaving move whole stacks, and leave the bets of the hand backed.
LEMMA SoundSeating ==
  ASSUME TypeOK, StacksAndBetsSound, NEW p \in Players, Seating(p)
  PROVE  StacksAndBetsSound'
<1> USE DEF chipVars, roundVars, turnVars, sessionVars, handVars, seatVars, bankVars,
        buttonVars
<1>1. CASE SitOut(p) \/ SitIn(p)
  BY <1>1 DEF SitOut, SitIn, StacksAndBetsSound, BetsMatched, ChipsBacked
<1>2. ASSUME NEW request \in SeatRequests, NEW buyIn \in BuyIns,
             Join(p, request, buyIn)
      PROVE  StacksAndBetsSound'
  <2>1. UNCHANGED <<bet, committed, pot, phase, highBet>>
    BY <1>2 DEF Join
  <2>2. \A q \in Players : stack'[q] = IF q = p THEN buyIn ELSE stack[q]
    BY <1>2 DEF Join, TypeOK
  <2>3. buyIn \in Nat
    BY BoundsAssumption
  <2> QED
    BY <2>1, <2>2, <2>3 DEF StacksAndBetsSound, BetsMatched, ChipsBacked
<1>3. CASE Leave(p)
  <2>1. UNCHANGED <<pot, phase, highBet>>
    BY <1>3 DEF Leave
  <2>2. \A q \in Players :
          /\ stack'[q] = IF q = p THEN 0 ELSE stack[q]
          /\ bet'[q] = IF q = p THEN 0 ELSE bet[q]
          /\ committed'[q] = IF q = p THEN 0 ELSE committed[q]
    BY <1>3 DEF Leave, RemovePlayer, DropChips, TypeOK
  <2>3. highBet \in Nat
    BY DEF TypeOK
  <2> QED
    BY <2>1, <2>2, <2>3 DEF StacksAndBetsSound, BetsMatched, ChipsBacked
<1> QED
  BY <1>1, <1>2, <1>3 DEF Seating

\* Without antes a blind never exceeds the stack it is posted from.
LEMMA SoundStartNewHand ==
  ASSUME TypeOK, StacksAndBetsSound, StartNewHand
  PROVE  StacksAndBetsSound'
<1> DEFINE d == NewDealer
<1> DEFINE sb == IF Cardinality(Active) = 2 THEN d ELSE Clockwise(Active, seat[d])
<1> DEFINE bb == Clockwise(Active, seat[sb])
<1> DEFINE ante == [p \in Players |->
                      IF p \notin Active THEN 0
                      ELSE Capped(p, Ante) + (IF p = bb THEN Capped(p, BBAnte) ELSE 0)]
<1> DEFINE blind == [p \in Players |->
                       IF p = sb THEN Capped(p, SmallBlind)
                       ELSE IF p = bb THEN Capped(p, BigBlind) ELSE 0]
<1>1. Active \in SUBSET Players /\ sb \in Active /\ bb \in Active
  BY NewHandPlayers DEF StartNewHand
<1>2. /\ bet' = blind
      /\ committed' = [p \in Players |-> ante[p] + blind[p]]
      /\ stack' = [p \in Players |-> stack[p] - (ante[p] + blind[p])]
      /\ pot' = Total(committed')
      /\ highBet' = (IF blind[bb] < blind[sb] THEN blind[sb] ELSE blind[bb])
  BY DEF StartNewHand, BlindsPosted
<1>3. \A p \in Players : stack[p] \in Int
  BY DEF TypeOK
<1>4. \A p \in Active, a \in Nat : Capped(p, a) \in 0..stack[p]
  BY <1>1, <1>3 DEF Capped, Active
<1>5. SmallBlind \in Nat /\ BigBlind \in Nat
  BY ConfigAssumption
<1> HIDE DEF d, sb, bb
<1>6. /\ \A p \in Players : blind[p] \in Nat
      /\ \A p \in Players : stack[p] >= 0 => blind[p] <= stack[p]
      /\ \A p \in Players : blind[p] <= (IF blind[bb] < blind[sb] THEN blind[sb] ELSE blind[bb])
  BY <1>1, <1>3, <1>4, <1>5
<1>7. ASSUME Ante = 0, BBAnte = 0
      PROVE  \A p \in Players : ante[p] = 0
  <2>1. \A p \in Active : Capped(p, 0) = 0
    BY <1>1, <1>3 DEF Capped, Active
  <2> QED
    BY <1>7, <2>1
<1> HIDE DEF ante, blind
<1>8. BetsMatched'
  BY <1>2, <1>6 DEF BetsMatched
<1>9. ASSUME Ante = 0, BBAnte = 0
      PROVE  ChipsBacked'
  <2>1. \A p \in Players : stack[p] >= 0
    BY <1>9 DEF StacksAndBetsSound, ChipsBacked
  <2>2. \A p \in Players : /\ bet'[p] = blind[p]
                           /\ committed'[p] = blind[p]
                           /\ stack'[p] = stack[p] - blind[p]
    BY <1>2, <1>3, <1>6, <1>7, <1>9
  <2>3. committed' \in [Players -> Int]
    BY <1>2, <1>6, <1>7, <1>9
  <2>4. pot' \in Nat
    BY <1>2, <2>3, PlayersAssumption, TotalType
  <2> QED
    BY <1>3, <1>6, <2>1, <2>2, <2>4 DEF ChipsBacked
<1> QED
  BY <1>8, <1>9 DEF StacksAndBetsSound

\* Streets, showdowns and the end of a hand pay out what the players put in.
LEMMA SoundAdvance ==
  ASSUME TypeOK, StacksAndBetsSound, Advance
  PROVE  StacksAndBetsSound'
<1> USE DEF chipVars, roundVars, turnVars, sessionVars, handVars, seatVars, bankVars,
        buttonVars
<1>1. CASE UNCHANGED <<chipVars, phase, highBet>>
  BY <1>1 DEF StacksAndBetsSound, BetsMatched, ChipsBacked
<1>2. CASE StartNewHand
  BY <1>2, SoundStartNewHand
<1>3. ASSUME NEW winner \in Players, EndHandUncontested(winner)
      PROVE  StacksAndBetsSound'
  <2>1. phase' = "none" /\ pot' = 0 /\ UNCHANGED <<bet, committed>>
    BY <1>3 DEF EndHandUncontested, HandEnded
  <2>2. \A q \in Players :
          stack'[q] = IF q = winner THEN stack[q] + (pot - Rake) ELSE stack[q]
    BY <1>3 DEF EndHandUncontested, TypeOK
  <2>3. Rake \in Nat /\ (pot >= 0 => Rake <= pot) /\ pot \in Int
    BY RakeBounds DEF TypeOK
  <2>4. \A q \in Players : stack[q] \in Int
    BY DEF TypeOK
  <2>5. ChipsBacked => ChipsBacked'
    BY <2>1, <2>2, <2>3, <2>4 DEF ChipsBacked
  <2> QED
    BY <2>1, <2>5 DEF StacksAndBetsSound, BetsMatched
<1>4. CASE AdvanceStreet
  <2>1. highBet' = 0 /\ bet' = NoChips /\ UNCHANGED <<stack, committed, pot>>
    BY <1>4 DEF AdvanceStreet, ResetStreetState
  <2>2. \A q \in Players : bet'[q] = 0 /\ bet[q] \in Int /\ committed[q] \in Int
    BY <2>1 DEF NoChips, TypeOK
  <2> QED
    BY <2>1, <2>2 DEF StacksAndBetsSound, BetsMatched, ChipsBacked
<1>5. ASSUME NEW rank, EndHandShowdown(rank)
      PROVE  StacksAndBetsSound'
  <2>1. phase' = "none" /\ pot' = 0 /\ bet' = NoChips /\ UNCHANGED committed
    BY <1>5 DEF EndHandShowdown, HandEnded
  <2>2. \A q \in Players : /\ bet'[q] = 0 /\ bet[q] \in Int /\ committed[q] \in Int
                           /\ stack[q] \in Int
    BY <2>1 DEF NoChips, TypeOK
  <2>3. \A q \in Players : /\ stack'[q] = stack[q] + Payout(q, rank)
                           /\ Payout(q, rank) \in Nat
    BY <1>5, PayoutType DEF EndHandShowdown
  <2>4. ChipsBacked => ChipsBacked'
    BY <2>1, <2>2, <2>3 DEF ChipsBacked
  <2> QED
    BY <2>1, <2>4 DEF StacksAndBetsSound, BetsMatched
<1> QED
  BY <1>1, <1>2, <1>3, <1>4, <1>5
     DEF Advance, SatOutBusted, QuiesceIdle, QuiesceNoWinner, QuiesceWaiting, Quiesce,
         TimeoutAction, StartNextAction

\* TypeOK and StacksAndBetsSound are inductive together.
LEMMA StacksAndBetsNext ==
  ASSUME TypeOK, StacksAndBetsSound, [Next]_vars
  PROVE  TypeOK' /\ StacksAndBetsSound'
<1>1. TypeOK'
  BY TypeOKNext
<1>2. CASE OtherCommand \/ Clock \/ UNCHANGED vars
  <2>1. UNCHANGED <<stack, bet, committed, pot, phase, highBet>>
    BY <1>2 DEF OtherCommand, Clock, DeadlinePasses, DeadlineTimer, SessionEnds, vars, chipVars,
                roundVars, handVars
  <2> QED
    BY <1>1, <2>1 DEF StacksAndBetsSound, BetsMatched, ChipsBacked
<1> QED
  BY <1>1, <1>2, SoundBetting, SoundSeating, SoundAdvance DEF Next

\* On every table no bet exceeds the bet to call; and on every table without antes no
\* stack, bet or pot is ever negative, whatever the blinds and the rake.
THEOREM TableStacksAndBetsSound == Spec => []StacksAndBetsSound
<1>1. Init => TypeOK /\ StacksAndBetsSound
  <2> SUFFICES ASSUME Init PROVE TypeOK /\ StacksAndBetsSound
    OBVIOUS
  <2>1. TypeOK
    BY TypeOKInit
  <2>2. phase = "none" /\ pot = 0
        /\ \A p \in Players : stack[p] = 0 /\ bet[p] = 0 /\ committed[p] = 0
    BY DEF Init, NoChips
  <2> QED
    BY <2>1, <2>2 DEF StacksAndBetsSound, BetsMatched, ChipsBacked
<1>2. TypeOK /\ StacksAndBetsSound /\ [Next]_vars => TypeOK' /\ StacksAndBetsSound'
  BY StacksAndBetsNext
<1> QED
  BY <1>1, <1>2, PTL DEF Spec

-----------------------------------------------------------------------------
(***************************************************************************)
(* Where the chips of a table go, for every number of players and every    *)
(* configuration without antes: the pots of a showdown divide the          *)
(* commitments, the shares of a pot divide the pot, and no hand creates or *)
(* destroys chips.                                                         *)
(***************************************************************************)

\* computeRake is applied to the whole pot but deducted from the main pot, which must
\* hold as much; a rake larger than the main pot would be booked in full all the same.
RakeFits == phase = "river" => Rake <= PotAmount(MainPot)

\* Somebody who is not at the table has no chips there.
AbsentHaveNothing ==
  \A p \in Players \ seated : stack[p] = 0 /\ bet[p] = 0 /\ committed[p] = 0

\* Amounts are natural numbers.
AmountsBacked ==
  /\ stack \in [Players -> Nat]
  /\ bet \in [Players -> Nat]
  /\ committed \in [Players -> Nat]
  /\ pot \in Nat

\* Without antes, ChipsBacked makes every amount a natural number.
LEMMA BackedAmounts ==
  ASSUME TypeOK, ChipsBacked
  PROVE  AmountsBacked
<1>1. \A p \in Players : /\ stack[p] \in Nat /\ bet[p] \in Nat /\ committed[p] \in Nat
                         /\ bet[p] <= committed[p]
  BY DEF TypeOK, ChipsBacked
<1>2. stack \in [Players -> Nat] /\ bet \in [Players -> Nat] /\ committed \in [Players -> Nat]
  BY <1>1 DEF TypeOK
<1> QED
  BY <1>2 DEF TypeOK, ChipsBacked, AmountsBacked

-----------------------------------------------------------------------------
(***************************************************************************)
(* The pots divide the commitments.                                        *)
(***************************************************************************)

\* The chips of pot E, by their owner and the level they were put in at.
PotChips(E) ==
  UNION {{p} \X {level \in 1..committed[p] : Eligible(level) = E} : p \in Contributors}

\* The chips of pot E are the committed chips of the levels at which E may win.
LEMMA PotChipsMember ==
  ASSUME NEW E, NEW c
  PROVE  c \in PotChips(E) <=>
           \E p \in Contributors : \E level \in 1..committed[p] :
             Eligible(level) = E /\ c = <<p, level>>
BY DEF PotChips

\* A pot's chips are finitely many.
LEMMA PotChipsFinite ==
  ASSUME TypeOK, NEW E
  PROVE  IsFiniteSet(PotChips(E))
<1>1. ASSUME NEW c \in PotChips(E) PROVE c \in Units(committed)
  <2>1. PICK p \in Contributors : \E level \in 1..committed[p] : c = <<p, level>>
    BY PotChipsMember
  <2>2. p \in Players /\ DOMAIN committed = Players
    BY DEF Contributors, TypeOK
  <2> QED
    BY <2>1, <2>2, UnitsMember
<1>2. committed \in [Players -> Int]
  BY DEF TypeOK
<1>3. IsFiniteSet(Units(committed))
  BY <1>2, PlayersAssumption, UnitsFinite
<1> QED
  BY <1>1, <1>3, FS_Subset

\* The amount of a pot is a natural number.
LEMMA PotAmountNat ==
  ASSUME TypeOK, AmountsBacked, NEW E
  PROVE  PotAmount(E) \in Nat
<1>1. CASE Contributors = {}
  BY <1>1 DEF PotAmount, AmountsBacked
<1>2. CASE Contributors # {}
  BY <1>2, PotChipsFinite, FS_CardinalityType DEF PotAmount, PotChips
<1> QED
  BY <1>1, <1>2

\* The main pot is one of the pots.
LEMMA MainPotIsPot ==
  ASSUME TypeOK
  PROVE  MainPot \in Pots
<1>1. CASE Contributors = {}
  BY <1>1 DEF MainPot, Pots
<1>2. CASE Contributors # {}
  <2>1. PICK p \in Contributors : TRUE
    BY <1>2
  <2>2. 1 \in 1..committed[p]
    BY <2>1 DEF Contributors, TypeOK
  <2> QED
    BY <1>2, <2>1, <2>2 DEF MainPot, Pots
<1> QED
  BY <1>1, <1>2

\* Every committed chip is in exactly one pot, so the pots add up to the commitments.
LEMMA PotsDivideCommitments ==
  ASSUME TypeOK, AmountsBacked, AbsentHaveNothing, Contributors # {}
  PROVE  Total([E \in Pots |-> PotAmount(E)]) = Total(committed)
<1> DEFINE A == [E \in Pots |-> PotChips(E)]
<1>1. \A E \in Pots : IsFiniteSet(A[E])
  BY PotChipsFinite
<1>2. ASSUME NEW E \in Pots, NEW F \in Pots, E # F
      PROVE  A[E] \cap A[F] = {}
  <2> SUFFICES ASSUME NEW c \in PotChips(E), c \in PotChips(F) PROVE FALSE
    OBVIOUS
  <2>1. PICK p \in Contributors : \E l \in 1..committed[p] : Eligible(l) = E /\ c = <<p, l>>
    BY PotChipsMember
  <2>2. PICK q \in Contributors : \E m \in 1..committed[q] : Eligible(m) = F /\ c = <<q, m>>
    BY PotChipsMember
  <2> QED
    BY <1>2, <2>1, <2>2
<1>3. DOMAIN committed = Players
  BY DEF TypeOK
<1>4. UNION {A[E] : E \in Pots} = Units(committed)
  <2>1. ASSUME NEW c \in UNION {A[E] : E \in Pots} PROVE c \in Units(committed)
    <3>1. PICK E \in Pots : c \in PotChips(E)
      OBVIOUS
    <3>2. PICK p \in Contributors : \E level \in 1..committed[p] : c = <<p, level>>
      BY <3>1, PotChipsMember
    <3>3. p \in Players
      BY DEF Contributors, TypeOK
    <3> QED
      BY <1>3, <3>2, <3>3, UnitsMember
  <2>2. ASSUME NEW c \in Units(committed) PROVE c \in UNION {A[E] : E \in Pots}
    <3>1. PICK p \in Players : \E level \in 1..committed[p] : c = <<p, level>>
      BY <1>3, UnitsMember
    <3>2. PICK level \in 1..committed[p] : c = <<p, level>>
      BY <3>1
    <3>3. committed[p] \in Nat /\ committed[p] > 0
      BY <3>2 DEF AmountsBacked
    <3>4. p \in Contributors
      BY <3>3 DEF Contributors, AbsentHaveNothing
    <3>5. Eligible(level) \in Pots
      BY <3>2, <3>4 DEF Pots
    <3>6. c \in PotChips(Eligible(level))
      BY <3>2, <3>4, PotChipsMember
    <3> QED
      BY <3>5, <3>6
  <2> QED
    BY <2>1, <2>2
<1>5. Total([E \in Pots |-> Cardinality(A[E])]) = Cardinality(UNION {A[E] : E \in Pots})
  <2> HIDE DEF A
  <2> QED
    BY <1>1, <1>2, PotsFinite, TotalDisjoint
<1>6. [E \in Pots |-> PotAmount(E)] = [E \in Pots |-> Cardinality(A[E])]
  BY DEF PotAmount, PotChips
<1> QED
  BY <1>4, <1>5, <1>6 DEF Total

\* With no contributor left at the table the whole pot is the one pot.
LEMMA OnePotIsAll ==
  ASSUME TypeOK, AmountsBacked, Contributors = {}
  PROVE  Total([E \in Pots |-> PotAmount(E)]) = pot
<1>1. Pots = {Live} /\ \A E \in Pots : PotAmount(E) = pot
  BY DEF Pots, PotAmount
<1>2. [E \in Pots |-> PotAmount(E)] = [E \in {Live} |-> IF E = Live THEN pot ELSE 0]
  BY <1>1
<1>3. IsFiniteSet({Live}) /\ pot \in Nat
  BY FS_Singleton DEF AmountsBacked
<1>4. Total([E \in {Live} |-> IF E = Live THEN pot ELSE 0]) = pot
  BY <1>3, TotalSingle
<1> QED
  BY <1>2, <1>4

-----------------------------------------------------------------------------
(***************************************************************************)
(* The winners divide the pots.                                            *)
(***************************************************************************)

\* What is left of pot E after the rake.
Net(E) == PotAmount(E) - (IF E = MainPot THEN Rake ELSE 0)

\* What the winners of pot E get together.
Given(E, rank) == IF Net(E) > 0 /\ PotWinners(E, rank) # {} THEN Net(E) ELSE 0

\* PotAwarded gives the winners of a pot, odd chips included, exactly what is in it.
LEMMA SharesDividePot ==
  ASSUME TypeOK, AmountsBacked, NEW E, NEW rank
  PROVE  /\ \A p \in Players : Share(E, p, rank) \in Nat
         /\ Total([p \in Players |-> Share(E, p, rank)]) = Given(E, rank)
<1> DEFINE W == PotWinners(E, rank)
<1> DEFINE shares == [p \in Players |-> Share(E, p, rank)]
<1>1. Net(E) \in Int
  BY PotAmountNat, RakeBounds DEF Net
<1>2. W \in SUBSET Players
  BY WinnersAreLive DEF Live, TypeOK
<1>3. IsFiniteSet(Players)
  BY PlayersAssumption
<1>4. CASE Net(E) <= 0 \/ W = {}
  <2>1. \A p \in Players : Share(E, p, rank) = 0
    BY <1>4 DEF Share, Net
  <2>2. shares \in [Players -> Int] /\ \A p \in Players : shares[p] = 0
    BY <2>1
  <2>3. Total(shares) = 0
    <3> HIDE DEF shares
    <3> QED
      BY <2>2, TotalZero
  <2>4. Given(E, rank) = 0
    BY <1>1, <1>4 DEF Given
  <2> QED
    BY <2>1, <2>3, <2>4
<1>5. CASE Net(E) > 0 /\ W # {}
  <2>1. First(W) \in W
    BY <1>2, <1>5, FirstPicks
  <2>2. IsFiniteSet(W)
    BY <1>2, <1>3, FS_Subset
  <2>3. Cardinality(W) \in Nat /\ Cardinality(W) # 0
    BY <1>5, <2>2, FS_CardinalityType, FS_EmptySet
  <2>4. Net(E) \in Nat
    BY <1>1, <1>5
  <2>5. Net(E) \div Cardinality(W) \in Nat /\ Net(E) % Cardinality(W) \in Nat
    <3>1. \A n \in Nat, k \in Nat \ {0} : n \div k \in Nat /\ n % k \in Nat
      OBVIOUS
    <3> QED
      BY <2>3, <2>4, <3>1
  <2>6. \A p \in Players : Share(E, p, rank) =
          (IF p \in W THEN Net(E) \div Cardinality(W) ELSE 0)
            + (IF p = First(W) THEN Net(E) % Cardinality(W) ELSE 0)
    BY <1>1, <1>5, <2>1, <2>5 DEF Share, Net
  <2> HIDE DEF W
  <2>7. shares \in [Players -> Nat] /\ \A p \in Players : shares[p] = Share(E, p, rank)
    BY <2>5, <2>6
  <2>8. Total(shares) = Net(E)
    <3> HIDE DEF shares
    <3> QED
      BY <1>2, <1>3, <2>1, <2>4, <2>6, <2>7, TotalShares
  <2>9. Given(E, rank) = Net(E)
    BY <1>5 DEF Given, W
  <2> QED
    BY <2>7, <2>8, <2>9
<1> QED
  BY <1>1, <1>4, <1>5

\* What a showdown pays the players is what it gives out pot by pot.
LEMMA PayoutsByPot ==
  ASSUME TypeOK, AmountsBacked, NEW rank
  PROVE  Total([p \in Players |-> Payout(p, rank)]) = Total([E \in Pots |-> Given(E, rank)])
<1> DEFINE M == [p \in Players |-> [E \in Pots |-> Share(E, p, rank)]]
<1>1. \A p \in Players : M[p] \in [Pots -> Nat]
  BY SharesDividePot
<1>2. [p \in Players |-> Payout(p, rank)] = [p \in Players |-> Total(M[p])]
  BY DEF Payout
<1>3. \A E \in Pots : Column(M, Players, E) = Given(E, rank)
  <2> TAKE E \in Pots
  <2>1. [p \in Players |-> M[p][E]] = [p \in Players |-> Share(E, p, rank)]
    OBVIOUS
  <2> QED
    BY <2>1, SharesDividePot DEF Column
<1>4. Total([p \in Players |-> Total(M[p])]) = Total([E \in Pots |-> Column(M, Players, E)])
  <2> HIDE DEF M
  <2> QED
    BY <1>1, PotsFinite, PlayersAssumption, TotalSwap
<1>5. [E \in Pots |-> Column(M, Players, E)] = [E \in Pots |-> Given(E, rank)]
  BY <1>3
<1> QED
  BY <1>2, <1>4, <1>5

\* A showdown never pays more than the pot holds after the rake; and when every pot
\* has a winner and the commitments make up the pot, it pays all of it.
LEMMA ShowdownPays ==
  ASSUME TypeOK, AmountsBacked, AbsentHaveNothing, Total(committed) <= pot,
         Rake <= PotAmount(MainPot), NEW rank
  PROVE  /\ Total([p \in Players |-> Payout(p, rank)]) + Rake <= pot
         /\ Total(committed) = pot /\ (\A E \in Pots : PotWinners(E, rank) # {}) =>
              Total([p \in Players |-> Payout(p, rank)]) + Rake = pot
<1> DEFINE given == [E \in Pots |-> Given(E, rank)]
<1> DEFINE rake == [E \in Pots |-> IF E = MainPot THEN Rake ELSE 0]
<1> DEFINE paid == [E \in Pots |-> Given(E, rank) + (IF E = MainPot THEN Rake ELSE 0)]
<1> DEFINE amounts == [E \in Pots |-> PotAmount(E)]
<1>1. Rake \in Nat /\ \A E \in Pots : PotAmount(E) \in Nat
  BY RakeBounds, PotAmountNat
<1>2. \A E \in Pots : Net(E) \in Nat /\ Given(E, rank) \in Nat
  BY <1>1 DEF Net, Given
<1>3. given \in [Pots -> Nat] /\ rake \in [Pots -> Nat] /\ paid \in [Pots -> Nat]
      /\ amounts \in [Pots -> Nat]
  BY <1>1, <1>2
<1>4. \A E \in Pots : paid[E] = given[E] + rake[E]
  OBVIOUS
<1>5. \A E \in Pots : paid[E] <= amounts[E]
  BY <1>1, <1>2 DEF Given, Net
<1>6. (\A E \in Pots : PotWinners(E, rank) # {}) => \A E \in Pots : paid[E] = amounts[E]
  BY <1>1, <1>2 DEF Given, Net
<1>7. Total(rake) = Rake
  BY <1>1, PotsFinite, MainPotIsPot, TotalSingle
<1>8. Total(amounts) = IF Contributors = {} THEN pot ELSE Total(committed)
  BY PotsDivideCommitments, OnePotIsAll
<1>9. Total([p \in Players |-> Payout(p, rank)]) = Total(given)
  BY PayoutsByPot
<1> HIDE DEF given, rake, paid, amounts
<1>10. Total(paid) = Total(given) + Total(rake)
  BY <1>3, <1>4, PotsFinite, TotalAdd
<1>11. Total(paid) <= Total(amounts)
  <2>1. paid \in [Pots -> Int] /\ amounts \in [Pots -> Int]
    BY <1>3
  <2> QED
    BY <1>5, <2>1, PotsFinite, TotalLeq
<1>12. (\A E \in Pots : PotWinners(E, rank) # {}) => paid = amounts
  BY <1>3, <1>6
<1>13. Total(given) \in Nat /\ Total(amounts) \in Nat /\ Total(paid) \in Nat
  <2>1. paid \in [Pots -> Int] /\ amounts \in [Pots -> Int] /\ given \in [Pots -> Int]
    BY <1>3
  <2> QED
    BY <2>1, PotsFinite, TotalType
<1>14. pot \in Nat /\ Total(amounts) <= pot /\ (Total(committed) = pot => Total(amounts) = pot)
  BY <1>8 DEF AmountsBacked
<1> QED
  BY <1>1, <1>7, <1>9, <1>10, <1>11, <1>12, <1>13, <1>14

-----------------------------------------------------------------------------
(***************************************************************************)
(* The books of the table, step by step.                                   *)
(***************************************************************************)

\* Every chip the wallets started with, wherever it is.
Books == Total(wallet) + Total(stack) + pot + house

\* The dropped hand takes its pot along.
NoPotBetweenHands == phase = "none" => pot = 0

\* Nothing is posted but the blinds.
NoAntes == Ante = 0 /\ BBAnte = 0

\* What the steps keep: amounts are natural numbers, users who are not at the table
\* have no chips there, and no pot outlives its hand.
Sound ==
  /\ TypeOK
  /\ StacksAndBetsSound
  /\ AbsentHaveNothing
  /\ NoPotBetweenHands

\* The sums of the books are natural numbers.
LEMMA BooksType ==
  ASSUME TypeOK, AmountsBacked
  PROVE  /\ Total(wallet) \in Nat /\ Total(stack) \in Nat /\ Total(committed) \in Nat
         /\ pot \in Nat /\ house \in Nat
<1>1. wallet \in [Players -> Int] /\ stack \in [Players -> Int] /\ committed \in [Players -> Int]
  BY DEF TypeOK
<1> QED
  BY <1>1, PlayersAssumption, TotalType DEF TypeOK, AmountsBacked

\* A sound state without antes has natural amounts.
LEMMA SoundAmounts ==
  ASSUME NoAntes, TypeOK, StacksAndBetsSound
  PROVE  AmountsBacked
BY BackedAmounts DEF NoAntes, StacksAndBetsSound

\* Chips put in move from the stack to the pot and to the player's commitment.
LEMMA BooksPutIn ==
  ASSUME TypeOK, AmountsBacked, NEW p \in Players, NEW amount \in Nat,
         amount <= stack[p], PutIn(p, amount), UNCHANGED bankVars
  PROVE  /\ Books' = Books
         /\ Total(committed') = Total(committed) + amount
         /\ pot' = pot + amount
<1>1. \A q \in Players : stack[q] \in Nat /\ committed[q] \in Nat
  BY DEF AmountsBacked
<1>2. stack' \in [Players -> Nat] /\ committed' \in [Players -> Nat]
  BY <1>1 DEF PutIn, AmountsBacked
<1>3. stack \in [Players -> Nat] /\ committed \in [Players -> Nat]
  BY DEF AmountsBacked
<1>4. stack'[p] = stack[p] - amount /\ committed'[p] = committed[p] + amount
  BY <1>3 DEF PutIn
<1>5. \A q \in Players : q # p => stack'[q] = stack[q] /\ committed'[q] = committed[q]
  BY <1>3 DEF PutIn
<1>6. Total(stack') = Total(stack) + stack'[p] - stack[p]
  BY <1>2, <1>3, <1>5, PlayersAssumption, TotalPoint
<1>7. Total(committed') = Total(committed) + committed'[p] - committed[p]
  BY <1>2, <1>3, <1>5, PlayersAssumption, TotalPoint
<1>8. pot' = pot + amount /\ wallet' = wallet /\ house' = house
  BY DEF PutIn, bankVars
<1> QED
  BY <1>1, <1>4, <1>6, <1>7, <1>8, BooksType DEF Books

\* Every betting command of a player moves some of the stack into the pot, or nothing.
LEMMA BettingPutsIn ==
  ASSUME NoAntes, TypeOK, StacksAndBetsSound, NEW p \in Players, Betting(p)
  PROVE  /\ p \in seated /\ phase # "none" /\ UNCHANGED <<phase, seated, bankVars>>
         /\ \/ UNCHANGED chipVars
            \/ \E amount \in Nat : amount <= stack[p] /\ PutIn(p, amount)
<1> USE DEF roundVars, turnVars, sessionVars, handVars, seatVars, bankVars,
        buttonVars
<1>1. p \in seated /\ phase # "none" /\ UNCHANGED <<phase, seated, bankVars>>
  BY DEF Betting, Fold, Check, Call, Bet, Raise, AllIn, CanAct
<1>2. bet[p] \in Nat /\ stack[p] \in Nat /\ highBet \in Nat /\ bet[p] <= highBet
  BY <1>1 DEF TypeOK, StacksAndBetsSound, BetsMatched, ChipsBacked, NoAntes
<1>3. CASE Fold(p) \/ Check(p)
  BY <1>1, <1>3 DEF Fold, Check
<1>4. CASE Call(p)
  <2>1. CallAmount(p) \in Nat /\ CallAmount(p) <= stack[p]
    BY <1>2 DEF CallAmount
  <2> QED
    BY <1>1, <1>4, <2>1 DEF Call
<1>5. ASSUME NEW amount \in 1..stack[p], Bet(p, amount)
      PROVE  \E a \in Nat : a <= stack[p] /\ PutIn(p, a)
  <2>1. highBet <= 0 /\ PutIn(p, amount - bet[p])
    BY <1>5 DEF Bet
  <2>2. amount - bet[p] \in Nat /\ amount - bet[p] <= stack[p]
    BY <1>2, <2>1
  <2> QED
    BY <2>1, <2>2
<1>6. ASSUME NEW to \in (highBet + 1)..(bet[p] + stack[p]), Raise(p, to)
      PROVE  \E a \in Nat : a <= stack[p] /\ PutIn(p, a)
  <2>1. PutIn(p, to - bet[p])
    BY <1>6 DEF Raise
  <2>2. to - bet[p] \in Nat /\ to - bet[p] <= stack[p]
    BY <1>2
  <2> QED
    BY <2>1, <2>2
<1>7. CASE AllIn(p)
  BY <1>1, <1>2, <1>7 DEF AllIn
<1> QED
  BY <1>1, <1>3, <1>4, <1>5, <1>6, <1>7 DEF Betting

\* A buy-in moves from the wallet to the stack.
LEMMA BooksJoin ==
  ASSUME TypeOK, AmountsBacked, AbsentHaveNothing, NEW p \in Players,
         NEW request, NEW buyIn \in BuyIns, Join(p, request, buyIn)
  PROVE  Books' = Books
<1>1. buyIn \in Nat /\ buyIn <= wallet[p] /\ p \notin seated
  BY BoundsAssumption DEF Join
<1>2. wallet \in [Players -> Nat] /\ stack \in [Players -> Nat]
  BY DEF AmountsBacked, TypeOK
<1>3. stack' = [stack EXCEPT ![p] = buyIn] /\ wallet' = [wallet EXCEPT ![p] = @ - buyIn]
      /\ UNCHANGED <<pot, house>>
  BY DEF Join
<1>4. wallet' \in [Players -> Nat] /\ stack' \in [Players -> Nat]
  BY <1>1, <1>2, <1>3
<1>5. /\ stack'[p] = buyIn /\ stack[p] = 0 /\ wallet'[p] = wallet[p] - buyIn
      /\ \A q \in Players : q # p => stack'[q] = stack[q] /\ wallet'[q] = wallet[q]
  BY <1>1, <1>2, <1>3 DEF AbsentHaveNothing
<1>6. Total(stack') = Total(stack) + stack'[p] - stack[p]
  BY <1>2, <1>4, <1>5, PlayersAssumption, TotalPoint
<1>7. Total(wallet') = Total(wallet) + wallet'[p] - wallet[p]
  BY <1>2, <1>4, <1>5, PlayersAssumption, TotalPoint
<1>8. wallet[p] \in Nat
  BY <1>2
<1> QED
  BY <1>1, <1>3, <1>5, <1>6, <1>7, <1>8, BooksType DEF Books

\* A cash-out moves the stack to the wallet; the player's commitments stay in the pot.
LEMMA BooksLeave ==
  ASSUME TypeOK, AmountsBacked, NEW p \in Players, Leave(p)
  PROVE  Books' = Books /\ pot' = pot /\ Total(committed') <= Total(committed)
<1>1. /\ wallet \in [Players -> Nat] /\ stack \in [Players -> Nat]
      /\ committed \in [Players -> Nat]
  BY DEF AmountsBacked, TypeOK
<1>2. /\ stack' = [stack EXCEPT ![p] = 0] /\ committed' = [committed EXCEPT ![p] = 0]
      /\ wallet' = [wallet EXCEPT ![p] = IF stack[p] > 0 THEN @ + stack[p] ELSE @]
      /\ UNCHANGED <<pot, house>>
  BY DEF Leave, RemovePlayer, DropChips
<1>3. wallet[p] \in Nat /\ stack[p] \in Nat /\ committed[p] \in Nat
  BY <1>1
<1>4. /\ wallet' \in [Players -> Nat] /\ stack' \in [Players -> Nat]
      /\ committed' \in [Players -> Nat]
  BY <1>1, <1>2, <1>3
<1>5. stack'[p] = 0 /\ wallet'[p] = wallet[p] + stack[p] /\ committed'[p] = 0
  BY <1>1, <1>2, <1>3
<1>6. \A q \in Players : q # p => /\ stack'[q] = stack[q] /\ wallet'[q] = wallet[q]
                                  /\ committed'[q] = committed[q]
  BY <1>1, <1>2
<1>7. Total(stack') = Total(stack) + stack'[p] - stack[p]
  BY <1>1, <1>4, <1>6, PlayersAssumption, TotalPoint
<1>8. Total(wallet') = Total(wallet) + wallet'[p] - wallet[p]
  BY <1>1, <1>4, <1>6, PlayersAssumption, TotalPoint
<1>9. Total(committed') = Total(committed) + committed'[p] - committed[p]
  BY <1>1, <1>4, <1>6, PlayersAssumption, TotalPoint
<1> QED
  BY <1>2, <1>3, <1>5, <1>7, <1>8, <1>9, BooksType DEF Books

\* A new hand: what is posted is taken from the stacks of active players and makes up
\* the pot; everybody listed is active and has to act.
LEMMA NewHandChips ==
  ASSUME TypeOK, StartNewHand
  PROVE  /\ phase = "none" /\ phase' = "preflop" /\ pot' = Total(committed')
         /\ committed' \in [Players -> Nat]
         /\ \A p \in Players : stack'[p] = stack[p] - committed'[p]
         /\ \A p \in Players \ Active : committed'[p] = 0 /\ bet'[p] = 0
         /\ NoAntes => committed' = bet'
         /\ \A p \in Players : order'[p] > 0 <=> p \in Active
         /\ pending' = Active /\ folded' = {} /\ allIn' = {}
         /\ UNCHANGED <<seated, sittingOut, bankVars>>
<1> DEFINE d == NewDealer
<1> DEFINE sb == IF Cardinality(Active) = 2 THEN d ELSE Clockwise(Active, seat[d])
<1> DEFINE bb == Clockwise(Active, seat[sb])
<1> DEFINE ante == [p \in Players |->
                      IF p \notin Active THEN 0
                      ELSE Capped(p, Ante) + (IF p = bb THEN Capped(p, BBAnte) ELSE 0)]
<1> DEFINE blind == [p \in Players |->
                       IF p = sb THEN Capped(p, SmallBlind)
                       ELSE IF p = bb THEN Capped(p, BigBlind) ELSE 0]
<1>1. Active \in SUBSET Players /\ sb \in Active /\ bb \in Active
  BY NewHandPlayers DEF StartNewHand
<1>2. /\ bet' = blind
      /\ committed' = [p \in Players |-> ante[p] + blind[p]]
      /\ stack' = [p \in Players |-> stack[p] - (ante[p] + blind[p])]
      /\ pot' = Total(committed')
      /\ phase = "none" /\ phase' = "preflop" /\ order' = RotateAfter(Active, bb)
      /\ pending' = Active /\ folded' = {} /\ allIn' = {}
      /\ UNCHANGED <<seatVars, bankVars, sittingOut>>
  BY DEF StartNewHand, BlindsPosted, HandStarted
<1>3. \A p \in Active, a \in Nat : Capped(p, a) \in Nat /\ Capped(p, 0) = 0
  BY <1>1 DEF Capped, Active, TypeOK
<1>4. SmallBlind \in Nat /\ BigBlind \in Nat /\ Ante \in Nat /\ BBAnte \in Nat
  BY ConfigAssumption
<1> HIDE DEF d, sb, bb
<1>5. ante \in [Players -> Nat] /\ blind \in [Players -> Nat]
  BY <1>1, <1>3, <1>4
<1>6. \A p \in Players \ Active : ante[p] = 0 /\ blind[p] = 0
  BY <1>1
<1>7. NoAntes => \A p \in Players : ante[p] = 0
  BY <1>3 DEF NoAntes
<1> HIDE DEF ante, blind
<1>8. committed' \in [Players -> Nat] /\ \A p \in Players : committed'[p] = ante[p] + blind[p]
  BY <1>2, <1>5
<1>9. \A p \in Players : stack'[p] = stack[p] - committed'[p]
  BY <1>2, <1>8
<1>10. \A p \in Players \ Active : committed'[p] = 0 /\ bet'[p] = 0
  BY <1>2, <1>6, <1>8
<1>11. NoAntes => committed' = bet'
  BY <1>2, <1>5, <1>7, <1>8
<1>12. \A p \in Players : order'[p] > 0 <=> p \in Active
  BY <1>1, <1>2, RotateAfterLists
<1> QED
  BY <1>2, <1>8, <1>9, <1>10, <1>11, <1>12 DEF seatVars

\* The blinds move from the stacks to the new pot.
LEMMA BooksStartNewHand ==
  ASSUME NoAntes, Sound, StartNewHand
  PROVE  Books' = Books
<1>1. TypeOK /\ AmountsBacked
  BY SoundAmounts DEF Sound
<1>2. TypeOK' /\ StacksAndBetsSound'
  BY TypeOKStartNewHand, SoundStartNewHand DEF Sound
<1>3. stack' \in [Players -> Nat]
  <2>1. ChipsBacked'
    BY <1>2 DEF StacksAndBetsSound, NoAntes
  <2>2. \A p \in Players : stack'[p] \in Nat
    BY <1>2, <2>1 DEF TypeOK, ChipsBacked
  <2> QED
    BY <1>2, <2>2 DEF TypeOK
<1>4. /\ phase = "none" /\ pot' = Total(committed')
      /\ committed' \in [Players -> Nat]
      /\ \A p \in Players : stack'[p] = stack[p] - committed'[p]
      /\ wallet' = wallet /\ house' = house
  BY <1>1, NewHandChips DEF bankVars
<1>5. \A p \in Players : stack[p] = stack'[p] + committed'[p]
  <2>1. \A p \in Players : stack[p] \in Nat /\ committed'[p] \in Nat
    BY <1>1, <1>4 DEF AmountsBacked
  <2> QED
    BY <1>4, <2>1
<1>6. Total(stack) = Total(stack') + Total(committed')
  <2>1. stack \in [Players -> Nat]
    BY <1>1 DEF AmountsBacked
  <2> QED
    BY <1>3, <1>4, <1>5, <2>1, PlayersAssumption, TotalAdd
<1>7. pot = 0
  BY <1>4 DEF Sound, NoPotBetweenHands
<1>8. Total(stack') \in Nat /\ Total(committed') \in Nat
  <2>1. stack' \in [Players -> Int] /\ committed' \in [Players -> Int]
    BY <1>3, <1>4
  <2> QED
    BY <2>1, PlayersAssumption, TotalType
<1> QED
  BY <1>1, <1>4, <1>6, <1>7, <1>8, BooksType DEF Books

\* The last player left takes the pot without the rake.
LEMMA BooksUncontested ==
  ASSUME TypeOK, AmountsBacked, NEW winner \in Players, EndHandUncontested(winner)
  PROVE  Books' = Books
<1>1. stack \in [Players -> Nat] /\ pot \in Nat /\ Rake \in Nat /\ Rake <= pot
  BY RakeBounds DEF AmountsBacked
<1>2. /\ stack' = [stack EXCEPT ![winner] = @ + (pot - Rake)]
      /\ pot' = 0 /\ house' = house + Rake /\ wallet' = wallet
  BY DEF EndHandUncontested, HandEnded
<1>3. stack[winner] \in Nat
  BY <1>1
<1>4. stack' \in [Players -> Nat] /\ stack'[winner] = stack[winner] + (pot - Rake)
  BY <1>1, <1>2, <1>3
<1>5. \A q \in Players : q # winner => stack'[q] = stack[q]
  BY <1>1, <1>2
<1>6. Total(stack') = Total(stack) + stack'[winner] - stack[winner]
  BY <1>1, <1>4, <1>5, PlayersAssumption, TotalPoint
<1> QED
  BY <1>1, <1>2, <1>3, <1>4, <1>6, BooksType DEF Books

\* A showdown pays at most the pot, and exactly the pot when it is made up of the
\* commitments and every part of it has a winner.
LEMMA BooksShowdown ==
  ASSUME TypeOK, AmountsBacked, AbsentHaveNothing, Total(committed) <= pot,
         Rake <= PotAmount(MainPot), NEW rank, EndHandShowdown(rank)
  PROVE  /\ Books' <= Books
         /\ Total(committed) = pot /\ (\A E \in Pots : PotWinners(E, rank) # {}) =>
              Books' = Books
<1> DEFINE payouts == [p \in Players |-> Payout(p, rank)]
<1>1. stack \in [Players -> Nat] /\ pot \in Nat /\ Rake \in Nat
  BY RakeBounds DEF AmountsBacked
<1>2. payouts \in [Players -> Nat]
  BY PayoutType
<1>3. /\ stack' = [p \in Players |-> stack[p] + Payout(p, rank)]
      /\ pot' = 0 /\ house' = house + Rake /\ wallet' = wallet
  BY DEF EndHandShowdown, HandEnded
<1>4. stack' \in [Players -> Nat] /\ \A p \in Players : stack'[p] = stack[p] + payouts[p]
  BY <1>1, <1>2, <1>3
<1>5. /\ Total(payouts) + Rake <= pot
      /\ Total(committed) = pot /\ (\A E \in Pots : PotWinners(E, rank) # {}) =>
           Total(payouts) + Rake = pot
  BY ShowdownPays
<1> HIDE DEF payouts
<1>6. Total(stack') = Total(stack) + Total(payouts)
  BY <1>1, <1>2, <1>4, PlayersAssumption, TotalAdd
<1>7. Total(payouts) \in Nat
  <2>1. payouts \in [Players -> Int]
    BY <1>2
  <2> QED
    BY <2>1, PlayersAssumption, TotalType
<1> QED
  BY <1>1, <1>3, <1>5, <1>6, <1>7, BooksType DEF Books

\* The winner of a pot is at the table; nobody else is paid.
LEMMA AbsentGetNothing ==
  ASSUME TypeOK, NEW p \in Players \ seated, NEW rank
  PROVE  Payout(p, rank) = 0
<1> DEFINE f == [E \in Pots |-> Share(E, p, rank)]
<1>1. ASSUME NEW E
      PROVE  Share(E, p, rank) = 0
  <2>1. p \notin PotWinners(E, rank)
    BY WinnersAreLive DEF Live
  <2> QED
    BY <2>1 DEF Share
<1>2. f \in [Pots -> Int] /\ \A E \in Pots : f[E] = 0
  BY <1>1
<1> HIDE DEF f
<1>3. Total(f) = 0
  BY <1>2, TotalZero
<1> QED
  BY <1>3 DEF Payout, f

\* A step that moves no chips; a new street resets the bets of the round.
IdleStep ==
  /\ UNCHANGED <<stack, committed, pot, seated, bankVars>>
  /\ bet' = bet \/ bet' = NoChips
  /\ phase' = "none" <=> phase = "none"

\* Player p puts amount into the pot.
BetStep(p, amount) ==
  /\ p \in seated
  /\ phase # "none"
  /\ UNCHANGED <<phase, seated, bankVars>>
  /\ amount <= stack[p]
  /\ PutIn(p, amount)

\* A step of the clock, a rejected command, or one that starts no hand, street or end.
LEMMA IdleClock ==
  ASSUME OtherCommand \/ Clock \/ UNCHANGED vars
  PROVE  IdleStep
BY DEF IdleStep, OtherCommand, Clock, DeadlinePasses, DeadlineTimer, SessionEnds, vars, chipVars,
       handVars, seatVars, bankVars

\* The steps of the lifecycle loop that move no chips.
LEMMA IdleAdvance ==
  ASSUME TypeOK, Advance
  PROVE  \/ IdleStep
         \/ StartNewHand
         \/ \E winner \in Players : EndHandUncontested(winner)
         \/ \E rank \in [Evaluated -> HandRanks] : EndHandShowdown(rank)
<1>1. CASE AdvanceStreet
  <2>1. phase # "none" /\ phase' # "none"
    BY <1>1 DEF AdvanceStreet, RoundEnded, InHand, NextPhase, TypeOK, Phases
  <2>2. UNCHANGED <<stack, committed, pot, seated, bankVars>> /\ bet' = NoChips
    BY <1>1 DEF AdvanceStreet, ResetStreetState, seatVars
  <2> QED
    BY <2>1, <2>2 DEF IdleStep
<1>2. CASE SatOutBusted \/ QuiesceIdle \/ QuiesceNoWinner \/ QuiesceWaiting
           \/ TimeoutAction \/ StartNextAction
  BY <1>2 DEF IdleStep, SatOutBusted, QuiesceIdle, QuiesceNoWinner, QuiesceWaiting,
              Quiesce, TimeoutAction, StartNextAction, chipVars, handVars, seatVars, bankVars
<1> QED
  BY <1>1, <1>2 DEF Advance

\* Every step of a table without antes, by what it does to the chips.
LEMMA ChipSteps ==
  ASSUME NoAntes, TypeOK, StacksAndBetsSound, [Next]_vars
  PROVE  \/ IdleStep
         \/ \E p \in Players : \E amount \in Nat : BetStep(p, amount)
         \/ \E p \in Players, request \in SeatRequests, buyIn \in BuyIns :
              Join(p, request, buyIn)
         \/ \E p \in Players : Leave(p)
         \/ StartNewHand
         \/ \E winner \in Players : EndHandUncontested(winner)
         \/ \E rank \in [Evaluated -> HandRanks] : EndHandShowdown(rank)
<1>1. ASSUME NEW p \in Players, Betting(p)
      PROVE  IdleStep \/ \E amount \in Nat : BetStep(p, amount)
  BY <1>1, BettingPutsIn DEF IdleStep, BetStep, chipVars
<1>2. ASSUME NEW p \in Players, SitOut(p) \/ SitIn(p)
      PROVE  IdleStep
  BY <1>2 DEF IdleStep, SitOut, SitIn, chipVars, handVars, seatVars
<1> QED
  BY <1>1, <1>2, IdleClock, IdleAdvance DEF Next, Seating

\* Sound is inductive.
LEMMA SoundNext ==
  ASSUME NoAntes, Sound, [Next]_vars
  PROVE  Sound'
<1>1. TypeOK /\ StacksAndBetsSound /\ AbsentHaveNothing /\ NoPotBetweenHands
  BY DEF Sound
<1>2. TypeOK' /\ StacksAndBetsSound'
  BY <1>1, StacksAndBetsNext
<1>3. \A p \in Players : NoChips[p] = 0
  BY DEF NoChips
<1>4. SUFFICES AbsentHaveNothing' /\ NoPotBetweenHands'
  BY <1>2 DEF Sound
<1>5. CASE IdleStep
  BY <1>1, <1>3, <1>5 DEF IdleStep, AbsentHaveNothing, NoPotBetweenHands
<1>6. ASSUME NEW p \in Players, NEW amount \in Nat, BetStep(p, amount)
      PROVE  AbsentHaveNothing' /\ NoPotBetweenHands'
  <2>1. \A q \in Players \ seated : /\ stack'[q] = stack[q] /\ bet'[q] = bet[q]
                                    /\ committed'[q] = committed[q]
    BY <1>1, <1>6 DEF BetStep, PutIn, TypeOK
  <2> QED
    BY <1>1, <1>6, <2>1 DEF BetStep, AbsentHaveNothing, NoPotBetweenHands
<1>7. ASSUME NEW p \in Players, NEW request, NEW buyIn \in BuyIns, Join(p, request, buyIn)
      PROVE  AbsentHaveNothing' /\ NoPotBetweenHands'
  <2>1. /\ seated' = seated \cup {p} /\ UNCHANGED <<bet, committed, pot, phase>>
        /\ \A q \in Players : q # p => stack'[q] = stack[q]
    BY <1>1, <1>7 DEF Join, handVars, TypeOK
  <2> QED
    BY <1>1, <2>1 DEF AbsentHaveNothing, NoPotBetweenHands
<1>8. ASSUME NEW p \in Players, Leave(p)
      PROVE  AbsentHaveNothing' /\ NoPotBetweenHands'
  <2>1. /\ seated' = seated \ {p} /\ UNCHANGED <<pot, phase>>
    BY <1>8 DEF Leave, RemovePlayer
  <2>2. \A q \in Players :
          /\ stack'[q] = IF q = p THEN 0 ELSE stack[q]
          /\ bet'[q] = IF q = p THEN 0 ELSE bet[q]
          /\ committed'[q] = IF q = p THEN 0 ELSE committed[q]
    BY <1>1, <1>8 DEF Leave, RemovePlayer, DropChips, TypeOK
  <2> QED
    BY <1>1, <2>1, <2>2 DEF AbsentHaveNothing, NoPotBetweenHands
<1>9. CASE StartNewHand
  <2>1. /\ phase' = "preflop" /\ seated' = seated
        /\ \A p \in Players : stack'[p] = stack[p] - committed'[p]
        /\ \A p \in Players \ Active : committed'[p] = 0 /\ bet'[p] = 0
    BY <1>1, <1>9, NewHandChips
  <2>2. Active \subseteq seated
    BY DEF Active
  <2> QED
    BY <1>1, <2>1, <2>2 DEF AbsentHaveNothing, NoPotBetweenHands
<1>10. ASSUME NEW winner \in Players, EndHandUncontested(winner)
       PROVE  AbsentHaveNothing' /\ NoPotBetweenHands'
  <2>1. winner \in seated
    BY <1>10 DEF EndHandUncontested, Live
  <2>2. UNCHANGED <<seated, bet, committed>> /\ pot' = 0
    BY <1>10 DEF EndHandUncontested, HandEnded, seatVars
  <2>3. \A q \in Players : q # winner => stack'[q] = stack[q]
    BY <1>1, <1>10 DEF EndHandUncontested, TypeOK
  <2> QED
    BY <1>1, <2>1, <2>2, <2>3 DEF AbsentHaveNothing, NoPotBetweenHands
<1>11. ASSUME NEW rank, EndHandShowdown(rank)
       PROVE  AbsentHaveNothing' /\ NoPotBetweenHands'
  <2>1. UNCHANGED <<seated, committed>> /\ bet' = NoChips /\ pot' = 0
    BY <1>11 DEF EndHandShowdown, HandEnded, seatVars
  <2>2. \A q \in Players \ seated : stack'[q] = stack[q] + 0
    BY <1>1, <1>11, AbsentGetNothing DEF EndHandShowdown
  <2> QED
    BY <1>1, <1>3, <2>1, <2>2 DEF AbsentHaveNothing, NoPotBetweenHands
<1> QED
  BY <1>1, <1>5, <1>6, <1>7, <1>8, <1>9, <1>10, <1>11, ChipSteps

-----------------------------------------------------------------------------
(***************************************************************************)
(* Tables whose players come and go at any time: nothing is created.       *)
(***************************************************************************)

\* What the players at the table have committed is in the pot; those who left in the
\* middle of the hand have left more in it.
CommitmentsInPot == phase # "none" => Total(committed) <= pot

\* The wallets start with all the chips there are.
LEMMA BooksInit ==
  ASSUME Init
  PROVE  Sound /\ Books = Cardinality(Players) * Balance
<1>1. TypeOK
  BY TypeOKInit
<1>2. phase = "none" /\ pot = 0 /\ house = 0 /\ stack = NoChips
      /\ wallet = [p \in Players |-> Balance]
      /\ \A p \in Players : stack[p] = 0 /\ bet[p] = 0 /\ committed[p] = 0
  BY DEF Init, NoChips
<1>3. Sound
  BY <1>1, <1>2 DEF Sound, StacksAndBetsSound, BetsMatched, ChipsBacked,
                    AbsentHaveNothing, NoPotBetweenHands
<1>4. Total(stack) = 0
  <2>1. stack \in [Players -> Int]
    BY <1>1 DEF TypeOK
  <2> QED
    BY <1>2, <2>1, TotalZero
<1>5. wallet = [p \in Players |-> IF p \in Players THEN Balance ELSE 0]
  BY <1>2
<1>6. Total(wallet) = Cardinality(Players) * Balance
  BY <1>5, PlayersAssumption, BoundsAssumption, TotalUniform
<1>7. Total(wallet) \in Nat
  <2>1. wallet \in [Players -> Int]
    BY <1>1 DEF TypeOK
  <2> QED
    BY <2>1, PlayersAssumption, TotalType
<1> QED
  BY <1>2, <1>3, <1>4, <1>6, <1>7 DEF Books

\* Steps other than a showdown keep the books and the commitments in the pot.
LEMMA CommitmentsInPotNext ==
  ASSUME NoAntes, Sound, CommitmentsInPot, RakeFits, [Next]_vars
  PROVE  CommitmentsInPot' /\ Books' <= Books
<1>1. /\ TypeOK /\ StacksAndBetsSound /\ AbsentHaveNothing /\ NoPotBetweenHands
      /\ AmountsBacked
  BY SoundAmounts DEF Sound
<1>2. /\ Total(wallet) \in Nat /\ Total(stack) \in Nat /\ Total(committed) \in Nat
      /\ pot \in Nat /\ house \in Nat
  BY <1>1, BooksType
<1>3. Books \in Nat
  BY <1>2 DEF Books
<1>4. CASE IdleStep
  BY <1>3, <1>4 DEF IdleStep, CommitmentsInPot, Books, bankVars
<1>5. ASSUME NEW p \in Players, NEW amount \in Nat, BetStep(p, amount)
      PROVE  CommitmentsInPot' /\ Books' <= Books
  <2>1. /\ Books' = Books /\ Total(committed') = Total(committed) + amount
        /\ pot' = pot + amount
    BY <1>1, <1>5, BooksPutIn DEF BetStep
  <2>2. phase # "none"
    BY <1>5 DEF BetStep
  <2> QED
    BY <1>2, <1>3, <2>1, <2>2 DEF CommitmentsInPot
<1>6. ASSUME NEW p \in Players, NEW request, NEW buyIn \in BuyIns, Join(p, request, buyIn)
      PROVE  CommitmentsInPot' /\ Books' <= Books
  <2>1. Books' = Books
    BY <1>1, <1>6, BooksJoin
  <2>2. UNCHANGED <<committed, pot, phase>>
    BY <1>6 DEF Join, handVars
  <2> QED
    BY <1>3, <2>1, <2>2 DEF CommitmentsInPot
<1>7. ASSUME NEW p \in Players, Leave(p)
      PROVE  CommitmentsInPot' /\ Books' <= Books
  <2>1. Books' = Books /\ pot' = pot /\ Total(committed') <= Total(committed)
    BY <1>1, <1>7, BooksLeave
  <2>2. phase' = phase
    BY <1>7 DEF Leave
  <2>3. Total(committed') \in Nat
    <3>1. committed' \in [Players -> Int]
      BY <1>1, <1>7 DEF Leave, RemovePlayer, DropChips, TypeOK
    <3> QED
      BY <3>1, PlayersAssumption, TotalType
  <2> QED
    BY <1>2, <1>3, <2>1, <2>2, <2>3 DEF CommitmentsInPot
<1>8. CASE StartNewHand
  <2>1. Books' = Books /\ pot' = Total(committed') /\ committed' \in [Players -> Nat]
    BY <1>1, <1>8, BooksStartNewHand, NewHandChips
  <2>2. Total(committed') \in Nat
    <3>1. committed' \in [Players -> Int]
      BY <2>1
    <3> QED
      BY <3>1, PlayersAssumption, TotalType
  <2> QED
    BY <1>3, <2>1, <2>2 DEF CommitmentsInPot
<1>9. ASSUME NEW winner \in Players, EndHandUncontested(winner)
      PROVE  CommitmentsInPot' /\ Books' <= Books
  <2>1. Books' = Books /\ phase' = "none"
    BY <1>1, <1>9, BooksUncontested DEF EndHandUncontested, HandEnded
  <2> QED
    BY <1>3, <2>1 DEF CommitmentsInPot
<1>10. ASSUME NEW rank, EndHandShowdown(rank)
       PROVE  CommitmentsInPot' /\ Books' <= Books
  <2>1. phase = "river" /\ phase' = "none"
    BY <1>10 DEF EndHandShowdown, HandEnded
  <2>2. Books' <= Books
    BY <1>1, <1>10, <2>1, BooksShowdown DEF CommitmentsInPot, RakeFits
  <2> QED
    BY <2>1, <2>2 DEF CommitmentsInPot
<1> QED
  BY <1>1, <1>4, <1>5, <1>6, <1>7, <1>8, <1>9, <1>10, ChipSteps

\* The invariant behind NoChipsCreated.
CreationInv == Sound /\ CommitmentsInPot /\ NoChipsCreated

\* A new table satisfies CreationInv.
LEMMA CreationInvInit ==
  ASSUME Init
  PROVE  CreationInv
<1>1. Sound /\ Books = Cardinality(Players) * Balance
  BY BooksInit
<1>2. phase = "none"
  BY DEF Init
<1>3. Cardinality(Players) * Balance \in Int
  BY PlayersAssumption, BoundsAssumption, FS_CardinalityType
<1> QED
  BY <1>1, <1>2, <1>3 DEF CreationInv, CommitmentsInPot, NoChipsCreated, Books

\* CreationInv is inductive as long as the rake fits into the main pot.
LEMMA CreationInvNext ==
  ASSUME NoAntes, CreationInv, RakeFits, [Next]_vars
  PROVE  CreationInv'
<1>1. Sound /\ CommitmentsInPot /\ Books <= Cardinality(Players) * Balance
  BY DEF CreationInv, NoChipsCreated, Books
<1>2. Sound' /\ CommitmentsInPot' /\ Books' <= Books
  BY <1>1, SoundNext, CommitmentsInPotNext
<1>3. Books \in Int /\ Books' \in Int
  <2>1. AmountsBacked /\ TypeOK
    BY <1>1, SoundAmounts DEF Sound
  <2>2. Books \in Int
    BY <2>1, BooksType DEF Books
  <2>3. TypeOK' /\ ChipsBacked'
    BY <1>2 DEF Sound, StacksAndBetsSound, NoAntes
  <2>4. wallet' \in [Players -> Int] /\ stack' \in [Players -> Int] /\ pot' \in Int
        /\ house' \in Int
    BY <2>3 DEF TypeOK
  <2>5. Total(wallet') \in Nat /\ Total(stack') \in Nat
    BY <2>4, PlayersAssumption, TotalType
  <2> QED
    BY <2>2, <2>4, <2>5 DEF Books
<1>4. Cardinality(Players) * Balance \in Int
  BY PlayersAssumption, BoundsAssumption, FS_CardinalityType
<1>5. Books' <= Cardinality(Players) * Balance
  BY <1>1, <1>2, <1>3, <1>4
<1> QED
  BY <1>2, <1>5 DEF CreationInv, NoChipsCreated, Books

\* On every table without antes, with any number of players who join, leave and pause at
\* any time, no chips are ever created, as long as no rake exceeds the main pot it is
\* deducted from.
THEOREM TableCreatesNoChips ==
  ASSUME NoAntes
  PROVE  Spec /\ []RakeFits => []NoChipsCreated
<1>1. Init => CreationInv
  BY CreationInvInit
<1>2. CreationInv /\ RakeFits /\ [Next]_vars => CreationInv'
  BY CreationInvNext
<1>3. CreationInv => NoChipsCreated
  BY DEF CreationInv
<1> QED
  BY <1>1, <1>2, <1>3, PTL DEF Spec

\* No rake, or a cap of one chip.
SmallRake == RakeBps = 0 \/ RakeCap = 1

\* A rake of at most one chip fits into every main pot.
LEMMA SmallRakeFits ==
  ASSUME NoAntes, SmallRake, Sound
  PROVE  RakeFits
<1>1. TypeOK /\ AmountsBacked
  BY SoundAmounts DEF Sound
<1>2. pot \in Nat /\ Rake \in Nat /\ Rake <= pot /\ PotAmount(MainPot) \in Nat
  BY <1>1, RakeBounds, PotAmountNat DEF AmountsBacked
<1>3. CASE Contributors = {}
  BY <1>2, <1>3 DEF PotAmount, RakeFits
<1>4. CASE Contributors # {}
  <2>1. PICK p \in Contributors : TRUE
    BY <1>4
  <2>2. 1 \in 1..committed[p]
    BY <1>1, <2>1 DEF Contributors, TypeOK
  <2>3. <<p, 1>> \in PotChips(MainPot)
    BY <1>4, <2>1, <2>2, PotChipsMember DEF MainPot
  <2>4. PotAmount(MainPot) = Cardinality(PotChips(MainPot)) /\ IsFiniteSet(PotChips(MainPot))
    BY <1>1, <1>4, PotChipsFinite DEF PotAmount, PotChips
  <2>5. PotAmount(MainPot) # 0
    BY <2>3, <2>4, FS_EmptySet
  <2>6. Rake <= 1
    <3>1. CASE RakeBps = 0
      BY <1>2, <3>1 DEF Rake
    <3>2. CASE RakeCap = 1
      <4>1. (pot * RakeBps) \div 10000 \in Nat
        BY <1>2, ConfigAssumption
      <4> QED
        BY <1>2, <3>2, <4>1 DEF Rake
    <3> QED
      BY <3>1, <3>2 DEF SmallRake
  <2> QED
    BY <1>2, <2>5, <2>6 DEF RakeFits
<1> QED
  BY <1>3, <1>4

\* On such a table no chips are created at all.
THEOREM SmallRakeCreatesNoChips ==
  ASSUME NoAntes, SmallRake
  PROVE  Spec => []NoChipsCreated
<1>1. Init => CreationInv
  BY CreationInvInit
<1>2. CreationInv /\ [Next]_vars => CreationInv'
  BY CreationInvNext, SmallRakeFits DEF CreationInv
<1>3. CreationInv => NoChipsCreated
  BY DEF CreationInv
<1> QED
  BY <1>1, <1>2, <1>3, PTL DEF Spec

-----------------------------------------------------------------------------
(***************************************************************************)
(* The betting round, on a table whose players come and go between hands.  *)
(***************************************************************************)

\* Whoever could still be dealt in is in the action order: a street that lists the
\* active players again adds nobody.
ActiveListed == phase # "none" => \A p \in Active : order[p] > 0

\* Whoever has acted and has chips left has matched the highest bet.
ActedHaveMatched ==
  phase # "none" => \A p \in Live \ pending : stack[p] > 0 => bet[p] = highBet

\* Whoever is all-in has nothing left.
AllInSpent == phase # "none" => \A p \in allIn : stack[p] = 0

\* What the betting round keeps.
RoundInv ==
  /\ TypeOK
  /\ StacksAndBetsSound
  /\ ActingIsFirstPending
  /\ ActiveListed
  /\ ActedHaveMatched
  /\ AllInSpent

\* The part of a betting step that concerns one player p who has to act.
TurnStep(p) ==
  /\ phase # "none" /\ p \in pending
  /\ UNCHANGED <<phase, order, seated, sittingOut>>
  /\ \A q \in Players : q # p => /\ stack'[q] = stack[q] /\ bet'[q] = bet[q]
                                 /\ committed'[q] = committed[q]
  /\ committed'[p] - bet'[p] = committed[p] - bet[p]
  /\ stack'[p] > 0 => stack[p] > 0
  /\ allIn' \subseteq allIn \cup {p}
  /\ p \in allIn' => stack'[p] = 0 \/ (p \in allIn /\ stack'[p] = stack[p])

\* Player p folds, checks or calls, or the clock does it for p.
PassStep(p) ==
  /\ TurnStep(p)
  /\ highBet' = highBet
  /\ pending' = pending \ {p}
  /\ folded \subseteq folded' /\ folded' \subseteq folded \cup {p}
  /\ p \in Live' => stack'[p] <= 0 \/ bet'[p] = highBet'

\* Player p bets or raises; everybody who can still respond has to.
RaiseStep(p) ==
  /\ TurnStep(p)
  /\ highBet' >= highBet
  /\ p \in Live
  /\ bet'[p] = highBet'
  /\ pending' = OthersInOrder(p)
  /\ folded' = folded

\* A step that leaves the hand alone.
QuietStep ==
  UNCHANGED <<phase, stack, bet, committed, order, seated, sittingOut, folded, allIn,
              highBet, pending>>

\* Chips put in by p, whatever the amount.
LEMMA PutInEffect ==
  ASSUME TypeOK, NEW p \in Players, NEW amount \in Int, PutIn(p, amount)
  PROVE  /\ \A q \in Players : q # p => /\ stack'[q] = stack[q] /\ bet'[q] = bet[q]
                                        /\ committed'[q] = committed[q]
         /\ stack'[p] = stack[p] - amount /\ bet'[p] = bet[p] + amount
         /\ committed'[p] - bet'[p] = committed[p] - bet[p]
<1>1. stack[p] \in Int /\ bet[p] \in Int /\ committed[p] \in Int
  BY DEF TypeOK
<1>2. stack'[p] = stack[p] - amount /\ bet'[p] = bet[p] + amount
      /\ committed'[p] = committed[p] + amount
  BY DEF PutIn, TypeOK
<1>3. \A q \in Players : q # p => /\ stack'[q] = stack[q] /\ bet'[q] = bet[q]
                                  /\ committed'[q] = committed[q]
  BY DEF PutIn, TypeOK
<1> QED
  BY <1>1, <1>2, <1>3

\* Every betting command passes or raises.
LEMMA BettingTurns ==
  ASSUME TypeOK, StacksAndBetsSound, ActingIsFirstPending, NEW p \in Players, Betting(p)
  PROVE  PassStep(p) \/ RaiseStep(p)
<1> USE DEF chipVars, roundVars, handVars, seatVars, PassTurn
<1>1. CanAct(p) /\ UNCHANGED <<phase, order, seated, sittingOut>>
  BY DEF Betting, Fold, Check, Call, Bet, Raise, AllIn
<1>2. phase # "none" /\ p \in pending /\ p \in Live /\ p \notin allIn /\ p \notin folded
  BY <1>1, PlayersAssumption DEF CanAct, ActingIsFirstPending, Live
<1>3. bet[p] \in Int /\ stack[p] \in Int /\ committed[p] \in Int /\ highBet \in Nat
      /\ bet[p] <= highBet
  BY <1>2 DEF TypeOK, StacksAndBetsSound, BetsMatched
<1>4. CASE Fold(p)
  <2>1. TurnStep(p)
    BY <1>1, <1>2, <1>4 DEF Fold, TurnStep
  <2>2. p \in folded' /\ highBet' = highBet /\ pending' = pending \ {p}
        /\ folded' = folded \cup {p}
    BY <1>4 DEF Fold
  <2>3. p \notin Live'
    BY <2>2 DEF Live
  <2> QED
    BY <2>1, <2>2, <2>3 DEF PassStep
<1>5. CASE Check(p)
  <2>1. TurnStep(p)
    BY <1>1, <1>2, <1>5 DEF Check, TurnStep
  <2>2. stack[p] <= 0 \/ bet[p] = highBet
    BY <1>3, <1>5 DEF Check, CallAmount
  <2> QED
    BY <1>5, <2>1, <2>2 DEF Check, PassStep
<1>6. CASE Call(p)
  <2> DEFINE a == CallAmount(p)
  <2>1. a \in Int /\ a # 0 /\ (a = stack[p] \/ (a < stack[p] /\ a = highBet - bet[p]))
        /\ (a < stack[p] => a > 0)
    BY <1>3, <1>6 DEF Call, CallAmount
  <2>2. PutIn(p, a) /\ highBet' = highBet /\ pending' = pending \ {p} /\ folded' = folded
        /\ allIn' = IF stack[p] = a THEN allIn \cup {p} ELSE allIn
    BY <1>6 DEF Call
  <2> HIDE DEF a
  <2>3. /\ \A q \in Players : q # p => /\ stack'[q] = stack[q] /\ bet'[q] = bet[q]
                                       /\ committed'[q] = committed[q]
        /\ stack'[p] = stack[p] - a /\ bet'[p] = bet[p] + a
        /\ committed'[p] - bet'[p] = committed[p] - bet[p]
    BY <2>1, <2>2, PutInEffect
  <2>4. TurnStep(p)
    BY <1>1, <1>2, <1>3, <2>1, <2>2, <2>3 DEF TurnStep
  <2> QED
    BY <1>3, <2>1, <2>2, <2>3, <2>4 DEF PassStep
<1>7. ASSUME NEW total \in Int, total >= highBet, total - bet[p] >= 0, PutIn(p, total - bet[p]),
             highBet' = total, pending' = OthersInOrder(p), folded' = folded,
             allIn' \subseteq allIn \cup {p}, p \in allIn' => stack[p] = total - bet[p]
      PROVE  RaiseStep(p)
  <2>1. /\ \A q \in Players : q # p => /\ stack'[q] = stack[q] /\ bet'[q] = bet[q]
                                       /\ committed'[q] = committed[q]
        /\ stack'[p] = stack[p] - (total - bet[p]) /\ bet'[p] = bet[p] + (total - bet[p])
        /\ committed'[p] - bet'[p] = committed[p] - bet[p]
    <3>1. total - bet[p] \in Int
      BY <1>3
    <3> QED
      BY <1>7, <3>1, PutInEffect
  <2>2. TurnStep(p)
    BY <1>1, <1>2, <1>3, <1>7, <2>1 DEF TurnStep
  <2>3. bet'[p] = total
    BY <1>3, <2>1
  <2> QED
    BY <1>2, <1>7, <2>2, <2>3 DEF RaiseStep
<1>8. ASSUME NEW amount \in 1..stack[p], Bet(p, amount)
      PROVE  RaiseStep(p)
  <2>1. amount \in Int /\ amount >= highBet /\ amount - bet[p] >= 0
    BY <1>3, <1>8 DEF Bet
  <2>2. /\ PutIn(p, amount - bet[p]) /\ highBet' = amount /\ pending' = OthersInOrder(p)
        /\ folded' = folded /\ allIn' = allIn
    BY <1>8 DEF Bet, Reopen
  <2> QED
    BY <1>2, <1>7, <2>1, <2>2
<1>9. ASSUME NEW to \in (highBet + 1)..(bet[p] + stack[p]), Raise(p, to)
      PROVE  RaiseStep(p)
  <2>1. to \in Int /\ to >= highBet /\ to - bet[p] >= 0
    BY <1>3
  <2>2. /\ PutIn(p, to - bet[p]) /\ highBet' = to /\ pending' = OthersInOrder(p)
        /\ folded' = folded
        /\ allIn' = IF stack[p] = to - bet[p] THEN allIn \cup {p} ELSE allIn
    BY <1>9 DEF Raise, Reopen
  <2> QED
    BY <1>2, <1>7, <2>1, <2>2
<1>10. CASE AllIn(p)
  <2> DEFINE total == bet[p] + stack[p]
  <2>1. /\ PutIn(p, stack[p]) /\ allIn' = allIn \cup {p} /\ folded' = folded
        /\ stack[p] > 0
    BY <1>10 DEF AllIn
  <2>2. CASE total <= highBet
    <3>1. highBet' = highBet /\ pending' = pending \ {p}
      BY <1>3, <1>10, <2>2 DEF AllIn
    <3>2. /\ \A q \in Players : q # p => /\ stack'[q] = stack[q] /\ bet'[q] = bet[q]
                                         /\ committed'[q] = committed[q]
          /\ stack'[p] = stack[p] - stack[p]
          /\ committed'[p] - bet'[p] = committed[p] - bet[p]
      BY <1>3, <2>1, PutInEffect
    <3>3. TurnStep(p) /\ stack'[p] <= 0
      BY <1>1, <1>2, <1>3, <2>1, <3>2 DEF TurnStep
    <3> QED
      BY <2>1, <3>1, <3>3 DEF PassStep
  <2>3. CASE total > highBet
    <3>1. highBet' = total /\ pending' = OthersInOrder(p)
      BY <1>3, <1>10, <2>3 DEF AllIn, Reopen, ShortRaise
    <3>2. total \in Int /\ total >= highBet /\ total - bet[p] = stack[p] /\ stack[p] >= 0
      BY <1>3, <2>1, <2>3
    <3> HIDE DEF total
    <3> QED
      BY <1>7, <2>1, <3>1, <3>2
  <2> QED
    BY <1>3, <2>2, <2>3
<1> QED
  BY <1>4, <1>5, <1>6, <1>8, <1>9, <1>10 DEF Betting

\* A timeout checks or folds for the acting player.
LEMMA TimeoutTurns ==
  ASSUME TypeOK, StacksAndBetsSound, ActingIsFirstPending, TimeoutAction
  PROVE  acting \in Players /\ PassStep(acting)
<1>1. /\ phase # "none" /\ acting # None
      /\ UNCHANGED <<phase, order, seated, sittingOut, stack, bet, committed, allIn, highBet>>
      /\ pending' = pending \ {acting}
      /\ folded' = IF acting \in seated /\ highBet > bet[acting]
                   THEN folded \cup {acting} ELSE folded
  BY DEF TimeoutAction, PassTurn, chipVars, roundVars, handVars, seatVars
<1>2. acting \in pending /\ acting \in Players
  BY <1>1 DEF ActingIsFirstPending, TypeOK
<1>3. TurnStep(acting)
  BY <1>1, <1>2 DEF TurnStep
<1>4. acting \in Live' => bet'[acting] = highBet'
  <2>1. bet[acting] \in Int /\ highBet \in Nat /\ bet[acting] <= highBet
    BY <1>1, <1>2 DEF TypeOK, StacksAndBetsSound, BetsMatched
  <2> QED
    BY <1>1, <2>1 DEF Live
<1> QED
  BY <1>1, <1>2, <1>3, <1>4 DEF PassStep

\* Players come and go between hands only.
LEMMA StableIsNext ==
  ASSUME [StableNext]_vars
  PROVE  [Next]_vars /\ (phase # "none" => seated' = seated)
<1>1. [Next]_vars
  BY DEF StableNext, Next
<1>2. ASSUME phase # "none" PROVE seated' = seated
  <2>1. CASE \E p \in Players : Betting(p)
    BY <2>1 DEF Betting, Fold, Check, Call, Bet, Raise, AllIn, seatVars
  <2>2. CASE OtherCommand \/ Clock \/ UNCHANGED vars
    BY <2>2 DEF OtherCommand, Clock, DeadlinePasses, DeadlineTimer, SessionEnds, vars, seatVars
  <2>3. CASE Advance
    BY <2>3 DEF Advance, SatOutBusted, QuiesceIdle, QuiesceNoWinner, QuiesceWaiting,
                Quiesce, StartNewHand, TimeoutAction, EndHandUncontested, StartNextAction,
                AdvanceStreet, EndHandShowdown, HandEnded, seatVars
  <2> QED
    BY <1>2, <2>1, <2>2, <2>3 DEF StableNext
<1> QED
  BY <1>1, <1>2

\* Every step of such a table, by what it does to the betting round.
LEMMA RoundSteps ==
  ASSUME TypeOK, StacksAndBetsSound, ActingIsFirstPending, [StableNext]_vars
  PROVE  \/ phase' = "none"
         \/ QuietStep
         \/ \E p \in Players : PassStep(p) \/ RaiseStep(p)
         \/ StartNewHand
         \/ AdvanceStreet
<1> USE DEF chipVars, roundVars, turnVars, sessionVars, handVars, seatVars, bankVars,
        buttonVars
<1>1. ASSUME NEW p \in Players, phase = "none", Seating(p)
      PROVE  phase' = "none"
  BY <1>1 DEF Seating, SitOut, SitIn, Join, Leave
<1>2. CASE OtherCommand \/ Clock \/ UNCHANGED vars
  BY <1>2 DEF OtherCommand, Clock, DeadlinePasses, DeadlineTimer, SessionEnds, vars, QuietStep
<1>3. CASE Advance
  <2>1. CASE SatOutBusted
    BY <2>1 DEF SatOutBusted
  <2>2. CASE QuiesceIdle \/ QuiesceNoWinner \/ QuiesceWaiting \/ StartNextAction
    BY <2>2 DEF QuiesceIdle, QuiesceNoWinner, QuiesceWaiting, Quiesce, StartNextAction,
                QuietStep
  <2>3. CASE TimeoutAction
    BY <2>3, TimeoutTurns
  <2>4. ASSUME NEW winner, EndHandUncontested(winner)
        PROVE  phase' = "none"
    BY <2>4 DEF EndHandUncontested, HandEnded
  <2>5. ASSUME NEW rank, EndHandShowdown(rank)
        PROVE  phase' = "none"
    BY <2>5 DEF EndHandShowdown, HandEnded
  <2> QED
    BY <1>3, <2>1, <2>2, <2>3, <2>4, <2>5 DEF Advance
<1> QED
  BY <1>1, <1>2, <1>3, BettingTurns DEF StableNext

\* The players a new street lists.
LEMMA StreetLists ==
  ASSUME TypeOK, AdvanceStreet
  PROVE  /\ phase # "none" /\ phase' # "none" /\ ~OneLive /\ pending = {}
         /\ \A p \in Players : order'[p] > 0 <=> p \in Active
         /\ pending' = Active /\ highBet' = 0 /\ bet' = NoChips
         /\ UNCHANGED <<stack, committed, pot, seated, folded, allIn, sittingOut>>
<1>1. /\ InHand /\ ~OneLive /\ pending = {} /\ phase # "river"
      /\ phase' = NextPhase[phase]
      /\ order' = RotateAfter(Active, dealer) /\ pending' = Active /\ highBet' = 0
      /\ bet' = NoChips
      /\ UNCHANGED <<stack, committed, pot, seated, folded, allIn, sittingOut>>
  BY DEF AdvanceStreet, RoundEnded, ResetStreetState, seatVars
<1>2. phase # "none" /\ phase' # "none"
  BY <1>1 DEF InHand, NextPhase, TypeOK, Phases
<1>3. \A p \in Players : order'[p] > 0 <=> p \in Active
  BY <1>1, RotateAfterLists DEF Active, TypeOK
<1> QED
  BY <1>1, <1>2, <1>3

\* RoundInv is inductive.
LEMMA RoundInvNext ==
  ASSUME RoundInv, [StableNext]_vars
  PROVE  RoundInv'
<1>1. /\ TypeOK /\ StacksAndBetsSound /\ ActingIsFirstPending /\ ActiveListed
      /\ ActedHaveMatched /\ AllInSpent
  BY DEF RoundInv
<1>2. TypeOK' /\ StacksAndBetsSound' /\ ActingIsFirstPending'
  BY <1>1, StableIsNext, StacksAndBetsNext, ActingNext
<1>3. SUFFICES ActiveListed' /\ ActedHaveMatched' /\ AllInSpent'
  BY <1>2 DEF RoundInv
<1>4. CASE phase' = "none"
  BY <1>4 DEF ActiveListed, ActedHaveMatched, AllInSpent
<1>5. CASE QuietStep
  BY <1>1, <1>5 DEF QuietStep, ActiveListed, ActedHaveMatched, AllInSpent, Active, Live
<1>6. ASSUME NEW p \in Players, TurnStep(p)
      PROVE  ActiveListed' /\ AllInSpent'
  <2>1. /\ phase # "none" /\ UNCHANGED <<order, seated, sittingOut>>
        /\ \A q \in Players : q # p => stack'[q] = stack[q]
        /\ stack'[p] > 0 => stack[p] > 0
        /\ allIn' \subseteq allIn \cup {p}
        /\ p \in allIn' => stack'[p] = 0 \/ (p \in allIn /\ stack'[p] = stack[p])
    BY <1>6 DEF TurnStep
  <2>2. Active' \subseteq Active
    BY <1>1, <2>1 DEF Active, TypeOK
  <2>3. allIn \subseteq Players
    BY <1>1 DEF TypeOK
  <2> QED
    BY <1>1, <2>1, <2>2, <2>3 DEF ActiveListed, AllInSpent
<1>7. ASSUME NEW p \in Players, PassStep(p)
      PROVE  ActedHaveMatched'
  <2>1. /\ phase # "none" /\ UNCHANGED <<order, seated, highBet>> /\ pending' = pending \ {p}
        /\ folded \subseteq folded'
        /\ \A q \in Players : q # p => stack'[q] = stack[q] /\ bet'[q] = bet[q]
        /\ p \in Live' => stack'[p] <= 0 \/ bet'[p] = highBet'
    BY <1>7 DEF PassStep, TurnStep
  <2>2. Live' \subseteq Live /\ Live' \subseteq Players
    BY <1>1, <2>1 DEF Live, TypeOK
  <2>3. \A q \in Live' : stack'[q] \in Int
    BY <1>2, <2>2 DEF TypeOK
  <2>4. ASSUME NEW q \in Live' \ pending', stack'[q] > 0
        PROVE  bet'[q] = highBet'
    <3>1. CASE q = p
      BY <2>1, <2>3, <2>4, <3>1
    <3>2. CASE q # p
      BY <1>1, <2>1, <2>2, <2>4, <3>2 DEF ActedHaveMatched
    <3> QED
      BY <3>1, <3>2
  <2> QED
    BY <2>4 DEF ActedHaveMatched
<1>8. ASSUME NEW p \in Players, RaiseStep(p)
      PROVE  ActedHaveMatched'
  <2>1. /\ phase # "none" /\ UNCHANGED <<order, seated, folded>>
        /\ pending' = Live \ (allIn \cup {p})
        /\ \A q \in Players : q # p => stack'[q] = stack[q] /\ bet'[q] = bet[q]
        /\ bet'[p] = highBet'
    BY <1>8 DEF RaiseStep, TurnStep, OthersInOrder
  <2>2. Live' = Live /\ Live \subseteq Players
    BY <1>1, <2>1 DEF Live, TypeOK
  <2>3. ASSUME NEW q \in Live' \ pending', stack'[q] > 0
        PROVE  bet'[q] = highBet'
    <3>1. CASE q = p
      BY <2>1, <3>1
    <3>2. CASE q # p
      <4>1. q \in allIn /\ stack'[q] = stack[q]
        BY <2>1, <2>2, <2>3, <3>2
      <4> QED
        BY <1>1, <2>1, <2>3, <4>1 DEF AllInSpent
    <3> QED
      BY <3>1, <3>2
  <2> QED
    BY <2>3 DEF ActedHaveMatched
<1>9. CASE StartNewHand
  <2>1. /\ phase' = "preflop" /\ UNCHANGED <<seated, sittingOut>>
        /\ \A p \in Players : order'[p] > 0 <=> p \in Active
        /\ pending' = Active /\ allIn' = {}
        /\ committed' \in [Players -> Nat]
        /\ \A p \in Players : stack'[p] = stack[p] - committed'[p]
    BY <1>1, <1>9, NewHandChips
  <2>2. \A p \in Players : stack'[p] > 0 => stack[p] > 0
    BY <1>1, <2>1 DEF TypeOK
  <2>3. Active' \subseteq Active /\ Active \subseteq Players
    BY <1>1, <2>1, <2>2 DEF Active, TypeOK
  <2>4. Live' \subseteq Active
    BY <1>1, <2>1 DEF Live, TypeOK
  <2> QED
    BY <2>1, <2>3, <2>4 DEF ActiveListed, ActedHaveMatched, AllInSpent
<1>10. CASE AdvanceStreet
  <2>1. /\ phase # "none"
        /\ \A p \in Players : order'[p] > 0 <=> p \in Active
        /\ pending' = Active
        /\ UNCHANGED <<stack, seated, allIn, sittingOut>>
    BY <1>1, <1>10, StreetLists
  <2>2. Active' = Active /\ Active \subseteq Players
    BY <1>1, <2>1 DEF Active, TypeOK
  <2>3. Live' \subseteq Active
    BY <1>1, <2>1 DEF Live, TypeOK
  <2> QED
    BY <1>1, <2>1, <2>2, <2>3 DEF ActiveListed, ActedHaveMatched, AllInSpent
<1>11. ASSUME NEW p \in Players, PassStep(p) \/ RaiseStep(p)
       PROVE  ActiveListed' /\ ActedHaveMatched' /\ AllInSpent'
  BY <1>6, <1>7, <1>8, <1>11 DEF PassStep, RaiseStep
<1> QED
  BY <1>1, <1>4, <1>5, <1>9, <1>10, <1>11, RoundSteps

\* A new table satisfies RoundInv.
LEMMA RoundInvInit ==
  ASSUME Init
  PROVE  RoundInv
<1>1. TypeOK /\ StacksAndBetsSound
  BY BooksInit DEF Sound
<1>2. phase = "none" /\ pending = {} /\ acting = None
  BY DEF Init
<1> QED
  BY <1>1, <1>2 DEF RoundInv, ActingIsFirstPending, ActiveListed, ActedHaveMatched, AllInSpent

\* On every table whose players come and go between hands, with any blinds, antes and
\* stacks, no betting round ends before everybody who is still in with chips has matched
\* the highest bet.
THEOREM TableRoundSettled == StableSpec => RoundSettled
<1>1. Init => RoundInv
  BY RoundInvInit
<1>2. RoundInv /\ [StableNext]_vars => RoundInv'
  BY RoundInvNext
<1>3. RoundInv /\ [StableNext]_vars =>
        [phase # "none" /\ phase' # phase /\ ~OneLive =>
           \A p \in Live : stack[p] > 0 => bet[p] = highBet]_vars
  <2> SUFFICES ASSUME RoundInv, [StableNext]_vars, phase # "none", phase' # phase, ~OneLive
               PROVE  \A p \in Live : stack[p] > 0 => bet[p] = highBet
    OBVIOUS
  <2>1. TypeOK /\ ActedHaveMatched
    BY DEF RoundInv
  <2>2. pending = {}
    <3> USE DEF chipVars, roundVars, turnVars, sessionVars, handVars, seatVars, bankVars,
        buttonVars
    <3>1. ASSUME NEW p \in Players, Betting(p) PROVE phase' = phase
      BY <3>1 DEF Betting, Fold, Check, Call, Bet, Raise, AllIn
    <3>2. ASSUME OtherCommand \/ Clock \/ UNCHANGED vars PROVE phase' = phase
      BY <3>2 DEF OtherCommand, Clock, DeadlinePasses, DeadlineTimer, SessionEnds, vars
    <3>3. Advance
      BY <3>1, <3>2 DEF StableNext
    <3>4. CASE AdvanceStreet \/ \E rank \in [Evaluated -> HandRanks] : EndHandShowdown(rank)
      BY <3>4 DEF AdvanceStreet, EndHandShowdown, RoundEnded
    <3>5. ASSUME NEW winner, EndHandUncontested(winner) PROVE OneLive
      BY <3>5 DEF EndHandUncontested, OneLive
    <3>6. CASE SatOutBusted \/ QuiesceIdle \/ QuiesceNoWinner \/ QuiesceWaiting
               \/ TimeoutAction \/ StartNextAction \/ StartNewHand
      BY <3>6 DEF SatOutBusted, QuiesceIdle, QuiesceNoWinner, QuiesceWaiting, Quiesce,
                  TimeoutAction, StartNextAction, StartNewHand
    <3> QED
      BY <3>3, <3>4, <3>5, <3>6 DEF Advance
  <2> QED
    BY <2>1, <2>2 DEF ActedHaveMatched
<1> QED
  BY <1>1, <1>2, <1>3, PTL DEF StableSpec, RoundSettled

-----------------------------------------------------------------------------
(***************************************************************************)
(* The hand, on such a table: every pot of a showdown has a winner.        *)
(***************************************************************************)

\* Nobody has put more into the earlier streets than any player who is still in.
EarlierStreetsCovered ==
  phase # "none" =>
    \A p \in Live, q \in Players : committed[q] - bet[q] <= committed[p] - bet[p]

\* After the flop, the highest bet is held by a player who is still in and has acted.
HighBetHeld ==
  phase \notin {"none", "preflop"} /\ highBet > 0 =>
    \E p \in Live \ pending : bet[p] = highBet

\* What a hand keeps.
HandInv ==
  /\ Sound
  /\ RoundInv
  /\ EarlierStreetsCovered
  /\ HighBetHeld
  /\ PotIsCommitments

\* Passing and raising keep who covers whom.
LEMMA TurnsCovered ==
  ASSUME TypeOK, EarlierStreetsCovered, HighBetHeld, NEW p \in Players,
         PassStep(p) \/ RaiseStep(p)
  PROVE  EarlierStreetsCovered' /\ HighBetHeld'
<1>1. /\ phase # "none" /\ p \in pending /\ UNCHANGED <<phase, order, seated>>
      /\ \A q \in Players : q # p => bet'[q] = bet[q] /\ committed'[q] = committed[q]
      /\ committed'[p] - bet'[p] = committed[p] - bet[p]
      /\ folded \subseteq folded' /\ folded' \subseteq folded \cup {p}
  BY DEF PassStep, RaiseStep, TurnStep
<1>2. Live' \subseteq Live /\ Live \subseteq Players /\ Live \ {p} \subseteq Live'
  BY <1>1 DEF Live, TypeOK
<1>3. \A q \in Players : committed'[q] - bet'[q] = committed[q] - bet[q]
  BY <1>1
<1>4. EarlierStreetsCovered'
  BY <1>1, <1>2, <1>3 DEF EarlierStreetsCovered
<1>5. CASE PassStep(p)
  <2>1. highBet' = highBet /\ pending' = pending \ {p}
    BY <1>5 DEF PassStep
  <2> SUFFICES ASSUME phase' \notin {"none", "preflop"}, highBet' > 0
               PROVE  \E q \in Live' \ pending' : bet'[q] = highBet'
    BY <1>4 DEF HighBetHeld
  <2>2. PICK q \in Live \ pending : bet[q] = highBet
    BY <1>1, <2>1 DEF HighBetHeld
  <2>3. q \in Live' \ pending' /\ bet'[q] = highBet'
    BY <1>1, <1>2, <2>1, <2>2
  <2> QED
    BY <2>3
<1>6. CASE RaiseStep(p)
  <2>1. p \in Live' /\ p \notin pending' /\ bet'[p] = highBet'
    BY <1>1, <1>6 DEF RaiseStep, OthersInOrder, Live
  <2> QED
    BY <1>4, <2>1 DEF HighBetHeld
<1> QED
  BY <1>5, <1>6

\* A new street lists only players who have matched every bet so far.
LEMMA StreetCovered ==
  ASSUME Sound, RoundInv, NoAntes, EarlierStreetsCovered, AdvanceStreet
  PROVE  EarlierStreetsCovered' /\ HighBetHeld'
<1>1. /\ TypeOK /\ StacksAndBetsSound /\ ActiveListed /\ ActedHaveMatched
  BY DEF RoundInv
<1>2. /\ phase # "none" /\ pending = {} /\ highBet' = 0 /\ bet' = NoChips
      /\ \A p \in Players : order'[p] > 0 <=> p \in Active
      /\ UNCHANGED <<stack, committed, seated, folded>>
  BY <1>1, StreetLists
<1>3. \A p \in Players : bet'[p] = 0
  BY <1>2 DEF NoChips
<1>4. \A q \in Players : /\ bet[q] <= highBet /\ bet[q] \in Int /\ committed[q] \in Int
                         /\ highBet \in Int
  BY <1>1, <1>2 DEF StacksAndBetsSound, BetsMatched, TypeOK
<1>5. ASSUME NEW p \in Live', NEW q \in Players
      PROVE  committed[q] <= committed[p]
  <2>1. p \in Active /\ p \in Players /\ p \notin folded /\ p \in seated
    BY <1>1, <1>2 DEF Live, TypeOK
  <2>2. p \in Live /\ stack[p] > 0
    BY <1>1, <1>2, <2>1 DEF ActiveListed, Live, Active
  <2>3. bet[p] = highBet
    BY <1>1, <1>2, <2>2 DEF ActedHaveMatched
  <2>4. committed[q] - bet[q] <= committed[p] - bet[p]
    BY <1>2, <2>2 DEF EarlierStreetsCovered
  <2> QED
    BY <1>4, <2>1, <2>3, <2>4
<1>6. Live' \subseteq Players
  BY <1>1, <1>2 DEF Live, TypeOK
<1>7. EarlierStreetsCovered'
  BY <1>2, <1>3, <1>4, <1>5, <1>6 DEF EarlierStreetsCovered
<1> QED
  BY <1>2, <1>7 DEF HighBetHeld

\* Who covers whom is kept by every step.
LEMMA CoveredNext ==
  ASSUME NoAntes, HandInv, [StableNext]_vars
  PROVE  EarlierStreetsCovered' /\ HighBetHeld'
<1>1. /\ Sound /\ RoundInv /\ EarlierStreetsCovered /\ HighBetHeld /\ TypeOK
      /\ StacksAndBetsSound /\ ActingIsFirstPending
  BY DEF HandInv, RoundInv
<1>2. CASE phase' = "none"
  BY <1>2 DEF EarlierStreetsCovered, HighBetHeld
<1>3. CASE QuietStep
  <2>1. Live' = Live /\ UNCHANGED <<phase, committed, bet, highBet, pending>>
    BY <1>3 DEF QuietStep, Live
  <2> QED
    BY <1>1, <2>1 DEF EarlierStreetsCovered, HighBetHeld
<1>4. CASE StartNewHand
  <2>1. phase' = "preflop" /\ committed' \in [Players -> Nat] /\ committed' = bet'
    BY <1>1, <1>4, NewHandChips
  <2>2. \A q \in Players : committed'[q] - bet'[q] = 0
    BY <2>1
  <2>3. Live' \subseteq Players
    <3>1. TypeOK'
      BY <1>1, <1>4, TypeOKStartNewHand
    <3> QED
      BY <3>1 DEF Live, TypeOK
  <2> QED
    BY <2>1, <2>2, <2>3 DEF EarlierStreetsCovered, HighBetHeld
<1> QED
  BY <1>1, <1>2, <1>3, <1>4, RoundSteps, TurnsCovered, StreetCovered

\* The pot stays the sum of the commitments.
LEMMA PotIsCommitmentsNext ==
  ASSUME NoAntes, HandInv, [StableNext]_vars
  PROVE  PotIsCommitments'
<1>1. /\ TypeOK /\ StacksAndBetsSound /\ PotIsCommitments /\ AmountsBacked
  BY SoundAmounts DEF HandInv, Sound
<1>2. [Next]_vars /\ (phase # "none" => seated' = seated)
  BY StableIsNext
<1>3. CASE IdleStep
  BY <1>1, <1>3 DEF IdleStep, PotIsCommitments
<1>4. ASSUME NEW p \in Players, NEW amount \in Nat, BetStep(p, amount)
      PROVE  PotIsCommitments'
  <2>1. Total(committed') = Total(committed) + amount /\ pot' = pot + amount
    BY <1>1, <1>4, BooksPutIn DEF BetStep
  <2> QED
    BY <1>1, <1>4, <2>1 DEF BetStep, PotIsCommitments
<1>5. ASSUME NEW p \in Players, NEW request, NEW buyIn, Join(p, request, buyIn)
      PROVE  PotIsCommitments'
  BY <1>1, <1>5 DEF Join, handVars, PotIsCommitments
<1>6. ASSUME NEW p \in Players, Leave(p)
      PROVE  PotIsCommitments'
  <2>1. seated' # seated /\ phase' = phase
    BY <1>6 DEF Leave, RemovePlayer
  <2> QED
    BY <1>2, <2>1 DEF PotIsCommitments
<1>7. CASE StartNewHand
  BY <1>1, <1>7, NewHandChips DEF PotIsCommitments
<1>8. ASSUME NEW winner, EndHandUncontested(winner)
      PROVE  PotIsCommitments'
  BY <1>8 DEF EndHandUncontested, HandEnded, PotIsCommitments
<1>9. ASSUME NEW rank, EndHandShowdown(rank)
      PROVE  PotIsCommitments'
  BY <1>9 DEF EndHandShowdown, HandEnded, PotIsCommitments
<1> QED
  BY <1>1, <1>2, <1>3, <1>4, <1>5, <1>6, <1>7, <1>8, <1>9, ChipSteps

\* HandInv is inductive.
LEMMA HandInvNext ==
  ASSUME NoAntes, HandInv, [StableNext]_vars
  PROVE  HandInv'
<1>1. Sound /\ RoundInv
  BY DEF HandInv
<1>2. Sound'
  BY <1>1, StableIsNext, SoundNext
<1>3. RoundInv'
  BY <1>1, RoundInvNext
<1> QED
  BY <1>2, <1>3, CoveredNext, PotIsCommitmentsNext DEF HandInv

\* A new table satisfies HandInv.
LEMMA HandInvInit ==
  ASSUME Init
  PROVE  HandInv
<1>1. phase = "none"
  BY DEF Init
<1> QED
  BY <1>1, BooksInit, RoundInvInit
     DEF HandInv, EarlierStreetsCovered, HighBetHeld, PotIsCommitments

\* On every table without antes whose players come and go between hands, the pot is the
\* sum of the commitments from which the side pots are computed, whatever the rake.
THEOREM TablePotIsCommitments ==
  ASSUME NoAntes
  PROVE  StableSpec => []PotIsCommitments
<1>1. Init => HandInv
  BY HandInvInit
<1>2. HandInv /\ [StableNext]_vars => HandInv'
  BY HandInvNext
<1>3. HandInv => PotIsCommitments
  BY DEF HandInv
<1> QED
  BY <1>1, <1>2, <1>3, PTL DEF StableSpec

\* A pot for which a player who is still in may win is won by somebody.
LEMMA PotWinnersExist ==
  ASSUME TypeOK, NEW E, E \cap Live # {}, NEW rank \in [Evaluated -> HandRanks]
  PROVE  PotWinners(E, rank) # {}
<1>1. Live \subseteq Players /\ Evaluated \subseteq Live
  BY DEF Live, Evaluated, TypeOK
<1>2. CASE E \cap Evaluated # {}
  <2> DEFINE S == E \cap Evaluated
  <2>1. S \subseteq Players
    BY <1>1
  <2>2. IsFiniteSet(S)
    BY <2>1, PlayersAssumption, FS_Subset
  <2>3. \A p \in S : rank[p] \in Nat
    BY BoundsAssumption
  <2>4. \E p \in S : \A q \in S : rank[q] <= rank[p]
    <3> HIDE DEF S
    <3> QED
      BY <1>2, <2>2, <2>3, MaximumExists DEF S
  <2> QED
    BY <1>2, <2>4 DEF PotWinners
<1>3. CASE E \cap Evaluated = {}
  <2> DEFINE S == E \cap Live
  <2>1. S \in SUBSET Players /\ S # {}
    BY <1>1
  <2>2. First(S) \in S
    <3> HIDE DEF S
    <3> QED
      BY <2>1, FirstPicks
  <2> QED
    BY <1>3, <2>2 DEF PotWinners
<1> QED
  BY <1>2, <1>3

\* When the last betting round is over, some player who is still in has committed as
\* much as anybody.
LEMMA SomebodyCoversAll ==
  ASSUME NoAntes, HandInv, RoundEnded, phase = "river"
  PROVE  \E p \in Live : \A q \in Players : committed[q] <= committed[p]
<1>1. /\ TypeOK /\ StacksAndBetsSound /\ EarlierStreetsCovered /\ HighBetHeld
  BY DEF HandInv, RoundInv
<1>2. pending = {} /\ Live # {}
  BY DEF RoundEnded, OneLive
<1>3. \A q \in Players : /\ bet[q] <= highBet /\ bet[q] \in Int /\ committed[q] \in Int
                         /\ highBet \in Nat
  BY <1>1 DEF StacksAndBetsSound, BetsMatched, TypeOK
<1>4. Live \subseteq Players
  BY <1>1 DEF Live, TypeOK
<1>5. \A p \in Live, q \in Players : committed[q] - bet[q] <= committed[p] - bet[p]
  BY <1>1 DEF EarlierStreetsCovered
<1>6. ASSUME NEW p \in Live, \A q \in Players : bet[q] <= bet[p]
      PROVE  \A q \in Players : committed[q] <= committed[p]
  BY <1>3, <1>4, <1>5, <1>6
<1>7. CASE highBet > 0
  <2>1. PICK p \in Live : bet[p] = highBet
    BY <1>1, <1>7 DEF HighBetHeld
  <2> QED
    BY <1>3, <1>6, <2>1
<1>8. CASE ~(highBet > 0)
  <2>1. PICK p \in Live : TRUE
    BY <1>2
  <2>2. AmountsBacked
    BY SoundAmounts DEF HandInv, Sound
  <2>3. \A q \in Players : bet[q] = 0
    BY <1>3, <1>8, <2>2 DEF AmountsBacked
  <2> QED
    BY <1>4, <1>6, <2>1, <2>3
<1> QED
  BY <1>7, <1>8

\* Hence every pot of a showdown has a winner.
LEMMA ShowdownHasWinners ==
  ASSUME NoAntes, HandInv, RoundEnded, phase = "river", NEW rank \in [Evaluated -> HandRanks]
  PROVE  \A E \in Pots : PotWinners(E, rank) # {}
<1>1. TypeOK
  BY DEF HandInv, Sound
<1>2. PICK m \in Live : \A q \in Players : committed[q] <= committed[m]
  BY SomebodyCoversAll
<1>3. m \in seated \ folded /\ m \in Players
  BY <1>1 DEF Live, TypeOK
<1>4. ASSUME NEW E \in Pots PROVE m \in E
  <2>1. CASE Contributors = {}
    BY <2>1 DEF Pots
  <2>2. CASE Contributors # {}
    <3>1. PICK p \in Contributors : \E level \in 1..committed[p] : E = Eligible(level)
      BY <2>2 DEF Pots
    <3>2. PICK level \in 1..committed[p] : E = Eligible(level)
      BY <3>1
    <3>3. p \in Players /\ committed[p] \in Int /\ committed[m] \in Int
      BY <1>1, <1>3 DEF Contributors, TypeOK
    <3>4. committed[m] >= level
      BY <1>2, <3>2, <3>3
    <3> QED
      BY <1>3, <3>2, <3>4 DEF Eligible
  <2> QED
    BY <2>1, <2>2
<1> QED
  BY <1>1, <1>2, <1>4, PotWinnersExist

\* Every step keeps the books, as long as the rake fits into the main pot.
LEMMA BooksNext ==
  ASSUME NoAntes, HandInv, RakeFits, [StableNext]_vars
  PROVE  Books' = Books
<1>1. /\ TypeOK /\ StacksAndBetsSound /\ AbsentHaveNothing /\ Sound /\ AmountsBacked
      /\ PotIsCommitments
  BY SoundAmounts DEF HandInv, Sound
<1>2. [Next]_vars
  BY StableIsNext
<1>3. CASE IdleStep
  BY <1>3 DEF IdleStep, Books, bankVars
<1>4. ASSUME NEW p \in Players, NEW amount \in Nat, BetStep(p, amount)
      PROVE  Books' = Books
  BY <1>1, <1>4, BooksPutIn DEF BetStep
<1>5. ASSUME NEW rank \in [Evaluated -> HandRanks], EndHandShowdown(rank)
      PROVE  Books' = Books
  <2>1. RoundEnded /\ phase = "river"
    BY <1>5 DEF EndHandShowdown
  <2>2. Total(committed) = pot /\ pot \in Nat
    BY <1>1, <2>1 DEF PotIsCommitments, AmountsBacked
  <2>3. \A E \in Pots : PotWinners(E, rank) # {}
    BY <2>1, ShowdownHasWinners
  <2>4. Rake <= PotAmount(MainPot)
    BY <2>1 DEF RakeFits
  <2>5. Total(committed) <= pot
    BY <2>2
  <2> QED
    BY <1>1, <1>5, <2>2, <2>3, <2>4, <2>5, BooksShowdown
<1> QED
  BY <1>1, <1>2, <1>3, <1>4, <1>5, ChipSteps, BooksJoin, BooksLeave, BooksStartNewHand,
     BooksUncontested

\* On every table without antes whose players come and go between hands, every chip is
\* in a wallet, a stack, the pot or the rake after any number of hands, as long as no
\* rake exceeds the main pot it is deducted from.
THEOREM TableConservesChips ==
  ASSUME NoAntes
  PROVE  StableSpec /\ []RakeFits => []ChipsConserved
<1>1. Init => HandInv /\ ChipsConserved
  BY HandInvInit, BooksInit DEF ChipsConserved, Books
<1>2. HandInv /\ ChipsConserved /\ RakeFits /\ [StableNext]_vars => HandInv' /\ ChipsConserved'
  BY HandInvNext, BooksNext DEF ChipsConserved, Books
<1> QED
  BY <1>1, <1>2, PTL DEF StableSpec

\* With no rake, or a rake cap of one chip, nothing is ever lost or created.
THEOREM SmallRakeConservesChips ==
  ASSUME NoAntes, SmallRake
  PROVE  StableSpec => []ChipsConserved
<1>1. Init => HandInv /\ ChipsConserved
  BY HandInvInit, BooksInit DEF ChipsConserved, Books
<1>2. HandInv /\ ChipsConserved /\ [StableNext]_vars => HandInv' /\ ChipsConserved'
  BY HandInvNext, BooksNext, SmallRakeFits DEF ChipsConserved, Books, HandInv
<1> QED
  BY <1>1, <1>2, PTL DEF StableSpec

-----------------------------------------------------------------------------
(***************************************************************************)
(* What a player can win.                                                  *)
(***************************************************************************)

\* A player gets no more than all there is in the pots that are open to the player.
LEMMA PayoutAtMostOpenPots ==
  ASSUME TypeOK, AmountsBacked, NEW p \in Players, NEW rank
  PROVE  Payout(p, rank) <= Total([E \in Pots |-> IF p \in E THEN PotAmount(E) ELSE 0])
<1> DEFINE shares == [E \in Pots |-> Share(E, p, rank)]
<1> DEFINE open == [E \in Pots |-> IF p \in E THEN PotAmount(E) ELSE 0]
<1>1. ASSUME NEW E \in Pots
      PROVE  /\ Share(E, p, rank) \in Nat /\ PotAmount(E) \in Nat
             /\ Share(E, p, rank) <= (IF p \in E THEN PotAmount(E) ELSE 0)
  <2> DEFINE f == [q \in Players |-> Share(E, q, rank)]
  <2>1. \A q \in Players : Share(E, q, rank) \in Nat
    BY SharesDividePot
  <2>2. f \in [Players -> Nat] /\ f[p] = Share(E, p, rank)
    BY <2>1
  <2>3. Total(f) = Given(E, rank)
    BY SharesDividePot
  <2>4. f[p] <= Total(f)
    <3> HIDE DEF f
    <3> QED
      BY <2>2, PlayersAssumption, TotalBound
  <2>5. PotAmount(E) \in Nat /\ Rake \in Nat
    BY PotAmountNat, RakeBounds
  <2>6. Given(E, rank) <= PotAmount(E) /\ Given(E, rank) \in Int
    BY <2>5 DEF Given, Net
  <2>7. p \notin E => Share(E, p, rank) = 0
    BY DEF PotWinners, Share
  <2>8. Share(E, p, rank) <= Given(E, rank) /\ Share(E, p, rank) \in Nat
    BY <2>1, <2>2, <2>3, <2>4
  <2> QED
    BY <2>5, <2>6, <2>7, <2>8
<1>2. /\ shares \in [Pots -> Int] /\ open \in [Pots -> Int]
      /\ \A E \in Pots : shares[E] <= open[E]
  BY <1>1
<1>3. Payout(p, rank) = Total(shares)
  BY DEF Payout
<1> HIDE DEF shares, open
<1>4. Total(shares) <= Total(open)
  BY <1>2, PotsFinite, TotalLeq
<1> QED
  BY <1>3, <1>4 DEF open

\* What p and q have both put at risk.
AtRisk(p) ==
  [q \in Players |-> IF committed[q] < committed[p] THEN committed[q] ELSE committed[p]]

\* The pots open to p hold chips of levels that p has reached.
LEMMA OpenPotsMatched ==
  ASSUME TypeOK, AmountsBacked, Contributors # {}, NEW p \in Players
  PROVE  Total([E \in Pots |-> IF p \in E THEN PotAmount(E) ELSE 0]) <= Total(AtRisk(p))
<1> DEFINE A == [E \in Pots |-> IF p \in E THEN PotChips(E) ELSE {}]
<1>1. \A E \in Pots : IsFiniteSet(A[E])
  BY PotChipsFinite, FS_EmptySet
<1>2. ASSUME NEW E \in Pots, NEW F \in Pots, E # F
      PROVE  A[E] \cap A[F] = {}
  <2> SUFFICES ASSUME NEW c \in PotChips(E), c \in PotChips(F) PROVE FALSE
    OBVIOUS
  <2>1. PICK q \in Contributors : \E l \in 1..committed[q] : Eligible(l) = E /\ c = <<q, l>>
    BY PotChipsMember
  <2>2. PICK r \in Contributors : \E m \in 1..committed[r] : Eligible(m) = F /\ c = <<r, m>>
    BY PotChipsMember
  <2> QED
    BY <1>2, <2>1, <2>2
<1>3. AtRisk(p) \in [Players -> Int] /\ DOMAIN AtRisk(p) = Players
  BY DEF AtRisk, TypeOK
<1>4. ASSUME NEW c \in UNION {A[E] : E \in Pots} PROVE c \in Units(AtRisk(p))
  <2>1. PICK E \in Pots : p \in E /\ c \in PotChips(E)
    OBVIOUS
  <2>2. PICK q \in Contributors : \E l \in 1..committed[q] : Eligible(l) = E /\ c = <<q, l>>
    BY <2>1, PotChipsMember
  <2>3. PICK l \in 1..committed[q] : Eligible(l) = E /\ c = <<q, l>>
    BY <2>2
  <2>4. committed[p] >= l
    BY <2>1, <2>3 DEF Eligible
  <2>5. q \in Players /\ committed[q] \in Int /\ committed[p] \in Int
    BY DEF Contributors, TypeOK
  <2>6. l \in 1..AtRisk(p)[q]
    BY <2>3, <2>4, <2>5 DEF AtRisk
  <2> QED
    BY <1>3, <2>3, <2>5, <2>6, UnitsMember
<1>5. IsFiniteSet(Units(AtRisk(p)))
  BY <1>3, PlayersAssumption, UnitsFinite
<1>6. Cardinality(UNION {A[E] : E \in Pots}) <= Total(AtRisk(p))
  BY <1>4, <1>5, FS_Subset DEF Total
<1>7. Total([E \in Pots |-> Cardinality(A[E])]) = Cardinality(UNION {A[E] : E \in Pots})
  <2> HIDE DEF A
  <2> QED
    BY <1>1, <1>2, PotsFinite, TotalDisjoint
<1>8. [E \in Pots |-> IF p \in E THEN PotAmount(E) ELSE 0] = [E \in Pots |-> Cardinality(A[E])]
  <2>1. Cardinality({}) = 0
    BY FS_EmptySet
  <2>2. \A E \in Pots : (IF p \in E THEN PotAmount(E) ELSE 0) = Cardinality(A[E])
    BY <2>1 DEF PotAmount, PotChips
  <2> QED
    BY <2>2
<1> QED
  BY <1>6, <1>7, <1>8

\* At a showdown of a stable table nobody is paid more than was matched.
LEMMA ShowdownMatched ==
  ASSUME NoAntes, HandInv, phase = "river", NEW p \in Players, NEW rank
  PROVE  Payout(p, rank) <= Matched(p)
<1>1. TypeOK /\ AmountsBacked /\ PotIsCommitments
  BY SoundAmounts DEF HandInv, Sound
<1>2. Matched(p) = Total(AtRisk(p))
  BY DEF Matched, AtRisk
<1>3. Payout(p, rank) <= Total([E \in Pots |-> IF p \in E THEN PotAmount(E) ELSE 0])
  BY <1>1, PayoutAtMostOpenPots
<1>4. AtRisk(p) \in [Players -> Int]
  BY <1>1 DEF AtRisk, TypeOK
<1>5. Total(AtRisk(p)) \in Nat /\ Payout(p, rank) \in Nat
  BY <1>1, <1>4, PlayersAssumption, TotalType, PayoutType
<1>6. Total([E \in Pots |-> IF p \in E THEN PotAmount(E) ELSE 0]) \in Nat
  <2> DEFINE open == [E \in Pots |-> IF p \in E THEN PotAmount(E) ELSE 0]
  <2>1. open \in [Pots -> Int]
    BY <1>1, PotAmountNat
  <2> HIDE DEF open
  <2>2. Total(open) \in Nat
    BY <1>1, <2>1, PotsFinite, TotalType
  <2> QED
    BY <2>2 DEF open
<1>7. CASE Contributors # {}
  BY <1>1, <1>2, <1>3, <1>5, <1>6, <1>7, OpenPotsMatched
<1>8. CASE Contributors = {}
  <2>1. \A q \in Players : committed[q] = 0
    BY <1>1, <1>8 DEF Contributors, AmountsBacked, HandInv, Sound, AbsentHaveNothing
  <2>2. pot = 0
    <3>1. committed \in [Players -> Int]
      BY <1>1 DEF TypeOK
    <3> QED
      BY <1>1, <2>1, <3>1, TotalZero DEF PotIsCommitments
  <2>3. \A E \in Pots : PotAmount(E) = 0
    BY <1>8, <2>2 DEF PotAmount
  <2>4. Total([E \in Pots |-> IF p \in E THEN PotAmount(E) ELSE 0]) = 0
    <3> DEFINE open == [E \in Pots |-> IF p \in E THEN PotAmount(E) ELSE 0]
    <3>1. open \in [Pots -> Int] /\ \A E \in Pots : open[E] = 0
      BY <2>3
    <3> HIDE DEF open
    <3>2. Total(open) = 0
      BY <3>1, TotalZero
    <3> QED
      BY <3>2 DEF open
  <2> QED
    BY <1>2, <1>3, <1>5, <2>4
<1> QED
  BY <1>7, <1>8

\* On every table without antes whose players come and go between hands, a showdown
\* pays nobody more than the sum of what each player and the winner both put at risk.
THEOREM TableWinsAtMostMatched ==
  ASSUME NoAntes
  PROVE  StableSpec => WinsAtMostMatched
<1>1. Init => HandInv
  BY HandInvInit
<1>2. HandInv /\ [StableNext]_vars => HandInv'
  BY HandInvNext
<1>3. HandInv /\ [StableNext]_vars =>
        [phase # "none" /\ phase' = "none" /\ ~OneLive =>
           \A p \in Players : stack'[p] - stack[p] <= Matched(p)]_vars
  <2> SUFFICES ASSUME HandInv, [StableNext]_vars, phase # "none", phase' = "none", ~OneLive,
                      NEW p \in Players
               PROVE  stack'[p] - stack[p] <= Matched(p)
    OBVIOUS
  <2>1. TypeOK /\ StacksAndBetsSound
    BY DEF HandInv, Sound
  <2>2. PICK rank \in [Evaluated -> HandRanks] : EndHandShowdown(rank)
    <3>1. ASSUME IdleStep PROVE FALSE
      BY <3>1 DEF IdleStep
    <3>2. ASSUME NEW q \in Players, NEW amount, BetStep(q, amount) PROVE FALSE
      BY <3>2 DEF BetStep
    <3>3. ASSUME NEW q, NEW request, NEW buyIn, Join(q, request, buyIn) \/ Leave(q) PROVE FALSE
      BY <3>3 DEF Join, Leave, handVars
    <3>4. ASSUME StartNewHand PROVE FALSE
      BY <3>4 DEF StartNewHand
    <3>5. ASSUME NEW winner, EndHandUncontested(winner) PROVE FALSE
      BY <3>5 DEF EndHandUncontested, OneLive
    <3> QED
      BY <2>1, <3>1, <3>2, <3>3, <3>4, <3>5, StableIsNext, ChipSteps
  <2>3. phase = "river" /\ stack'[p] = stack[p] + Payout(p, rank)
    BY <2>2 DEF EndHandShowdown
  <2>4. stack[p] \in Int /\ Payout(p, rank) \in Nat
    BY <2>1, PayoutType DEF TypeOK
  <2> QED
    BY <2>3, <2>4, ShowdownMatched
<1> QED
  BY <1>1, <1>2, <1>3, PTL DEF StableSpec, WinsAtMostMatched

=============================================================================
