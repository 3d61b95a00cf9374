------------------------------- MODULE EndHand -------------------------------
(***************************************************************************)
(* endHandShowdown (engine/advance.go) as the composition of Showdown and  *)
(* SidePots: the hands are evaluated, then the pots are computed, then the *)
(* winners of each pot are found among the players on its list.            *)
(*                                                                         *)
(* Abstractions.  Rake and shares are in Table; here the main pot is passed *)
(* over at will, as the code does when the rake leaves nothing of it.      *)
(***************************************************************************)
EXTENDS Showdown, SidePots

\* Both are state.Players.
ASSUME EndHandAssumption == Holders = Seated

VARIABLE awarded   \* how many pots the last loop has seen

endHandVars == <<vars, potVars, awarded>>

-----------------------------------------------------------------------------

\* Those in ActionOrder who have not folded are evaluated, in that order.  Some of them
\* may have no cards, and others with chips in the pot may not be in ActionOrder.
EndHandInit ==
  /\ PotsInit
  /\ Init
  /\ Range(Players) = Range(actionOrder) \ folded
  /\ \A j, k \in DOMAIN Players : j < k => Precedes(Players[j], Players[k])
  /\ awarded = 0

\* If nobody has put anything in there is one pot, for everybody who is evaluated.
PotCount == IF merged = <<>> THEN 1 ELSE Len(merged)

\* What eligibleIDs of pot k may be.
EligibleLists(k) == IF merged = <<>> THEN {Players} ELSE ListsOf(merged[k].eligible)

\* The loop over the pots: a pot without chips is passed over.
NextPot ==
  /\ PotsComputed /\ awarded < PotCount
  /\ awarded' = awarded + 1
  /\ \/ \E eligibleIDs \in EligibleLists(awarded + 1) : AwardPot(eligibleIDs)
     \/ awarded = 0 /\ current > Len(Players) /\ UNCHANGED vars
  /\ UNCHANGED potVars

EndHandNext ==
  \/ (BestHand \/ SkipPlayer) /\ UNCHANGED <<potVars, awarded>>
  \/ current > Len(Players) /\ PotsNext /\ UNCHANGED <<vars, awarded>>
  \/ NextPot
  \/ (PotWinners \/ firstEligibleInOrder) /\ UNCHANGED <<potVars, awarded>>

EndHandSpec == EndHandInit /\ [][EndHandNext]_endHandVars

=============================================================================
