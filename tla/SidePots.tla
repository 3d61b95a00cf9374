------------------------------ MODULE SidePots ------------------------------
(***************************************************************************)
(* computePots (engine/pot.go): the main pot and the side pots of a hand   *)
(* from what each player has put in.  The contributors are sorted and      *)
(* scanned, each new level makes a pot, and then neighbouring pots that    *)
(* the same players may win are merged.  The property compares the result  *)
(* with the pots that Table uses: every chip belongs to the pot of the     *)
(* players who have matched it.                                            *)
(*                                                                         *)
(* Abstractions.  A list of player ids is the place of each player in it;  *)
(* two such lists are the same list iff they are the same function.        *)
(***************************************************************************)
EXTENDS Integers, Sequences, FiniteSets, Functions

CONSTANTS
  Seated,         \* state.Players
  MaxCommitted    \* bound of what a player puts in

ASSUME SidePotsAssumption == IsFiniteSet(Seated) /\ MaxCommitted \in Nat

VARIABLES
  committed, folded,   \* TotalCommittedThisHand and IsFolded of each player
  actionOrder,         \* ActionOrder of the hand: not every player is in it
  entries,             \* the contributors, the smallest commitment first
  scanned,             \* how many of them the first loop has seen
  prev,                \* the level up to which raw has pots
  raw,                 \* the pots before merging
  taken,               \* how many of them the second loop has seen
  merged               \* the pots

potVars == <<committed, folded, actionOrder, entries, scanned, prev, raw, taken, merged>>

-----------------------------------------------------------------------------

Contributors == {p \in Seated : committed[p] > 0}

\* sort.Slice is not stable and starts from the random order of a map: contributors of
\* the same commitment come in any order.
SortedEntries ==
  {e \in Bijection(1..Cardinality(Contributors), Contributors) :
     \A j, k \in DOMAIN e : j < k => committed[e[j]] <= committed[e[k]]}

\* The lists without repetitions of some of the players.
Rosters == UNION {Bijection(1..Cardinality(S), S) : S \in SUBSET Seated}

\* p comes before q: in ActionOrder, or else at its end in the order of entries.
Precedes(p, q) ==
  \/ \E j, k \in DOMAIN actionOrder : j < k /\ actionOrder[j] = p /\ actionOrder[k] = q
  \/ p \in Range(actionOrder) /\ q \notin Range(actionOrder)
  \/ /\ p \notin Range(actionOrder) /\ q \notin Range(actionOrder)
     /\ \E j, k \in DOMAIN entries : j < k /\ entries[j] = p /\ entries[k] = q

\* The list of the players in S: the place of each of them.
Listing(S) == [p \in S |-> Cardinality({q \in S : Precedes(q, p)})]

\* The lists of the players in DOMAIN listing, each in its place.
ListsOf(listing) ==
  {l \in Bijection(1..Cardinality(DOMAIN listing), DOMAIN listing) :
     \A k \in DOMAIN l : listing[l[k]] = k - 1}

\* Mutant: folded players may win the pot too.
eligibleAnybody(first) == Listing({entries[k] : k \in first..Len(entries)})

\* The players from entry first on who have not folded.
eligibleInOrder(first) == Listing({entries[k] : k \in first..Len(entries)} \ folded)

\* One turn of the first loop.
ScanEntry ==
  LET level == committed[entries[scanned + 1]]
      amount == (level - prev) * (Len(entries) - scanned)
  IN /\ scanned < Len(entries)
     /\ scanned' = scanned + 1
     /\ \/ level <= prev /\ UNCHANGED <<prev, raw>>
        \/ /\ level > prev
           /\ raw' = Append(raw, [amount |-> amount, eligible |-> eligibleInOrder(scanned + 1)])
           /\ prev' = level
     /\ UNCHANGED <<committed, folded, actionOrder, entries, taken, merged>>

sameStringSlice(a, b) == a = b

\* One turn of the second loop.
MergePot ==
  LET next == raw[taken + 1]
      last == merged[Len(merged)]
  IN /\ scanned = Len(entries) /\ taken < Len(raw)
     /\ taken' = taken + 1
     /\ \/ /\ merged # <<>> => ~sameStringSlice(last.eligible, next.eligible)
           /\ merged' = Append(merged, next)
        \/ /\ merged # <<>> /\ sameStringSlice(last.eligible, next.eligible)
           /\ merged' = [merged EXCEPT ![Len(merged)] =
                           [amount |-> last.amount + next.amount, eligible |-> last.eligible]]
     /\ UNCHANGED <<committed, folded, actionOrder, entries, scanned, prev, raw>>

\* At a showdown somebody in ActionOrder has not folded.
PotsInit ==
  /\ committed \in [Seated -> 0..MaxCommitted]
  /\ folded \in SUBSET Seated
  /\ actionOrder \in Rosters
  /\ Range(actionOrder) \ folded # {}
  /\ entries \in SortedEntries
  /\ scanned = 0
  /\ prev = 0
  /\ raw = <<>>
  /\ taken = 0
  /\ merged = <<>>

PotsNext == ScanEntry \/ MergePot

PotsSpec == PotsInit /\ [][PotsNext]_potVars

-----------------------------------------------------------------------------
(***************************************************************************)
(* What the pots should be: a chip is one level of one player's            *)
(* commitment, and those who have matched it and not folded may win it.    *)
(***************************************************************************)

EligibleAt(level) == {p \in Seated \ folded : committed[p] >= level}

\* The sets of players with a pot of their own.
PotGroups == UNION {{EligibleAt(level) : level \in 1..committed[p]} : p \in Contributors}

\* The chips that the players in E play for.
ChipsFor(E) ==
  UNION {{p} \X {level \in 1..committed[p] : EligibleAt(level) = E} : p \in Contributors}

\* Both loops are done.
PotsComputed == scanned = Len(entries) /\ taken = Len(raw)

\* The pots are those of the levels, in whatever order equal commitments are scanned:
\* one for each group of players, the main pot first and each later one for fewer of
\* them, holding every chip that the group has matched, also those of folded players
\* between two levels.  There is no pot exactly if nobody has put anything in.
PotsFollowLevels ==
  PotsComputed =>
    /\ merged = <<>> <=> Contributors = {}
    /\ {DOMAIN merged[k].eligible : k \in DOMAIN merged} = PotGroups
    /\ \A k \in DOMAIN merged :
         LET E == DOMAIN merged[k].eligible
         IN /\ merged[k].amount = Cardinality(ChipsFor(E))
            /\ k = 1 => E = EligibleAt(1)
            /\ \A j \in 1..(k - 1) : E \subseteq DOMAIN merged[j].eligible
                                     /\ E # DOMAIN merged[j].eligible

=============================================================================
