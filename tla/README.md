# Verification of the poker server

TLA+ models of the cash-game server in `src/`: what a table does with its chips and
its turns, how sessions, callers and lobby operations share the event log of a game,
how chips move between wallets and tables, how a session deals and keeps time, and
who wins a showdown. TLC checks small instances; TLAPS proves theorems for every value of the
constants. `PROJECT.json` maps every definition to the lines it models.

## 1. The system

| Component | State | Operations | Modelled in |
|---|---|---|---|
| Table engine (`engine/apply.go`, `advance.go`, `handler.go`) | `GameState`: players, current hand, dealer, pot | `Apply` per event; `HandleCommand` = validate, emit, then `runAdvance` until no event | `Table` |
| Command validation (`engine/validate*.go`) | none | accept or reject fold, check, call, bet, raise, all-in, sit out/in, ... | guards of `Table` |
| Pots and rake (`engine/pot.go`) | none | `computePots`, `computeRake`, `firstEligibleInOrder` | `Table`, `SidePots` |
| Session (`engine/session.go`) | inbox, in-memory state, deadline and idle timers | `Submit`, `run`, `process`, `stampEvents`, `lookupByCommandID`, `runProactiveAdvance` | `GameSession`, `LiveHand` |
| Router (`engine/router.go`) | map game -> session | `getOrLoad`, `Submit`, `Invalidate`, `reapOnce`, `Close` | `GameSession` |
| Event store (`store/store.go`, `db/`) | `game_events`, snapshots, users | append (unique on game and sequence), load, find by command id, `WithTx` | `GameSession`, `EventLog`, `Accounts` |
| Lobby (`lobby/join_leave.go`, `engine/lobby.go`) | none of its own | `JoinTable`, `LeaveTable`: load, decide, append, move chips, invalidate | `LobbyWallet`, `Wallet`, `GameSession`, `Table` |
| gRPC server (`server/`) | none | `PlaySession`, `JoinTable`, `LeaveTable` with `retryOnConcurrentWrite` | `GameSession`, `LobbyWallet` |
| Dealer and deck (`engine/dealer.go`, `deck/`) | the deck, in the session's memory only | `Shuffle`, `Deal`, `Burn` | `LiveHand` |
| Hand evaluator (`engine/eval.go`, `potWinners`) | none | `eval5`, `bestHand` | `Showdown` |
| Wallet and step deposits (`store/users.go`, `user/service.go`) | balances, daily marks, audit rows, settings | `ReportSteps`, debit, credit, `UpdateUserSettings` | `Accounts`, `StepDeposits`, `Wallet` |
| Authentication (`auth/`) | cache of users by subject | `resolveUser` | `Provisioning`, `UserService` |
| Configuration and start-up | none | environment, wiring | not modelled |

How they interact. A client's stream calls `Router.Submit`, which finds or loads the
session of the game, puts the command into its inbox and waits for the reply. The
session's goroutine takes one command at a time: it looks the command id up, lets the
engine decide on the in-memory state, numbers the events after the latest one in the
store, appends them and only then applies them. Joining and leaving bypass the
session: they load the state from the store, append their own events in a
transaction that also moves chips, and then ask the router to invalidate the session.
Step reports go from the interceptor, which resolves or creates the user, to a
transaction on the user's rows. All of them share a pool of connections.

What is hard:

- the order of play: `action_order`, `pending_actions` and `acting_player_id` are
  three separate fields that every event must keep consistent, through short all-ins,
  timeouts and departures in the middle of a hand;
- money: blinds, side pots, odd chips, rake, buy-ins and cash-outs, with players
  leaving while their chips are in the pot;
- the lifecycle loop, which must make progress and stop;
- several writers of one log: a session, its invalidated predecessor that nobody
  waits for, joins and leaves, and the retries of all of them;
- transactions at READ COMMITTED: rows that do not exist yet cannot be locked, a
  statement sees what was committed since the one before it, and `AppendEvents` always
  uses a transaction, and a connection, of its own;
- what a session keeps outside its state, the dealer and the deadline timer, which an
  append that fails does not take back and a reload does not restore;
- failure: a store call that fails, a commit whose answer is lost, a session that
  exits with commands in its inbox, a restart.

`PROJECT.json` lists each of these under "hazards" at the line where it bites.

What makes each component correct. Table: the turn is always the first pending
player's; no chips appear, and none disappear while players stay; nobody wins more
than they matched; who folds and stays at the table is out of the hand; a betting round
ends only when it is settled; the loop terminates and no silence blocks a hand while the
session's timer is armed. Session, router and store: the log is
contiguous, memory never runs ahead of it and equals it when nothing else writes, a
reported success is in the log, and every caller gets an answer. Lobby: a call
that joins or leaves is written once, however often it retries, on the state it was
decided on. Wallet: deposits, buy-ins
and cash-outs happen once and whole, and balances are never overdrawn. Deposits:
every step is credited once, and the chips given for a date stay within the cap, with
the exceptions of section 6. Accounts: one per subject.
Dealer: no card twice in a hand. Timer: silent turns end. Evaluator: among the players it
evaluates, the best five of seven cards win.

## 2. The modules

### Table

One variable per field of `GameState`, `HandState` and `PlayerState` that the engine
reads; the comments at the VARIABLES name the fields. One action per command, lobby
operation or branch of `advance`:

- `Fold`, `Check`, `Call`, `Bet`, `Raise`, `AllIn`, `SitOut`, `SitIn`,
  `OtherCommand`: validation is the guard, the emitted event's `Apply` case the
  effect, and `RunAdvance` enters the loop;
- `Join`, `Leave`: the lobby operations with their wallet side, an automatic fold
  included; like the code they do not run the loop;
- `SatOutBusted`, `StartNewHand`, `TimeoutAction`, `StartNextAction`,
  `AdvanceStreet`, `EndHandUncontested`, `EndHandShowdown` and the `Quiesce...`
  actions: the iterations of `runAdvance`. While `busy` is TRUE nothing else happens,
  because the loop runs inside one step of the session goroutine;
- `DeadlinePasses`, `DeadlineTimer`, `SessionEnds`: the clock, the proactive advance and
  the end of the session. `armed` says that a timer is going to fire: `ResetDeadline`
  sets it when the loop has come to rest, and only for a deadline still ahead;
  `InvalidateSession` (a join or leave) and the end of the session clear it until the next
  command, which loads a new session. `Unattended` names the turns that are left without one.

Abstractions. Cards are left to `LiveHand` and `Showdown`: a player holds hole cards or not, and a showdown
gives every evaluated hand any rank of `HandRanks`. The ordered lists are positions
(`order`) and a set (`pending`), since `pending_actions` is always listed in the order
of `action_order`. `raises` counts on fixed-limit tables only, the only ones that
read it. Time is the flag `expired`. Side pots are given by what they are (the
commitment levels, grouped by who may win them) and not by the code's sort and
merge, which `SidePots` compares with them. Sums are those of `Counting`, which counts chips
as pairs, so that no module needs recursion and sums can be proved about. Nothing emits the straddle, pause, close, seat change,
top-up and kick events, so they have no action.

`StableSpec` restricts joining, leaving and sitting out to the time between hands.

### GameSession

The log is a set of rows (sequence number, command, writer). A state is the bag of
the sequence numbers applied to it, so a missing event and one applied twice both
show. What a command decides is left to `Table`: here it produces one to `MaxBatch`
events. Each call of the store is a step of its own, so everything may happen between
the lookup, the numbering and the append:

- `Route`, `Enqueue`, `AwaitReply`, `GiveUp`: a caller of `Router.Submit`, with the
  two selects of `Session.Submit`;
- `Receive`, `DeadlineFires`, `Exit`, `LookupByCommandID`, `StampEvents`,
  `AppendEvents`: the run loop;
- `LobbyLookup`, `LobbyLoad`, `LobbyAppend`, `Invalidate`, `LobbyAgain`: a call of a join
  or leave with its retries. A call is a pair of a command id (`LobbyIds`) and a copy
  (`LobbyCopies`): copies of one id may be under way together, and each looks its id up
  and loads the state in two statements;
- `Reap`, `Restart`: the router's housekeeping and the end of the process.

Abstractions. A load under the router's write lock is one step, since every other
caller waits for the lock. After `Restart` no commit of the old process is in flight.
`None` and `Server` stand for no session and for events without a command.

`EventLog` is what these parts promise together: one log that only grows, by whole
batches with the next numbers and one cause, and successes reported only for what is
in it. `GameSession` implements it with the commands that were answered "ok" as
`confirmed` (`ImplementsEventLog`).

### Accounts, StepDeposits, Provisioning, UserService

`Accounts` has what every operation on chips shares: the balance row of a user, the
transaction that holds it, and the connections in use. An update is private to its
transaction until `CommitBalance`; `AddToBalance` waits for the row.

`StepDeposits` is `ReportSteps`, one action per statement: `FindReport`, `Replay`,
`ComputeDelta` (with `LockDaily`, the SELECT FOR UPDATE), `ReadCap`, `ApplyCap`,
`Upsert`, `InsertAudit`, `ApplyDeposit`, `Commit`; `FailReport` ends it anywhere, and
`UpdateSettings` changes the cap meanwhile. A row that another transaction is about
to insert is not seen by `LockDaily` and is waited for by `Upsert`, as in Postgres.
History: `openers` (reports that found no row of their date), `given` (the chips credited
for a user and date, with or without an audit row) and `unaudited` (the dates on which a
report was committed without one).
The clock and the timezone are abstracted to any of `Days`; a retry is a call with
the same report id. `StepsPerChip` is 1, as in the code.

`Provisioning` is `resolveUser`: `Lookup` (cache, then database), `Provision`,
`Reread` after an error, with `Register` (the RPC `CreateUser`) and `Evict` beside it.
A request arrives with the subject of a valid token. `UserService` composes the two:
`ReportSelf` is the step from the resolved principal to the report, `Restart` loses
the cache and rolls back every transaction.

### LobbyWallet, Wallet, Bank

`LobbyWallet` is `JoinTable` and `LeaveTable` statement by statement. A join inserts
its event inside its transaction (`InsertJoined`; the uncommitted row makes other
writers of that number wait, `inserting`) and publishes event and debit together in
`CommitLobby`. A leave takes a second connection (`BeginAppend`), commits its events
(`AppendLeft`) and only then credits (`Credit`, `CommitLobby`). `ConcurrentWrite` is
the retry of the server, at most three attempts. Between them `SessionAppends` plays:
it starts hands, bets chips, folds and pays pots with more freedom than `Table`
leaves it. `Wallet` composes it with `StepDeposits` on the same rows and connections.

`Bank` is what users are promised: deposits, buy-ins and cash-outs of one user in one
step each, no buy-in above the account, chips lost only when a call fails. In the
refinement mapping (`ImplementsBank`) an account is the balance plus the cash-outs
that are on their way; the chips of a game are its stacks and pot.

### LiveHand

What a session keeps beside its state. A card is a shuffle and a place in it, so two
cards are surely different only within one shuffle; shuffle 0 is the order of a new
deck. `runAdvance` works a batch out step by step (`work`) and `AppendBatch` commits
or drops it in one step; the deck changes meanwhile, as in the code. `Arms` is
`resetDeadline`, called after a load, a batch and a failure. Which player acts and
when rounds and hands end is left open: every outcome that `Table` allows may happen.
`unclean` and `lost` are history: the hand's deck was replaced, the turn's timer is
gone for good.

### Showdown

`eval5`, the enumeration of combinations in `bestHand` (one step per combination), the
players without hole cards that the evaluation skips (`SkipPlayer`), and for one pot after
another (`AwardPot`) the loop of `potWinners` over its list (one step per player) with the
fallback `firstEligibleInOrder`, next to the rules of the game stated on
sets of cards, without ranks as numbers: kinds of hands in order, then the ranks that
occur most often. A sort is an order of the positions that puts the largest keys first
(`SortOrder`); the five keys of `Tiebreakers` stand for the groups, one per card.

### SidePots

`computePots` step by step: the contributors in an order that the sort may leave
(`SortedEntries`: any order of equal commitments, since the sort is not stable and
starts from a map), one step per entry of the scan, one step per pot of the merge. A list
of eligible players is the place of each player in it: those of the action order first,
then the others in the order of the entries. The property compares the result with the
pots by level that `Table` uses (`Eligible`, `Pots`, `PotAmount`, `MainPot` there;
`EligibleAt`, `PotGroups`, `ChipsFor` here), so `Table` need not sort.

`EndHand` composes the two as `endHandShowdown` does: the hands of those in the action
order who have not folded, then the pots, then the winners of each pot among the players
on its list. Listed players who are not in the action order, all-in since an earlier
street, are never evaluated; players who sat down during the hand have no cards. The
main pot is passed over at will (`NextPot`), as the code does when the rake leaves
nothing of it.

### MC modules, proofs

`MCTable`, `MCGameSession` and `MCUserService` add the symmetry sets: players differ
only in their seats and stacks, sessions, commands, calls, report ids, dates and users
in nothing. `MCWallet` has the sets of lobby calls, `MCShowdown` the boards and
the commitments.
The modules `..._proofs` hold
the theorems, each about the module it is named after:

- `Counting_proofs`: smallest and largest elements of finite sets, and sums: what a
  changed amount, a moved amount and a division into shares do to `Total`;
- `Table_proofs`: turns, types, termination, and where the chips go;
- `Showdown_proofs`: what `eval5`, `bestHand`, `potWinners` and, about `SidePots`,
  `computePots` compute;
- `GameSession_proofs`, `LiveHand_proofs`;
- `StepDeposits_proofs`: one lemma per statement of `ReportSteps`, used by
  `UserService_proofs` and by `Wallet_proofs`, which compose it with their own steps.

## 3. The runs

| Run | Shows |
|---|---|
| `stable_table` | Over two raked hands chips are conserved exactly, the pot is the sum of the commitments, betting rounds end settled, and nobody wins more than they matched. |
| `open_table` | With joins, departures and pauses at any moment of a hand the turn order holds, bets are backed by chips, no chips are created, the lifecycle loop gets closer to its end with every step, and who has folded and stays at the table stays folded and is not paid. |
| `hands_resolve` | With an action timeout every hand ends, or reaches the state `v_rests_only_to_wait` is about, even if players never act, unless a turn is left without a timer (`Unattended`), and also then as long as commands of any kind keep coming; on a fixed-limit table whose antes can make a stack negative. |
| `quiet_session` | Without lobby operations and store errors, a command sent three times: the routed session's state has every event of the log, more than once at most the first event of a repeated command; only one session is about to write, through idle exits, reaping, reloads and restarts; and every call of `Submit` returns, also when its command went into the inbox of a session that has exited. |
| `open_session` | Two copies of one join or leave, a command and a timeout on a store that may fail at every call: the log is contiguous, no state is ahead of it, a reported success is in it, no call of a join or leave is written twice or on another state than it was decided on, and all of it implements `EventLog`. |
| `step_deposits` | Three reports of a new user with two ids on two dates, a cap that changes and one failure or restart: racing requests share one account, every step is credited once (unless two reports open the same date at the same time), and a report that found its row never takes the chips given for the date over the cap it has read, unless an earlier one of the date has no audit row. |
| `wallet` | Three of five lobby calls, a step report, play and one failure: nothing is created or overdrawn, nothing is lost but the stack of a leave that failed after its events, seats are distinct, `Bank` is implemented, and every call returns. |
| `live_hand` | Two hands, two failures, two ends of the session: while the dealer that started a hand lives and has not shuffled for a next one, all cards of the hand differ; the timer is armed whenever somebody's deadline is ahead; silent turns end without any command, unless the session ended, a reload came too late, or the session was busy when the deadline passed. |
| `showdown` | On six boards, each with six cards that three players hold in any way, the hand `bestHand` returns is not beaten by any other five of the seven cards, and `potWinners` returns, of the players on the pot's list who are evaluated, exactly the unbeaten ones, or the first on the list in the action order if there are none. And with two deals, in which players have no cards, for any commitments of four players up to three chips, any order of ties and a fourth player who has folded or is all-in outside the action order, `computePots` makes one pot per group of players, the main pot first and each later one for fewer players, with exactly the chips the group has matched. |
| `v_rests_only_to_wait` | Refutes the comment that the engine rests only to wait for a player: with everybody all-in the hand stays open with nobody to act. |
| `v_leave_atomic` | Refutes that `LeaveTable` is atomic: a failure between the append and the commit loses the stack. |
| `v_one_shuffle` | Refutes that a failed write leaves the session as it was: the deck of the running hand has been replaced. |

Every property of a passing run has a mutant in `PROJECT.json`, a plausible bug in
the code under which TLC finds the property violated. The mutated definitions stand
before the ones they mutate, under a comment that starts with "Mutant".

### Bounds, and why they are enough

- Three players: the dealer, both blinds and a player who is none of them before a
  departure makes the table heads-up; three commitment levels, so a main pot and two
  side pots. Two-player hands occur as well.
- Blinds 1 and 2, stacks of 2 to 6 chips: short blinds, short calls, full and short
  raises and odd chips all occur. Two hand ranks: wins and ties in every combination.
- Two hands in `stable_table`, so that the button moves and busted players are sat
  out; one hand elsewhere (`MaxHands`).
- The rake is capped at one chip: with an uncapped rake conservation fails, see
  section 6.
- Two session instances: an invalidated or expired session and its successor. One
  command sent three times in `quiet_session`, one command and two copies of one lobby operation in
  `open_session`. `MaxBatch` 2 makes batches overlap in
  part. `InboxSize` 1 or 2 makes a full inbox reachable. `MaxAttempts` bounds the
  repetitions of a command, `MaxTimeouts` the deadlines that fire.
- In `open_table` a wallet pays for one buy-in of 4, so a player who leaves comes back
  in the same hand only if no chip was lost.
- `step_deposits`: two connections, so that reports wait for each other; step counts 1
  and 3 and a cap of 2, so that a report is a no-op, a partial or a full credit; two
  users, the one of the subject and one it might wrongly be given.
- `wallet`: u1 has chips for one of the two tables it joins, u2 asks for the seat u1
  would be given, u1's leave is sent twice; three of these calls are made, so each pair
  meets. Three connections: a leave needs two, and with two connections two leaves
  block each other (see the hazard at `store.go:365`). Two events of sessions and
  those of the other calls make conflicts, and with them retries, happen.
- `live_hand`: the deck has twelve cards, exactly those of a hand of two players, so
  one failed batch already exhausts it; two hands, so that a batch ends one hand and
  starts the next.
- `showdown`: the boards were chosen so that hands of all nine kinds meet, with ties,
  kickers, the ace-low straight and runs around the ace, which are none.
  Hands and pots are computed from different fields of the state, so all deals are
  tried with one set of commitments and all commitments with two deals: one where a
  listed player has no cards and p4, all-in outside the action order, holds the best hand,
  and one where nobody listed has cards. With four players
  and three levels the chips of the fourth can lie between two levels of the others, so
  that pots are merged, in the middle and at the end; ties occur at every level.
- The runs other than those of `Table` do not check for deadlock: once the bounded calls are
  done the server may rightly do nothing. `Table` never deadlocks, because
  informational commands are always possible; that a hand does not stop for good is
  `HandsResolve`.

### Fairness

`Table!FairSpec`: the goroutine inside `runAdvance` goes on (weak fairness of
`Advance`) and an armed timer is served (weak fairness of `DeadlineTimer`, which is enabled only while
`armed`: a session that found the deadline over has set no timer, and nothing is assumed of
it). The clock
moves although commands interrupt the waiting, which disables and enables
`DeadlinePasses` again and again: strong fairness. Players are never obliged to act.
`GameSession!FairSpec`: goroutines that can take a step do (weak fairness of
`SessionStep`, `Enqueue` and `AwaitReply`); `Receive` competes with other cases of a
select, and Go chooses among the ready ones at random: strong fairness. Lobby
operations, idle timers and restarts are not obliged to happen.
`Wallet!FairSpec`: as long as some call in progress need not wait for another, one of
them goes on (weak fairness of `Progress`); which one is open, and nobody has to start
a call or fail. `LiveHand!FairSpec`: a batch is worked out to its end, an armed timer
whose time has come is served, and time passes (weak fairness of `RunAdvance`, `Fire`
and `Expire`); nobody has to send a command, so a turn can only end by its timer.

## 4. What is proved

For every value of the constants that satisfies the ASSUMEs (finite sets of players,
users, games, commands, calls and sessions; the configuration checks of
`validateCashGameConfig`):

| Theorem | Statement | Argument |
|---|---|---|
| `TableTypeOK` | `Spec => []TypeOK` | Inductive as it stands. The lemmas show that `CHOOSE` picks a listed player, that rotated orders stay within the seats, and that pots, shares and rake are natural numbers. |
| `TableActingIsFirstPending` | `Spec => []ActingIsFirstPending` | Inductive together with `TypeOK`. |
| `TableStacksAndBetsSound` | `Spec => []StacksAndBetsSound` | Inductive together with `TypeOK`; without antes, `bet <= committed` makes what is put in stay backed. |
| `TableFoldedStaysOut` | `Spec => FoldedStaysOut` | From `TypeOK`: winners of a pot are live, live players have not folded, and the flag is kept by every step but the end of the hand and the player's own leave. |
| `TableAdvanceTerminates` | `Spec => AdvanceTerminates` | From `TypeOK`: every lifecycle step lowers `AdvanceRank`, which is at most 6, far below `maxSteps` = 64. |
| `TableCreatesNoChips`, `SmallRakeCreatesNoChips` | `Spec => []NoChipsCreated` without antes, if every rake fits its main pot | `CreationInv` |
| `TableRoundSettled` | `StableSpec => RoundSettled` | `RoundInv` |
| `TablePotIsCommitments` | `StableSpec => []PotIsCommitments` without antes | `HandInv` |
| `TableConservesChips`, `SmallRakeConservesChips` | `StableSpec => []ChipsConserved` without antes, if every rake fits its main pot | `HandInv` |
| `TableWinsAtMostMatched` | `StableSpec => WinsAtMostMatched` without antes | `HandInv` |
| `SessionLogContiguous`, `SessionStatePersisted`, `SessionRepliesPersisted` | `Spec => []LogContiguous`, `[]StatePersisted`, `[]RepliesPersisted` | `IInv` |
| `LobbyDecisionsCurrent`, `LobbyWritesOnce` | `Spec => LobbyDecidesOnLog`, `LobbyOnce` | `IInv` and `LobbySound` |
| `SessionImplementsEventLog` | `Spec => ImplementsEventLog` | `IInv` |
| `QuietOneWriter` | `Spec => []OneWriter` if `LobbyOps = {}` | `Alone` and `Uncancelled` |
| `QuietStateIsLog` | `Spec => []StateIsLog` if `LobbyOps = {}` and the store works | `QInv` |
| `UserHasOneAccount` | `Spec => []OneAccount` | `Identified` |
| `UserStepsCreditedOnce`, `UserCapRespected` | `Spec => []StepsCreditedOnce`, `CapRespected` | `DepositInv`, `MarksCredited`, `AuditInv` |
| `WalletNeverOverdrawn`, `LobbySeatsDistinct` | `Spec => []NeverOverdrawn`, `[]SeatsDistinct` | `WalletInv` |
| `WalletImplementsBank` | `Spec => ImplementsBank` | `WalletInv` |
| `WalletConservesChips` | `Spec => []WalletSound` | the refinement |
| `HandNoCardTwice`, `HandDeadlineArmed` | `Spec => []NoCardTwice`, `[]DeadlineArmed` | `DeckOfHand`, `DeckOfWork` |
| `EvalOrdersHands` | `eval5(a) > eval5(b) <=> Beats(Range(a), Range(b))` for any hands `a`, `b` of five of the 52 cards | `EvalShape`, `ShapeAbove` |
| `BestHandCorrect`, `WinnersCorrect` | `Spec => []BestHandIsBest`, `[]WinnersHoldBestHand` | `LoopInv` and `EvalOrdersHands` |
| `PotsCorrect` | `PotsSpec => []PotsFollowLevels` | `PotsInv` |
| `EndHandCorrect` | `EndHandSpec => []PotsFollowLevels`, `[]BestHandIsBest`, `[]WinnersHoldBestHand` | `PotsInv` and `LoopInv` together: the list handed to `AwardPot` is a sequence of players of the hand, because the merged pots are sets of them |

The inductive invariants, and why they are needed:

**The log.** `LogContiguous` alone is not inductive: an append keeps the log
contiguous only if the batch starts right behind its end. `IInv` of
`GameSession_proofs` adds that every pending batch, of a session or a lobby operation,
follows some number that is in the log (`WritersSound`). Lemma `InsertContinues` is the
heart of the proof: such a batch either meets a taken number and is refused as a whole,
or starts exactly at the end. For the replies `IInv` also says that answers not yet
delivered are about commands in the log (`AnswersSound`) and that a session away from
its select has a request to answer (`WorkSound`). A lobby call past its lookup
has no row of its own in the log, one that has succeeded has its command id there, and
rows carry the id of the call that wrote them (`LobbySound`): so a call is written once.
Its lookup says nothing of other copies of the id, and neither does the theorem. The refinement of `EventLog` has one lemma per way of writing; every other step
is invisible or confirms what `AnswersSound` knows to be in the log.

**The quiet session.** Without lobby operations nothing cancels a session, so the
session in the map is the only one that runs (`Alone`); that `Alone` holds is shown for
all behaviours, that nothing is cancelled only for these. `QInv` says what a state is:
every event of the log once, the first event of a command at most as often as the
command has been answered. That count needs every request to be queued once and
answered once (`RequestsSound`). The hypotheses are those of the comment "One Session
per active game owns that game's state": with joins and leaves `OneWriter` is false
(section 6), and with a failing lookup a repeated command is executed again.

**The betting round.** `RoundInv` says that the listed players include the active ones
and that whoever has acted, is in and has chips has matched the highest bet. Every
command is a pass or a raise (`TurnStep`, `PassStep`, `RaiseStep`), so the cases are
few. It holds with antes.

**The chips.** `Sound` (amounts are natural, absent players have no chips, no pot
outlives its hand) with the lemmas of `Counting_proofs` gives the sum of wallets,
stacks, pot and rake after each step: a bet moves as much as it takes, the pots of a
showdown divide the commitments (`PotsDivideCommitments`), the shares divide a pot.
With players who leave during a hand the commitments are at most the pot
(`CommitmentsInPot`), hence no chips are created; with players who stay they are the
pot (`PotIsCommitments`) and, since after the flop a player who is still in holds the
highest bet (`HighBetHeld`) and covers the earlier streets (`EarlierStreetsCovered`),
every pot has a winner, hence none are lost.

The hypotheses. `NoAntes`: an ante may exceed the stack it is taken from, and then the
stack is negative (the code does not check it), so amounts are no numbers of chips.
`RakeFits`, at the showdown the rake is at most the main pot: the code computes the
rake on the whole pot and takes it from the main pot, and conservation is false without
it (section 6). The theorems `SmallRake...` have no such hypothesis: with
`RakeBps` = 0 or `RakeCap` = 1, `RakeFits` is a lemma.

**Deposits.** `DepositInv`: a report that found the row of its date holds it from
`LockDaily` to its end, the others from the upsert on (`DayLocks`); so what a report is
about to add is what exceeds the mark still in the row (`DeltasFit`), cut off by the cap
it has read (`LimitsRead`, `CapsFit`). `MarksCredited` relates marks to chips: a user's
deposits are at most the sum of the user's marks, and equal to it while no report has
read a cap, if each date was opened by one report. `AuditInv`:
the audit rows of a date add up to the chips given for it, unless it is in `unaudited`,
and a report that has inserted its row is the only one with its id; so the sum `ApplyCap`
reads under the lock of the date is what has been given. Each statement keeps these
whatever else is in the system, so both compositions use the same lemmas.

**Accounts.** `OneAccount` needs only that a request has a subject from its arrival on
and a principal when it is let through (`Identified`).

**The wallet.** `RowsHeld` says who holds the row of a user and what change is pending
there: a report its delta, a join minus its buy-in, a leave its cash-out; a join took the
row when the balance sufficed, and nobody else can change it since. `PlanCurrent` says
that what a call has decided (the free seat, the stack to cash out) still describes
the table as long as the sequence number it has loaded is the latest: hence the number
an event gets proves the decision right, seats are distinct and a leave cashes out the
whole stack. The refinement of `Bank` has one lemma per operation; the commit of a
report is `Deposit`, the commit of a join `BuyIn`, the append of a leave `CashOut`, a
failure `Fail`, and everything else, play included, is invisible. `WalletSound` then
follows from `Bank` alone, whose steps keep the sum.

**The deck.** As long as the hand is clean, its cards come from the drawn part of the
deck the dealer still has, each from a place of its own (`DeckOfHand`), and the same
holds for the batch in progress (`DeckOfWork`): a batch that fails leaves the deck
further drawn, which keeps both.

**The showdown.** Two facts that do not mention the loops come first. `EvalShape`: the
number of a hand is its category and five digits, the category is the kind of the hand
by the rules, and the digits are the top of the straight or the ranks in the order in
which the rules compare them (`Shape`). It rests on three lemmas about five ranks: an
order that sorts the keys exists (`SortOrder` is the one of least weight: two
neighbours out of order could be exchanged), equal ranks stand next to each other in
the tiebreakers, and a straight or a flush has five different ranks (`KindOfDistinct`),
while the other hands have the groups of `KindOfGroups`. `NumberOrder`: numbers with
digits below 16 compare digit by digit. Together they give `EvalOrdersHands`. Second,
`NextCombinationFollows`: the combination after `idx` is the next one in lexicographic
order, so nothing lies between them, and no position can move only in the last one.
`LoopInv` then says that `best` is the best of the combinations before `idx`
(`Searching`), that exactly the players before `current` with hole cards have their best
hand (`Found`), that the winners so far are those with the highest number among the
evaluated players on the list before `judged` (`Leading`), and that a decided pot has gone
to the best of the evaluated players on its list, or to the first of the list in the action
order if there are none (`Decided`). Recursion is nowhere needed: five positions are few enough to be named.

**The pots.** `PotsInv` says that there are levels 0 = `lv[0]` < `lv[1]` < ... such that
`raw[j]` holds the chips between `lv[j - 1]` and `lv[j]`, where nobody has stopped
(`Bands`), and that the merged pots are right for the levels up to `lv[taken]`
(`MergedTo`). The entries from the one that starts a level on are exactly the players who
have put in that much (`LevelOfEntry`), so the code's product counts the chips of the
band (`ChipsOfBand`). A higher level has no more players (`EligibleShrinks`): if the next
band has other players than the last pot, no earlier pot has the same ones either, which
is why comparing neighbours is enough (`MergeIntoLast`, `MergeAsNew`). A list is
determined by its players, so two lists are the same exactly if their players are.

TLC finds each of these invariants true on the instance of the run that checks the
property (with bounds for the `Nat` quantifiers of `LogNumbered` and `BatchFollows`;
`LoopInv` with its unbounded quantifiers over the players, for the two deals with three sets
of commitments; `PotsInv` for three players).

Only model-checked: the liveness properties (`HandsResolve`, `SubmitReturns`,
`CallsReturn`, `TurnEnds`), which are out of the prover's reach.

## 5. What is not modelled

- `CreateTable`'s idempotency check: it finds nothing to check against when two calls
  race, and the insert has no unique index on the command id. `SearchTables` and the
  other read-only RPCs change nothing; the rest answer Unimplemented.
- Token validation (a library), the development stub, and claims, which only name a
  user.
- Which permutation a shuffle yields, and the hiding of cards from other players.
- Descriptions of hands, reason texts, formatting of events and scanning of rows.
- Snapshots other than the one `CreateTable` writes: nothing takes any.
- Deletion of users and games: nothing calls it.
- Configuration and start-up.

## 6. Disagreements between the code and its comments

Three are runs (section 3) and findings in `PROJECT.json`. The next ones are stated as
properties in the modules and TLC refutes them when they are named in a cfg of the
same instances; none of them is a run:

- `PendingAreActive`: `resetStreetState` fills `pending_actions` with "all active (not
  folded, not all-in) players" (`engine/apply.go:576`), but looks at the stack and
  `is_sitting_out` only: folded players are asked again on the next street.
- `UncontestedMeansFolded`: "Uncontested: all but one player folded."
  (`engine/advance.go:69`), but players who are all-in are no longer listed and lose
  the pot unshown.
- `PotPaidInFull`: the bet of a player who leaves "is already committed to the pot (it
  stays there)" (`lobby/join_leave.go:182`), but `computePots` adds up the players
  still at the table, and at the showdown nobody is paid it.
- `DuplicatesIgnored`: "The server ignores duplicate command_ids that have already
  been processed." (`proto/poker/v1/commands.proto:17`), but `run` applies the first
  stored event, which `process` returns, once more.
- `SessionDecidesOnLog`: the gap before the insert is "safe because the session
  serialises all writes for a given game." (`engine/session.go:357`), but joins and
  leaves write too, and a command that races one is decided on a state without it.
- `AuditCoversDeposits`: "ON CONFLICT DO NOTHING handles the narrow race where two
  identical report_ids both pass step 1 concurrently." (`store/users.go:374`), but the
  loser of the race credits its delta all the same, without an audit row. The cap is
  computed from the audit rows, so later reports of the date can exceed it by that much:
  `CapRespected` excepts these dates.
- `LobbyIdOnce`: "the caller should retry (with the same CommandID for idempotency)"
  (`lobby/join_leave.go:22`), but the command id is looked up before the state is
  loaded (`lobby/join_leave.go:29`). A copy of the join that looks before the other
  commits, and loads after the user has left again, seats and debits the user a second
  time.
- `OnlyHoldersPaid`: "Auto-fold if the player is in an active hand"
  (`lobby/join_leave.go:181`), but the fold is a flag of the `PlayerState` that
  the leave deletes. A player who leaves, folded or not, and joins again in the same hand
  is still listed in the action order, has no cards, and can win the pot.
- `PotGoesToBestHand`: "Award each pot to the player(s) with the best hand among eligible
  players." (`engine/advance.go:369`), but only players in the action order are evaluated,
  and who is all-in since an earlier street is no longer in it (`engine/apply.go:615`): on
  the pot's list (`engine/pot.go:69`), skipped by `potWinners` (`engine/advance.go:407`).

The others were met while modelling; the model does what the code does, and no
property is about them, or the properties named here except them:

- Two first reports of a date find no row to lock (`store/users.go:316`) and are both
  credited in full; `StepsCreditedOnce` excepts users with such reports.
- A session that is busy when a deadline passes, or loaded after it, arms no timer
  (`engine/session.go:196`): "the lazy check in advance() handles it on the next
  command", which may never come. `TurnEnds` and `HandsResolve` except these turns.
- A session reloaded during a hand deals from a new deck in its initial order
  (`engine/router.go:103`, `engine/dealer.go:29`). `NoCardTwice` excepts these hands.
- As many leaves at once as the pool has connections wait for each other
  (`store/store.go:365`).
- A sub-minimum all-in made with a raise command emits `PlayerRaised`, which clears
  `action_closed_for` (`engine/apply.go:356`), against
  `engine/validate_actions.go:135`; `validateAllIn` does not look at
  `action_closed_for` nor at the raise cap.
- "Include any eligible player not in ActionOrder (shouldn't happen in practice)."
  (`engine/pot.go:69`): `resetStreetState` drops players without chips from the action
  order, so everybody who was all-in on an earlier street is such a player.
- `computeRake` (`engine/pot.go:117`) never reads `no_flop_no_drop`.
- The rake is computed on the whole pot and subtracted from the main pot
  (`engine/advance.go:366`), which can be smaller: the rest of the recorded rake is
  paid by nobody.
- A lookup of a command id that fails counts as not found
  (`engine/session.go:271`), so a repeated command can be executed again.
- `Invalidate` does not wait for the session it cancels (`engine/router.go:184`): two
  sessions of a game may append at the same time, so `OneWriter` holds only where
  nobody joins or leaves.
- `client_state_version` (`proto/poker/v1/commands.proto:23`) is never read.

## 7. Plan

Done: every module of the first plan but `Ledger`, with the runs above and the theorems
of section 4, which state every safety property of the passing runs. Left:

- `Ledger`: the chips of `Table` under `StableSpec` as a refinement of `Bank`'s table.
