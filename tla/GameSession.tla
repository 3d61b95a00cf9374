----------------------------- MODULE GameSession -----------------------------
(***************************************************************************)
(* The event log of one game and everyone who writes to it: the sessions   *)
(* (engine/session.go) that process commands one at a time on an in-memory *)
(* state, the router (engine/router.go) that loads, finds and drops them,  *)
(* the callers of Submit, and the lobby operations that append to the log  *)
(* behind the session's back and invalidate it afterwards.                 *)
(*                                                                         *)
(* Abstractions.  The state of the game is the collection of events applied*)
(* to it: a bag of log positions, so that an event that is missing or has  *)
(* been applied twice shows.  What the handler decides is left to module   *)
(* Table; here a command just produces between one and MaxBatch events.    *)
(* Every call of the store is one step, and a call whose context has been  *)
(* cancelled, or any call if the store is unreliable, may fail.            *)
(***************************************************************************)
EXTENDS Integers, Sequences, FiniteSets, Bags

CONSTANTS
  Commands,      \* command ids of the players
  MaxAttempts,   \* bound: Submit calls with the same command id
  LobbyIds,      \* command ids of joins and leaves
  LobbyCopies,   \* bound: calls with the same id that may be under way together
  Sessions,      \* bound: instances NewSession may create
  InboxSize,     \* SessionOptions.InboxSize
  MaxBatch,      \* bound: events one command produces
  MaxTimeouts,   \* bound: action deadlines that fire
  Unreliable,    \* TRUE iff calls of the store may fail at any time
  None,          \* no session, no request
  Server         \* the cause of events that no command has caused

Requests == Commands \X (1..MaxAttempts)

\* Calls of JoinTable and LeaveTable: a command id and which copy of the call it is.
LobbyOps == LobbyIds \X LobbyCopies

ASSUME SessionAssumption ==
  /\ IsFiniteSet(Commands) /\ IsFiniteSet(LobbyOps) /\ IsFiniteSet(Sessions)
  /\ MaxAttempts \in Nat /\ MaxTimeouts \in Nat
  /\ InboxSize \in Nat \ {0} /\ MaxBatch \in Nat \ {0}
  /\ Unreliable \in BOOLEAN
  /\ Server \notin Commands \cup LobbyIds
  /\ Commands \cap LobbyIds = {}
  /\ None \notin Sessions \cup Requests
  /\ Server \notin Requests \cup LobbyOps

VARIABLES
  log,        \* game_events: rows of a sequence number, the command and the writer
  routed,     \* Router.sessions: the session of the game, or None
  status,     \* "new", "running" or "closed" (run has returned)
  cancelled,  \* sessions whose context has been cancelled
  state,      \* the in-memory GameState: a bag of sequence numbers
  inbox,      \* Session.inbox: requests not received yet
  pc,         \* where run is: "select", "lookup", "stamp" or "append"
  current,    \* the request being processed, or Server
  batch,      \* the sequence numbers stampEvents gave
  call,       \* Submit: "unsent", "routed", "queued", "ok" or "failed"
  target,     \* the session a call goes to
  reply,      \* the reply channel of a request: "empty", "ok" or "failed"
  lobby,      \* "lookup", "load", "append", "invalidate", "done" or "failed"
  base,       \* latest sequence a lobby operation has loaded
  tries,      \* attempts of retryOnConcurrentWrite that met a conflict
  timeouts    \* action deadlines that have fired

sessionVars == <<status, cancelled, state, inbox, pc, current, batch>>
callVars    == <<call, target, reply>>
lobbyVars   == <<lobby, base, tries>>
vars == <<log, routed, sessionVars, callVars, lobbyVars, timeouts>>

-----------------------------------------------------------------------------
(***************************************************************************)
(* The store.                                                              *)
(***************************************************************************)

Numbers == {row.seq : row \in log}

\* GetLatestSequence.  CreateTable has written the first event.
Latest == CHOOSE n \in Numbers : \A m \in Numbers : m <= n

\* FindEventByCommandID: the first event of command c in this game.
Processed(c) == \E row \in log : row.cmd = c
FirstEvent(c) ==
  CHOOSE n \in Numbers : \E row \in log :
    /\ row.seq = n /\ row.cmd = c
    /\ \A other \in log : other.cmd = c => n <= other.seq

\* Mutant: without the unique index on (game_id, sequence).
ConflictUnchecked(seqs) == FALSE

\* UNIQUE (game_id, sequence): one taken number refuses the whole batch.
Conflict(seqs) == seqs \cap Numbers # {}

Insert(seqs, c, writer) ==
  log' = log \cup {[seq |-> n, cmd |-> c, by |-> writer] : n \in seqs}

\* Mutant: the first event after the snapshot is skipped.
LoadStateOffByOne == SetToBag(Numbers \ {2})

\* loadState: the snapshot CreateTable wrote and every later event, once.
LoadState == SetToBag(Numbers)

-----------------------------------------------------------------------------
(***************************************************************************)
(* Callers of Router.Submit.                                               *)
(***************************************************************************)

NewSession(s) ==
  /\ status[s] = "new"
  /\ status' = [status EXCEPT ![s] = "running"]
  /\ state' = [state EXCEPT ![s] = LoadState]
  /\ routed' = s

\* getOrLoad: the session in the map, whether it still runs or not, or a new one.
\* The write lock makes loading and inserting one step for every other caller.
GetOrLoad(r) ==
  \/ /\ routed # None
     /\ target' = [target EXCEPT ![r] = routed]
     /\ UNCHANGED <<routed, status, state>>
  \/ /\ routed = None
     /\ \E s \in Sessions : NewSession(s) /\ target' = [target EXCEPT ![r] = s]

Route(r) ==
  /\ call[r] = "unsent"
  /\ \/ GetOrLoad(r) /\ call' = [call EXCEPT ![r] = "routed"]
     \/ /\ Unreliable /\ routed = None
        /\ call' = [call EXCEPT ![r] = "failed"]
        /\ UNCHANGED <<routed, status, state, target>>
  /\ UNCHANGED <<log, cancelled, inbox, pc, current, batch, reply, lobbyVars, timeouts>>

\* The first select of Submit: a send to the inbox, or ErrSessionClosed, or
\* ErrInboxFull when neither is possible.  A closed session still has an inbox.
Enqueue(r) ==
  LET s == target[r] IN
  /\ call[r] = "routed"
  /\ \/ /\ Len(inbox[s]) < InboxSize
        /\ inbox' = [inbox EXCEPT ![s] = Append(@, r)]
        /\ call' = [call EXCEPT ![r] = "queued"]
     \/ /\ status[s] = "closed" \/ Len(inbox[s]) >= InboxSize
        /\ call' = [call EXCEPT ![r] = "failed"]
        /\ UNCHANGED inbox
  /\ UNCHANGED <<log, routed, status, cancelled, state, pc, current, batch, target,
                 reply, lobbyVars, timeouts>>

\* Mutant: Submit waits for the reply only.
AwaitReplyOnly(r) ==
  /\ call[r] = "queued"
  /\ reply[r] # "empty"
  /\ call' = [call EXCEPT ![r] = reply[r]]
  /\ UNCHANGED <<log, routed, sessionVars, target, reply, lobbyVars, timeouts>>

\* The second select of Submit: when the session has closed too, the caller may be
\* told so although its command has been processed.
AwaitReply(r) ==
  /\ call[r] = "queued"
  /\ \/ /\ reply[r] # "empty"
        /\ call' = [call EXCEPT ![r] = reply[r]]
     \/ /\ status[target[r]] = "closed"
        /\ call' = [call EXCEPT ![r] = "failed"]
  /\ UNCHANGED <<log, routed, sessionVars, target, reply, lobbyVars, timeouts>>

\* The caller's context ends: the command stays in the inbox.
GiveUp(r) ==
  /\ call[r] \in {"routed", "queued"}
  /\ call' = [call EXCEPT ![r] = "failed"]
  /\ UNCHANGED <<log, routed, sessionVars, target, reply, lobbyVars, timeouts>>

-----------------------------------------------------------------------------
(***************************************************************************)
(* Session.run.                                                            *)
(***************************************************************************)

AtSelect(s) == status[s] = "running" /\ pc[s] = "select"

\* A call of the store with the context of s may fail.
MayFail(s) == Unreliable \/ s \in cancelled

\* The command that s is processing; the server's own steps have none.
CurrentCommand(s) == IF current[s] = Server THEN Server ELSE current[s][1]

\* process returns: run answers and goes back to its select.
Return(s, outcome) ==
  /\ pc' = [pc EXCEPT ![s] = "select"]
  /\ reply' = IF current[s] = Server THEN reply
              ELSE [reply EXCEPT ![current[s]] = outcome]
  /\ current' = [current EXCEPT ![s] = None]
  /\ batch' = [batch EXCEPT ![s] = {}]

Receive(s) ==
  /\ AtSelect(s)
  /\ inbox[s] # <<>>
  /\ inbox' = [inbox EXCEPT ![s] = Tail(@)]
  /\ current' = [current EXCEPT ![s] = Head(inbox[s])]
  /\ pc' = [pc EXCEPT ![s] = "lookup"]
  /\ UNCHANGED <<log, routed, status, cancelled, state, batch, callVars, lobbyVars,
                 timeouts>>

\* The deadline timer fires: runProactiveAdvance, with no command to look up.
DeadlineFires(s) ==
  /\ AtSelect(s)
  /\ timeouts < MaxTimeouts
  /\ timeouts' = timeouts + 1
  /\ current' = [current EXCEPT ![s] = Server]
  /\ pc' = [pc EXCEPT ![s] = "stamp"]
  /\ UNCHANGED <<log, routed, status, cancelled, state, inbox, batch, callVars, lobbyVars>>

\* The session has been idle or its context is cancelled: run returns and its state
\* is gone.
Exit(s) ==
  /\ AtSelect(s)
  /\ status' = [status EXCEPT ![s] = "closed"]
  /\ state' = [state EXCEPT ![s] = EmptyBag]
  /\ UNCHANGED <<log, routed, cancelled, inbox, pc, current, batch, callVars,
                 lobbyVars, timeouts>>

\* A command seen before is answered with its first event, which run applies to the
\* state once more.  A lookup that fails counts as a command not seen before.
LookupByCommandID(s) ==
  /\ pc[s] = "lookup" /\ status[s] = "running"
  /\ \/ /\ Processed(CurrentCommand(s))
        /\ state' = [state EXCEPT ![s] = @ (+) SetToBag({FirstEvent(CurrentCommand(s))})]
        /\ Return(s, "ok")
     \/ /\ ~Processed(CurrentCommand(s)) \/ MayFail(s)
        /\ pc' = [pc EXCEPT ![s] = "stamp"]
        /\ UNCHANGED <<state, current, batch, reply>>
  /\ UNCHANGED <<log, routed, status, cancelled, inbox, call, target, lobbyVars, timeouts>>

\* HandleCommand decides on the state of the session, then the events are numbered
\* after the latest one in the store, whether or not the state includes that one.
StampEvents(s) ==
  /\ pc[s] = "stamp" /\ status[s] = "running"
  /\ \/ /\ \E k \in 1..MaxBatch :
             batch' = [batch EXCEPT ![s] = (Latest + 1)..(Latest + k)]
        /\ pc' = [pc EXCEPT ![s] = "append"]
        /\ UNCHANGED <<current, reply>>
     \/ /\ MayFail(s)
        /\ Return(s, "failed")
  /\ UNCHANGED <<log, routed, status, cancelled, state, inbox, call, target, lobbyVars,
                 timeouts>>

\* Mutant: the state moves on although the append failed.
AppendFailedButApplied(s) ==
  /\ state' = [state EXCEPT ![s] = @ (+) SetToBag(batch[s])]
  /\ Return(s, "failed")

\* Mutant: an error of the append is swallowed.
AppendFailedUnnoticed(s) == UNCHANGED state /\ Return(s, "ok")

\* An append that failed leaves the state alone.
AppendFailed(s) == UNCHANGED state /\ Return(s, "failed")

\* AppendEvents, and on success run applies the events.  A commit whose answer is
\* lost has taken place but counts as failed.
AppendEvents(s) ==
  /\ pc[s] = "append" /\ status[s] = "running"
  /\ \/ /\ ~Conflict(batch[s])
        /\ Insert(batch[s], CurrentCommand(s), current[s])
        /\ state' = [state EXCEPT ![s] = @ (+) SetToBag(batch[s])]
        /\ Return(s, "ok")
     \/ /\ ~Conflict(batch[s]) /\ MayFail(s)
        /\ Insert(batch[s], CurrentCommand(s), current[s])
        /\ AppendFailed(s)
     \/ /\ Conflict(batch[s]) \/ MayFail(s)
        /\ UNCHANGED log
        /\ AppendFailed(s)
  /\ UNCHANGED <<routed, status, cancelled, inbox, call, target, lobbyVars, timeouts>>

SessionStep(s) == LookupByCommandID(s) \/ StampEvents(s) \/ AppendEvents(s)

-----------------------------------------------------------------------------
(***************************************************************************)
(* Lobby operations and the router's housekeeping.                         *)
(***************************************************************************)

\* Mutant: the command id is not looked up.
LobbyLookupUnchecked(j) ==
  /\ lobby[j] = "lookup"
  /\ lobby' = [lobby EXCEPT ![j] = "load"]
  /\ UNCHANGED <<log, routed, sessionVars, callVars, base, tries, timeouts>>

\* The transaction of JoinTable or LeaveTable begins with FindEventByCommandID: a
\* command id that is in the log by now succeeds, with the state as it is.
LobbyLookup(j) ==
  /\ lobby[j] = "lookup"
  /\ \/ Processed(j[1]) /\ lobby' = [lobby EXCEPT ![j] = "invalidate"]
     \/ ~Processed(j[1]) /\ lobby' = [lobby EXCEPT ![j] = "load"]
     \/ Unreliable /\ lobby' = [lobby EXCEPT ![j] = "failed"]
  /\ UNCHANGED <<log, routed, sessionVars, callVars, base, tries, timeouts>>

\* LoadState, a later statement of the transaction, sees what has been committed since.
\* The call goes on, or the table refuses it: no seat, not seated, or seated already.
LobbyLoad(j) ==
  /\ lobby[j] = "load"
  /\ \/ /\ lobby' = [lobby EXCEPT ![j] = "append"]
        /\ base' = [base EXCEPT ![j] = Latest]
     \/ /\ lobby' = [lobby EXCEPT ![j] = "failed"]
        /\ UNCHANGED base
  /\ UNCHANGED <<log, routed, sessionVars, callVars, tries, timeouts>>

\* Mutant: the events are numbered when they are written, as the session does.
LobbySequencesLate(j, k) == (Latest + 1)..(Latest + k)

\* The events are numbered after the latest one that was loaded.
LobbySequences(j, k) == (base[j] + 1)..(base[j] + k)

\* One event, or two for a player who leaves in a hand.  A conflict is tried up to
\* three times; an error after the commit keeps the session in the map.
LobbyAppend(j) ==
  /\ lobby[j] = "append"
  /\ \E k \in 1..2 :
       \/ /\ ~Conflict(LobbySequences(j, k))
          /\ Insert(LobbySequences(j, k), j[1], j)
          /\ \/ lobby' = [lobby EXCEPT ![j] = "invalidate"]
             \/ Unreliable /\ lobby' = [lobby EXCEPT ![j] = "failed"]
          /\ UNCHANGED tries
       \/ /\ Conflict(LobbySequences(j, k))
          /\ tries' = [tries EXCEPT ![j] = @ + 1]
          /\ lobby' = [lobby EXCEPT ![j] = IF tries[j] < 2 THEN "lookup" ELSE "failed"]
          /\ UNCHANGED log
       \/ /\ Unreliable
          /\ lobby' = [lobby EXCEPT ![j] = "failed"]
          /\ UNCHANGED <<log, tries>>
  /\ UNCHANGED <<routed, sessionVars, callVars, base, timeouts>>

\* The client repeats a call that failed, with the same command id.
LobbyAgain(j) ==
  /\ lobby[j] = "failed"
  /\ lobby' = [lobby EXCEPT ![j] = "lookup"]
  /\ tries' = [tries EXCEPT ![j] = 0]
  /\ UNCHANGED <<log, routed, sessionVars, callVars, base, timeouts>>

\* Router.Invalidate: the session leaves the map and its context is cancelled, but
\* nobody waits for its goroutine.
Invalidate(j) ==
  /\ lobby[j] = "invalidate"
  /\ lobby' = [lobby EXCEPT ![j] = "done"]
  /\ routed' = None
  /\ cancelled' = IF routed = None THEN cancelled ELSE cancelled \cup {routed}
  /\ UNCHANGED <<log, status, state, inbox, pc, current, batch, callVars, base, tries,
                 timeouts>>

\* Mutant: sessions are dropped from the map while they still run.
ReapAny(s) == routed = s

\* reapOnce drops sessions whose goroutine has exited.
Reapable(s) == routed = s /\ status[s] = "closed"

Reap(s) ==
  /\ Reapable(s)
  /\ routed' = None
  /\ UNCHANGED <<log, sessionVars, callVars, lobbyVars, timeouts>>

\* Router.Close, or the process dies: no goroutine is left, the log stays.
Restart ==
  /\ \E s \in Sessions : status[s] = "running"
  /\ routed' = None
  /\ status' = [s \in Sessions |-> IF status[s] = "new" THEN "new" ELSE "closed"]
  /\ call' = [r \in Requests |->
                IF call[r] \in {"routed", "queued"} THEN "failed" ELSE call[r]]
  /\ lobby' = [j \in LobbyOps |->
                 IF lobby[j] \in {"load", "append", "invalidate"} THEN "failed" ELSE lobby[j]]
  /\ state' = [s \in Sessions |-> EmptyBag]
  /\ inbox' = [s \in Sessions |-> <<>>]
  /\ pc' = [s \in Sessions |-> "select"]
  /\ current' = [s \in Sessions |-> None]
  /\ batch' = [s \in Sessions |-> {}]
  /\ UNCHANGED <<log, cancelled, target, reply, base, tries, timeouts>>

-----------------------------------------------------------------------------
Init ==
  /\ log = {[seq |-> 1, cmd |-> Server, by |-> Server]}
  /\ routed = None
  /\ status = [s \in Sessions |-> "new"]
  /\ cancelled = {}
  /\ state = [s \in Sessions |-> EmptyBag]
  /\ inbox = [s \in Sessions |-> <<>>]
  /\ pc = [s \in Sessions |-> "select"]
  /\ current = [s \in Sessions |-> None]
  /\ batch = [s \in Sessions |-> {}]
  /\ call = [r \in Requests |-> "unsent"]
  /\ target = [r \in Requests |-> None]
  /\ reply = [r \in Requests |-> "empty"]
  /\ lobby = [j \in LobbyOps |-> "lookup"]
  /\ base = [j \in LobbyOps |-> 0]
  /\ tries = [j \in LobbyOps |-> 0]
  /\ timeouts = 0

Submit(r) == Route(r) \/ Enqueue(r) \/ AwaitReply(r) \/ GiveUp(r)
Run(s) == Receive(s) \/ DeadlineFires(s) \/ Exit(s) \/ SessionStep(s)
Lobby(j) ==
  LobbyLookup(j) \/ LobbyLoad(j) \/ LobbyAppend(j) \/ Invalidate(j) \/ LobbyAgain(j)

Next ==
  \/ \E r \in Requests : Submit(r)
  \/ \E s \in Sessions : Run(s) \/ Reap(s)
  \/ \E j \in LobbyOps : Lobby(j)
  \/ Restart

Spec == Init /\ [][Next]_vars

\* The goroutines of sessions and callers keep running, and a select that is ready
\* again and again chooses every case some time.
FairSpec ==
  /\ Spec
  /\ \A s \in Sessions : WF_vars(SessionStep(s)) /\ SF_vars(Receive(s))
  /\ \A r \in Requests : WF_vars(Enqueue(r)) /\ WF_vars(AwaitReply(r))

-----------------------------------------------------------------------------
(***************************************************************************)
(* Properties that hold whatever the lobby, the store and the callers do.  *)
(***************************************************************************)

\* The log has no gap and no number twice, with any number of sessions, proactive
\* timeouts and lobby operations writing to it at once.
LogContiguous ==
  /\ Numbers = 1..Latest
  /\ \A x, y \in log : x.seq = y.seq => x = y

\* A session never applies an event that is not in the log: "Persist events via the
\* store BEFORE updating in-memory state", also when appends fail or conflict.
StatePersisted == \A s \in Sessions : BagToSet(state[s]) \subseteq Numbers

\* A caller who is told that a command succeeded finds its events in the log.
RepliesPersisted == \A r \in Requests : call[r] = "ok" => Processed(r[1])

\* A join or leave is written only if nothing has been written since it loaded the
\* state, so its seat, stack and fold are decided on the current table.
LobbyDecidesOnLog ==
  [][\A j \in LobbyOps : (\E row \in log' \ log : row.by = j) => base[j] = Latest]_vars

\* A join or leave that is tried again after a conflict, an error or a lost answer is
\* written once, as long as each try begins after the one before it has ended.  Copies
\* of it that are under way together may both be written (see LobbyIdOnce).
LobbyOnce ==
  [][\A j \in LobbyOps : (\E row \in log' \ log : row.by = j) => \A row \in log : row.by # j]_vars

\* The commands somebody has been told have succeeded.
Confirmed ==
  {c \in Commands : \E r \in Requests : r[1] = c /\ call[r] = "ok"}
    \cup {i \in LobbyIds : \E j \in LobbyOps : j[1] = i /\ lobby[j] = "done"}

L == INSTANCE EventLog WITH Causes <- Commands \cup LobbyIds \cup {Server},
                            confirmed <- Confirmed

\* However many sessions, timers and lobby operations write, fail and are restarted,
\* together they keep one log: whole batches in the order of their numbers, nothing
\* ever removed, and no success reported, or reported and forgotten, without it.
ImplementsEventLog == L!Spec

\* Submit always returns: with the reply, or because the session has closed, even if
\* the command was put into the inbox of a session that has already exited.
SubmitReturns ==
  \A r \in Requests : call[r] \in {"routed", "queued"} ~> call[r] \in {"ok", "failed"}

-----------------------------------------------------------------------------
(***************************************************************************)
(* Properties of a table nobody joins or leaves and on a store that works. *)
(***************************************************************************)

\* The in-memory state is the log, across timeouts, idle exits, reaping, reloads and
\* restarts: no event is missing, and only the first event of a command that was
\* sent again is in it more than once.
StateIsLog ==
  routed # None /\ status[routed] = "running" =>
    /\ BagToSet(state[routed]) = Numbers
    /\ \A n \in Numbers : state[routed][n] > 1 =>
         \E c \in Commands :
           /\ Processed(c) /\ FirstEvent(c) = n
           /\ state[routed][n]
                <= Cardinality({r \in Requests : r[1] = c /\ call[r] # "unsent"})

\* Only one session at a time is about to write: "One Session per active game owns
\* that game's state" (package engine).  A session that a join or leave invalidates
\* while it appends is replaced before it is done, so the lobby breaks it.
OneWriter ==
  \A s, t \in Sessions :
    status[s] = "running" /\ status[t] = "running" /\ pc[s] = "append" /\ pc[t] = "append"
      => s = t

-----------------------------------------------------------------------------
(***************************************************************************)
(* What the repository's comments say, and the code does not do.           *)
(***************************************************************************)

\* PlayerCommand.command_id: "The server ignores duplicate command_ids that have
\* already been processed."  A duplicate's first event is applied once more.
DuplicatesIgnored ==
  [][\A s \in Sessions :
       status[s] = "running" /\ log' = log => state'[s] = state[s]]_vars

\* JoinTable: "the caller should retry (with the same CommandID for idempotency)".  A
\* copy that has looked its id up before the other commits, and loads after it, writes
\* too, if the table does not refuse it: the user may have left again.
LobbyIdOnce ==
  [][\A j \in LobbyOps : (\E row \in log' \ log : row.by = j) => ~Processed(j[1])]_vars

\* stampEvents: the gap before the insert "is safe because the session serialises all
\* writes for a given game".  The lobby writes too, and the session's events are then
\* decided on a state that the log has left behind.
SessionDecidesOnLog ==
  [][\A s \in Sessions :
       pc[s] = "append" /\ state'[s] # state[s] => state[s] = SetToBag(Numbers)]_vars

=============================================================================
