-------------------------- MODULE GameSession_proofs --------------------------
(***************************************************************************)
(* Proofs about GameSession, for any number of sessions, commands, retries *)
(* and lobby operations, on a store that may fail at every call.           *)
(***************************************************************************)
EXTENDS GameSession, Counting_proofs, FiniteSetTheorems, TLAPS

\* The part of the type of the state that the proofs need.
SessionTypes ==
  /\ state = [s \in Sessions |-> state[s]]
  /\ pc = [s \in Sessions |-> pc[s]]
  /\ current = [s \in Sessions |-> current[s]]
  /\ batch = [s \in Sessions |-> batch[s]]
  /\ inbox \in [Sessions -> Seq(Requests)]
  /\ call = [r \in Requests |-> call[r]]
  /\ reply = [r \in Requests |-> reply[r]]
  /\ lobby = [j \in LobbyOps |-> lobby[j]]
  /\ base = [j \in LobbyOps |-> base[j]]

\* The log is numbered from 1 without a gap, and a number names one row.
LogNumbered ==
  /\ \E n \in Nat : n >= 1 /\ Numbers = 1..n
  /\ \A x, y \in log : x.seq = y.seq => x = y

\* The events a session is about to append follow an event that is in the log.
BatchFollows(s) ==
  pc[s] = "append" =>
    \E b \in Numbers, k \in Nat \ {0} : batch[s] = (b + 1)..(b + k)

\* What a lobby operation has loaded ends with an event that is in the log.
BaseKnown(j) == lobby[j] = "append" => base[j] \in Numbers

WritersSound ==
  /\ \A s \in Sessions : BatchFollows(s)
  /\ \A j \in LobbyOps : BaseKnown(j)

\* A session that is not at its select processes a request or acts for the server.
WorkSound ==
  \A s \in Sessions : pc[s] # "select" => current[s] \in Requests \cup {Server}

\* Answers, delivered or not, are about commands that are in the log.
AnswersSound ==
  \A r \in Requests : reply[r] = "ok" \/ call[r] = "ok" => Processed(r[1])

IInv ==
  /\ SessionTypes
  /\ LogNumbered
  /\ WritersSound
  /\ StatePersisted
  /\ WorkSound
  /\ AnswersSound

-----------------------------------------------------------------------------
(***************************************************************************)
(* The log.                                                                *)
(***************************************************************************)

\* GetLatestSequence returns the number of the last row of a log without gaps.
LEMMA LatestIs ==
  ASSUME NEW n \in Nat, n >= 1, Numbers = 1..n
  PROVE  Latest = n
<1>1. n \in Numbers /\ \A m \in Numbers : m <= n
  OBVIOUS
<1>2. Latest \in Numbers /\ \A m \in Numbers : m <= Latest
  BY <1>1 DEF Latest
<1> QED
  BY <1>1, <1>2

\* applyAll adds the events to those the state already reflects.
LEMMA AppliedEvents ==
  ASSUME NEW B, NEW S
  PROVE  BagToSet(B (+) SetToBag(S)) = BagToSet(B) \cup S
  BY DEF (+), SetToBag, BagToSet

\* A batch numbered from an event of the log either conflicts or continues the log
\* exactly where it ends; the other writers' bases stay in the log.
LEMMA InsertContinues ==
  ASSUME LogNumbered,
         NEW b \in Numbers, NEW k \in Nat \ {0}, NEW seqs, NEW c, NEW w,
         seqs = (b + 1)..(b + k),
         ~Conflict(seqs),
         Insert(seqs, c, w)
  PROVE  /\ LogNumbered'
         /\ Numbers' = Numbers \cup seqs
         /\ Processed(c)'
         /\ \A d : Processed(d) => Processed(d)'
<1>1. PICK n \in Nat : n >= 1 /\ Numbers = 1..n
  BY DEF LogNumbered
<1>2. b = n
  BY <1>1 DEF Conflict
<1> DEFINE rows == {[seq |-> m, cmd |-> c, by |-> w] : m \in seqs}
<1>3. log' = log \cup rows
  BY DEF Insert
<1>4. \A row \in rows : row.seq \in seqs /\ row.cmd = c /\ row = [seq |-> row.seq, cmd |-> c, by |-> w]
  OBVIOUS
<1>5. \A m \in seqs : [seq |-> m, cmd |-> c, by |-> w] \in rows
  OBVIOUS
<1>6. Numbers' = Numbers \cup seqs
  <2>1. ASSUME NEW m \in Numbers' PROVE m \in Numbers \cup seqs
    BY <2>1, <1>3, <1>4 DEF Numbers
  <2>2. ASSUME NEW m \in Numbers PROVE m \in Numbers'
    BY <2>2, <1>3 DEF Numbers
  <2>3. ASSUME NEW m \in seqs PROVE m \in Numbers'
    <3>1. [seq |-> m, cmd |-> c, by |-> w] \in log'
      BY <1>3, <1>5
    <3> QED
      BY <3>1 DEF Numbers
  <2> QED
    BY <2>1, <2>2, <2>3
<1>7. Numbers' = 1..(n + k)
  BY <1>1, <1>2, <1>6
<1>8. \A x, y \in log' : x.seq = y.seq => x = y
  <2> SUFFICES ASSUME NEW x \in log', NEW y \in log', x.seq = y.seq PROVE x = y
    OBVIOUS
  <2>1. \A row \in log : row.seq \in Numbers
    BY DEF Numbers
  <2>2. seqs \cap Numbers = {}
    BY DEF Conflict
  <2>3. CASE x \in log /\ y \in log
    BY <2>3 DEF LogNumbered
  <2>4. CASE x \in rows /\ y \in rows
    BY <2>4, <1>4
  <2>5. CASE (x \in log /\ y \in rows) \/ (x \in rows /\ y \in log)
    BY <2>5, <2>1, <2>2, <1>4
  <2> QED
    BY <2>3, <2>4, <2>5, <1>3
<1>9. Processed(c)'
  <2>1. [seq |-> b + 1, cmd |-> c, by |-> w] \in log'
    BY <1>3, <1>5, <1>1
  <2> QED
    BY <2>1 DEF Processed
<1>10. \A d : Processed(d) => Processed(d)'
  BY <1>3 DEF Processed
<1>11. n + k \in Nat /\ n + k >= 1
  BY <1>1
<1> HIDE DEF rows
<1> QED
  BY <1>6, <1>7, <1>8, <1>9, <1>10, <1>11 DEF LogNumbered

\* Steps that do not write change nothing the store can be asked.
LEMMA LogUnchanged ==
  ASSUME log' = log
  PROVE  /\ Numbers' = Numbers
         /\ LogNumbered => LogNumbered'
         /\ \A d : Processed(d) => Processed(d)'
  BY DEF Numbers, LogNumbered, Processed

\* FindEventByCommandID returns a row of the log when the command has one.
LEMMA FirstEventKnown ==
  ASSUME LogNumbered, NEW c, Processed(c)
  PROVE  FirstEvent(c) \in Numbers
<1> DEFINE rows == {row \in log : row.cmd = c}
           f == [row \in rows |-> row.seq]
<1>1. \A row \in log : row.seq \in Nat /\ row.seq \in Numbers
  BY DEF LogNumbered, Numbers
<1>2. rows # {} /\ \A row \in rows : f[row] \in Nat
  BY <1>1 DEF Processed
<1>3. PICK first \in rows : \A row \in rows : f[first] <= f[row]
  <2> HIDE DEF rows, f
  <2> QED
    BY <1>2, MinimumExists
<1> QED
  BY <1>1, <1>3 DEF FirstEvent

-----------------------------------------------------------------------------
(***************************************************************************)
(* The inductive invariant.                                                *)
(***************************************************************************)

\* A table that has just been created: one row, no session.
LEMMA IInvInit == Init => IInv
<1> SUFFICES ASSUME Init PROVE IInv
  OBVIOUS
<1>1. Numbers = 1..1
  BY DEF Init, Numbers
<1>2. LogNumbered
  BY <1>1 DEF Init, LogNumbered
<1>3. SessionTypes
  BY DEF Init, SessionTypes
<1>4. StatePersisted
  BY DEF Init, StatePersisted, EmptyBag, SetToBag, BagToSet
<1>5. WritersSound /\ WorkSound /\ AnswersSound
  BY DEF Init, WritersSound, BatchFollows, BaseKnown, WorkSound, AnswersSound
<1> QED
  BY <1>2, <1>3, <1>4, <1>5 DEF IInv

\* The callers of Submit write neither the log nor a running session's state.
LEMMA IInvSubmit ==
  ASSUME IInv, NEW r \in Requests, Submit(r)
  PROVE  IInv'
<1> USE DEF IInv
<1>1. CASE Route(r)
  <2>1. log' = log
    BY <1>1 DEF Route
  <2>2. /\ Numbers' = Numbers /\ LogNumbered' /\ \A d : Processed(d) => Processed(d)'
    BY <2>1, LogUnchanged
  <2>3. SessionTypes'
    BY <1>1 DEF Route, GetOrLoad, NewSession, SessionTypes, lobbyVars
  <2>4. StatePersisted'
    <3>1. BagToSet(LoadState) = Numbers
      BY DEF LoadState, SetToBag, BagToSet
    <3>2. \A s \in Sessions : state'[s] = state[s] \/ state'[s] = LoadState
      BY <1>1 DEF Route, GetOrLoad, NewSession, SessionTypes
    <3> QED
      BY <3>1, <3>2, <2>2 DEF StatePersisted
  <2>5. WritersSound' /\ WorkSound'
    BY <1>1, <2>2 DEF Route, WritersSound, BatchFollows, BaseKnown, WorkSound, lobbyVars
  <2>6. AnswersSound'
    BY <1>1, <2>2 DEF Route, AnswersSound, SessionTypes
  <2> QED
    BY <2>2, <2>3, <2>4, <2>5, <2>6
<1>2. CASE Enqueue(r) \/ AwaitReply(r) \/ GiveUp(r)
  <2>1. /\ log' = log /\ state' = state /\ pc' = pc /\ current' = current /\ batch' = batch
        /\ reply' = reply /\ lobby' = lobby /\ base' = base
    BY <1>2 DEF Enqueue, AwaitReply, GiveUp, sessionVars, lobbyVars
  <2>2. /\ Numbers' = Numbers /\ LogNumbered' /\ \A d : Processed(d) => Processed(d)'
    BY <2>1, LogUnchanged
  <2>3. inbox' \in [Sessions -> Seq(Requests)]
    <3>1. \/ inbox' = inbox
          \/ inbox' = [inbox EXCEPT ![target[r]] = Append(inbox[target[r]], r)]
      BY <1>2 DEF Enqueue, AwaitReply, GiveUp, sessionVars
    <3>2. CASE target[r] \in Sessions
      <4>1. PICK q : q = Append(inbox[target[r]], r)
        OBVIOUS
      <4>2. q \in Seq(Requests)
        BY <3>2, <4>1 DEF SessionTypes
      <4> QED
        BY <3>1, <3>2, <4>1, <4>2 DEF SessionTypes
    <3>3. CASE target[r] \notin Sessions
      BY <3>1, <3>3 DEF SessionTypes
    <3> QED
      BY <3>2, <3>3
  <2>4. /\ call' = [q \in Requests |-> call'[q]]
        /\ \A q \in Requests : call'[q] = "ok" => call[q] = "ok" \/ reply[q] = "ok"
    BY <1>2 DEF Enqueue, AwaitReply, GiveUp, SessionTypes
  <2>5. SessionTypes'
    BY <2>1, <2>3, <2>4 DEF SessionTypes
  <2>6. StatePersisted' /\ WritersSound' /\ WorkSound'
    BY <2>1, <2>2 DEF StatePersisted, WritersSound, BatchFollows, BaseKnown, WorkSound
  <2>7. AnswersSound'
    BY <2>1, <2>2, <2>4 DEF AnswersSound
  <2> QED
    BY <2>2, <2>5, <2>6, <2>7
<1> QED
  BY <1>1, <1>2 DEF Submit

\* process returns: nothing is left over, and success is reported only for a command
\* that the log has.
LEMMA ReturnSound ==
  ASSUME IInv, NEW s \in Sessions, NEW outcome, Return(s, outcome),
         pc[s] # "select",
         NEW c, c = CurrentCommand(s),
         UNCHANGED <<inbox, call, lobby, base>>,
         state' = [q \in Sessions |-> state'[q]],
         LogNumbered',
         Numbers \subseteq Numbers',
         \A d : Processed(d) => Processed(d)',
         outcome = "ok" => Processed(c)',
         \A q \in Sessions : BagToSet(state'[q]) \subseteq Numbers'
  PROVE  IInv'
<1> USE DEF IInv
<1>1. current[s] \in Requests \cup {Server}
  BY DEF WorkSound
<1>2. SessionTypes'
  BY <1>1 DEF Return, SessionTypes
<1>3. WritersSound'
  <2>1. ASSUME NEW q \in Sessions PROVE BatchFollows(q)'
    <3>1. CASE q = s
      BY <3>1 DEF Return, SessionTypes, BatchFollows
    <3>2. CASE q # s
      <4>1. pc'[q] = pc[q] /\ batch'[q] = batch[q]
        BY <3>2 DEF Return, SessionTypes
      <4> QED
        BY <4>1 DEF WritersSound, BatchFollows
    <3> QED
      BY <3>1, <3>2
  <2>2. ASSUME NEW j \in LobbyOps PROVE BaseKnown(j)'
    BY DEF WritersSound, BaseKnown
  <2> QED
    BY <2>1, <2>2 DEF WritersSound
<1>4. WorkSound'
  BY DEF Return, SessionTypes, WorkSound
<1>5. AnswersSound'
  <2> SUFFICES ASSUME NEW r \in Requests, reply'[r] = "ok" \/ call'[r] = "ok"
               PROVE  Processed(r[1])'
    BY DEF AnswersSound
  <2>1. CASE reply[r] = "ok" \/ call[r] = "ok"
    BY <2>1 DEF AnswersSound
  <2>2. CASE ~(reply[r] = "ok" \/ call[r] = "ok")
    <3>1. current[s] = r /\ outcome = "ok" /\ current[s] # Server
      BY <2>2 DEF Return, SessionTypes
    <3> QED
      BY <3>1 DEF CurrentCommand
  <2> QED
    BY <2>1, <2>2
<1> QED
  BY <1>2, <1>3, <1>4, <1>5 DEF StatePersisted

\* The steps of a session's goroutine.
LEMMA IInvRun ==
  ASSUME IInv, NEW s \in Sessions, Run(s)
  PROVE  IInv'
<1> USE DEF IInv
<1>1. CASE Receive(s) \/ DeadlineFires(s) \/ Exit(s)
  <2>1. /\ log' = log /\ batch' = batch
        /\ call' = call /\ reply' = reply /\ lobby' = lobby /\ base' = base
    BY <1>1 DEF Receive, DeadlineFires, Exit, callVars, lobbyVars
  <2>2. /\ Numbers' = Numbers /\ LogNumbered' /\ \A d : Processed(d) => Processed(d)'
    BY <2>1, LogUnchanged
  <2>3. inbox' \in [Sessions -> Seq(Requests)]
    <3>1. CASE Receive(s)
      <4>1. PICK rest : rest = Tail(inbox[s])
        OBVIOUS
      <4>2. rest \in Seq(Requests)
        BY <3>1, <4>1 DEF Receive, SessionTypes
      <4>3. inbox' = [inbox EXCEPT ![s] = rest]
        BY <3>1, <4>1 DEF Receive
      <4> QED
        BY <4>2, <4>3 DEF SessionTypes
    <3>2. CASE DeadlineFires(s) \/ Exit(s)
      BY <3>2 DEF DeadlineFires, Exit, SessionTypes
    <3> QED
      BY <1>1, <3>1, <3>2
  <2>4. /\ state' = [q \in Sessions |-> state'[q]]
        /\ pc' = [q \in Sessions |-> pc'[q]]
        /\ current' = [q \in Sessions |-> current'[q]]
    BY <1>1 DEF Receive, DeadlineFires, Exit, SessionTypes
  <2>5. SessionTypes'
    BY <2>1, <2>3, <2>4 DEF SessionTypes
  <2>6. StatePersisted'
    <3>1. BagToSet(EmptyBag) = {}
      BY DEF EmptyBag, SetToBag, BagToSet
    <3>2. \A q \in Sessions : state'[q] = state[q] \/ state'[q] = EmptyBag
      BY <1>1 DEF Receive, DeadlineFires, Exit, SessionTypes
    <3> QED
      BY <3>1, <3>2, <2>2 DEF StatePersisted
  <2>7. WritersSound'
    <3>1. \A q \in Sessions : pc'[q] = "append" => pc[q] = "append"
      BY <1>1 DEF Receive, DeadlineFires, Exit, SessionTypes
    <3> QED
      BY <2>1, <2>2, <3>1 DEF WritersSound, BatchFollows, BaseKnown
  <2>8. WorkSound'
    <3>1. CASE Receive(s)
      <4>1. PICK h : h = Head(inbox[s])
        OBVIOUS
      <4>2. h \in Requests
        BY <3>1, <4>1 DEF Receive, SessionTypes
      <4>3. current' = [current EXCEPT ![s] = h] /\ pc' = [pc EXCEPT ![s] = "lookup"]
        BY <3>1, <4>1 DEF Receive
      <4> QED
        BY <4>2, <4>3 DEF WorkSound, SessionTypes
    <3>2. CASE DeadlineFires(s)
      BY <3>2 DEF DeadlineFires, WorkSound, SessionTypes
    <3>3. CASE Exit(s)
      BY <3>3 DEF Exit, WorkSound
    <3> QED
      BY <1>1, <3>1, <3>2, <3>3
  <2>9. AnswersSound'
    BY <2>1, <2>2 DEF AnswersSound
  <2> QED
    BY <2>2, <2>5, <2>6, <2>7, <2>8, <2>9
<1>2. CASE LookupByCommandID(s)
  <2>1. log' = log /\ UNCHANGED <<inbox, call, lobby, base>> /\ pc[s] = "lookup"
    BY <1>2 DEF LookupByCommandID, lobbyVars
  <2>2. /\ Numbers' = Numbers /\ LogNumbered' /\ \A d : Processed(d) => Processed(d)'
    BY <2>1, LogUnchanged
  <2>3. PICK c : c = CurrentCommand(s)
    OBVIOUS
  <2>4. CASE /\ Processed(c)
             /\ state' = [state EXCEPT ![s] = @ (+) SetToBag({FirstEvent(c)})]
             /\ Return(s, "ok")
    <3>1. FirstEvent(c) \in Numbers
      BY <2>4, FirstEventKnown
    <3>2. BagToSet(state[s] (+) SetToBag({FirstEvent(c)})) \subseteq Numbers
      BY <3>1, AppliedEvents DEF StatePersisted
    <3>3. /\ state' = [q \in Sessions |-> state'[q]]
          /\ \A q \in Sessions : BagToSet(state'[q]) \subseteq Numbers'
      BY <2>2, <2>4, <3>2 DEF SessionTypes, StatePersisted
    <3> QED
      BY <2>1, <2>2, <2>3, <2>4, <3>3, ReturnSound
  <2>5. CASE pc' = [pc EXCEPT ![s] = "stamp"] /\ UNCHANGED <<state, current, batch, reply>>
    <3>1. SessionTypes'
      BY <2>1, <2>5 DEF SessionTypes
    <3>2. StatePersisted' /\ WorkSound' /\ AnswersSound'
      BY <2>1, <2>2, <2>5 DEF StatePersisted, WorkSound, AnswersSound, SessionTypes
    <3>3. \A q \in Sessions : pc'[q] = "append" => pc[q] = "append"
      BY <2>5 DEF SessionTypes
    <3>4. WritersSound'
      BY <2>1, <2>2, <2>5, <3>3 DEF WritersSound, BatchFollows, BaseKnown
    <3> QED
      BY <2>2, <3>1, <3>2, <3>4
  <2> QED
    BY <1>2, <2>3, <2>4, <2>5 DEF LookupByCommandID
<1>3. CASE StampEvents(s)
  <2>1. /\ log' = log /\ UNCHANGED <<inbox, call, lobby, base>>
        /\ state' = state /\ pc[s] = "stamp"
    BY <1>3 DEF StampEvents, lobbyVars
  <2>2. /\ Numbers' = Numbers /\ LogNumbered' /\ \A d : Processed(d) => Processed(d)'
    BY <2>1, LogUnchanged
  <2>3. CASE Return(s, "failed")
    <3>1. PICK c : c = CurrentCommand(s)
      OBVIOUS
    <3>2. /\ state' = [q \in Sessions |-> state'[q]]
          /\ \A q \in Sessions : BagToSet(state'[q]) \subseteq Numbers'
      BY <2>1, <2>2 DEF SessionTypes, StatePersisted
    <3> QED
      BY <2>1, <2>2, <2>3, <3>1, <3>2, ReturnSound
  <2>4. CASE /\ \E k \in 1..MaxBatch :
                  batch' = [batch EXCEPT ![s] = (Latest + 1)..(Latest + k)]
             /\ pc' = [pc EXCEPT ![s] = "append"]
             /\ UNCHANGED <<current, reply>>
    <3>1. PICK k \in 1..MaxBatch : batch' = [batch EXCEPT ![s] = (Latest + 1)..(Latest + k)]
      BY <2>4
    <3>2. PICK n \in Nat : n >= 1 /\ Numbers = 1..n
      BY DEF LogNumbered
    <3>3. Latest = n
      BY <3>2, LatestIs
    <3>4. n \in Numbers' /\ k \in Nat \ {0} /\ batch' = [batch EXCEPT ![s] = (n + 1)..(n + k)]
      BY <2>2, <3>1, <3>2, <3>3, SessionAssumption
    <3>5. SessionTypes'
      BY <2>1, <2>4, <3>4 DEF SessionTypes
    <3>6. StatePersisted' /\ WorkSound' /\ AnswersSound'
      BY <2>1, <2>2, <2>4 DEF StatePersisted, WorkSound, AnswersSound, SessionTypes
    <3>7. ASSUME NEW q \in Sessions PROVE BatchFollows(q)'
      <4>1. CASE q = s
        BY <3>4, <4>1 DEF BatchFollows, SessionTypes
      <4>2. CASE q # s
        <5>1. pc'[q] = pc[q] /\ batch'[q] = batch[q]
          BY <2>4, <3>4, <4>2 DEF SessionTypes
        <5> QED
          BY <2>2, <5>1 DEF WritersSound, BatchFollows
      <4> QED
        BY <4>1, <4>2
    <3>8. WritersSound'
      BY <2>1, <2>2, <3>7 DEF WritersSound, BaseKnown
    <3> QED
      BY <2>2, <3>5, <3>6, <3>8
  <2> QED
    BY <1>3, <2>3, <2>4 DEF StampEvents
<1>4. CASE AppendEvents(s)
  <2>1. UNCHANGED <<inbox, call, lobby, base>> /\ pc[s] = "append"
    BY <1>4 DEF AppendEvents, lobbyVars
  <2>2. PICK c, w, seqs : c = CurrentCommand(s) /\ w = current[s] /\ seqs = batch[s]
    OBVIOUS
  <2>3. PICK b \in Numbers, k \in Nat \ {0} : seqs = (b + 1)..(b + k)
    BY <2>1, <2>2 DEF WritersSound, BatchFollows
  <2>4. CASE ~Conflict(seqs) /\ Insert(seqs, c, w)
    <3>1. /\ LogNumbered' /\ Numbers' = Numbers \cup seqs /\ Processed(c)'
          /\ \A d : Processed(d) => Processed(d)'
      BY <2>3, <2>4, InsertContinues
    <3>2. CASE state' = [state EXCEPT ![s] = @ (+) SetToBag(seqs)] /\ Return(s, "ok")
      <4>1. BagToSet(state[s] (+) SetToBag(seqs)) \subseteq Numbers'
        BY <3>1, AppliedEvents DEF StatePersisted
      <4>2. /\ state' = [q \in Sessions |-> state'[q]]
            /\ \A q \in Sessions : BagToSet(state'[q]) \subseteq Numbers'
        BY <3>1, <3>2, <4>1 DEF SessionTypes, StatePersisted
      <4> QED
        BY <2>1, <2>2, <3>1, <3>2, <4>2, ReturnSound
    <3>3. CASE state' = state /\ Return(s, "failed")
      <4>1. /\ state' = [q \in Sessions |-> state'[q]]
            /\ \A q \in Sessions : BagToSet(state'[q]) \subseteq Numbers'
        BY <3>1, <3>3 DEF SessionTypes, StatePersisted
      <4> QED
        BY <2>1, <2>2, <3>1, <3>3, <4>1, ReturnSound
    <3> QED
      BY <1>4, <2>2, <2>4, <3>2, <3>3 DEF AppendEvents, AppendFailed
  <2>5. CASE log' = log /\ state' = state /\ Return(s, "failed")
    <3>1. /\ Numbers' = Numbers /\ LogNumbered' /\ \A d : Processed(d) => Processed(d)'
      BY <2>5, LogUnchanged
    <3>2. /\ state' = [q \in Sessions |-> state'[q]]
          /\ \A q \in Sessions : BagToSet(state'[q]) \subseteq Numbers'
      BY <2>5, <3>1 DEF SessionTypes, StatePersisted
    <3> QED
      BY <2>1, <2>2, <2>5, <3>1, <3>2, ReturnSound
  <2> QED
    BY <1>4, <2>2, <2>4, <2>5 DEF AppendEvents, AppendFailed
<1> QED
  BY <1>1, <1>2, <1>3, <1>4 DEF Run, SessionStep

\* Joins and leaves: what they load, what they write, and the session they drop.
LEMMA IInvLobby ==
  ASSUME IInv, NEW j \in LobbyOps, Lobby(j)
  PROVE  IInv'
<1> USE DEF IInv
<1>1. /\ state' = state /\ pc' = pc /\ current' = current /\ batch' = batch
      /\ inbox' = inbox /\ call' = call /\ reply' = reply
  BY DEF Lobby, LobbyLookup, LobbyLoad, LobbyAppend, Invalidate, LobbyAgain, sessionVars, callVars
<1>2. /\ lobby' = [i \in LobbyOps |-> lobby'[i]]
      /\ base' = [i \in LobbyOps |-> base'[i]]
  BY DEF Lobby, LobbyLookup, LobbyLoad, LobbyAppend, Invalidate, LobbyAgain, SessionTypes
<1>3. SessionTypes' /\ WorkSound'
  BY <1>1, <1>2 DEF SessionTypes, WorkSound
<1>4. ASSUME LogNumbered', Numbers \subseteq Numbers',
             \A d : Processed(d) => Processed(d)',
             \A i \in LobbyOps : BaseKnown(i)'
      PROVE  IInv'
  <2>1. StatePersisted' /\ AnswersSound'
    BY <1>1, <1>4 DEF StatePersisted, AnswersSound
  <2>2. WritersSound'
    BY <1>1, <1>4 DEF WritersSound, BatchFollows
  <2> QED
    BY <1>3, <1>4, <2>1, <2>2
<1>5. CASE LobbyLoad(j)
  <2>1. log' = log
    BY <1>5 DEF LobbyLoad
  <2>2. /\ Numbers' = Numbers /\ LogNumbered' /\ \A d : Processed(d) => Processed(d)'
    BY <2>1, LogUnchanged
  <2>3. Latest \in Numbers
    BY LatestIs DEF LogNumbered
  <2>4. ASSUME NEW i \in LobbyOps PROVE BaseKnown(i)'
    BY <1>5, <2>2, <2>3 DEF LobbyLoad, WritersSound, BaseKnown, SessionTypes
  <2> QED
    BY <1>4, <2>2, <2>4
<1>6. CASE LobbyAppend(j)
  <2>1. PICK k \in 1..2 :
          \/ ~Conflict(LobbySequences(j, k)) /\ Insert(LobbySequences(j, k), j[1], j)
          \/ log' = log
    BY <1>6 DEF LobbyAppend
  <2>2. PICK b \in Numbers : b = base[j]
    BY <1>6 DEF LobbyAppend, WritersSound, BaseKnown
  <2>3. LogNumbered' /\ Numbers \subseteq Numbers' /\ \A d : Processed(d) => Processed(d)'
    <3>1. CASE log' = log
      BY <3>1, LogUnchanged
    <3>2. CASE log' # log
      <4>1. PICK seqs : seqs = (b + 1)..(b + k)
        OBVIOUS
      <4>2. ~Conflict(seqs) /\ Insert(seqs, j[1], j)
        BY <2>1, <2>2, <3>2, <4>1 DEF LobbySequences
      <4> QED
        BY <4>1, <4>2, InsertContinues
    <3> QED
      BY <3>1, <3>2
  <2>4. base' = base /\ \A i \in LobbyOps : lobby'[i] = "append" => lobby[i] = "append"
    BY <1>6 DEF LobbyAppend, SessionTypes
  <2>5. \A i \in LobbyOps : BaseKnown(i)'
    BY <2>3, <2>4 DEF WritersSound, BaseKnown
  <2> QED
    BY <1>4, <2>3, <2>5
<1>7. CASE LobbyLookup(j) \/ Invalidate(j) \/ LobbyAgain(j)
  <2>1. log' = log /\ base' = base
    BY <1>7 DEF LobbyLookup, Invalidate, LobbyAgain
  <2>2. /\ Numbers' = Numbers /\ LogNumbered' /\ \A d : Processed(d) => Processed(d)'
    BY <2>1, LogUnchanged
  <2>3. \A i \in LobbyOps : lobby'[i] = "append" => lobby[i] = "append"
    BY <1>7 DEF LobbyLookup, Invalidate, LobbyAgain, SessionTypes
  <2>4. \A i \in LobbyOps : BaseKnown(i)'
    BY <2>1, <2>2, <2>3 DEF WritersSound, BaseKnown
  <2> QED
    BY <1>4, <2>2, <2>4
<1> QED
  BY <1>5, <1>6, <1>7 DEF Lobby

\* The router's housekeeping and a restart of the process leave the log alone, and a
\* restart leaves nothing half done in memory.
LEMMA IInvRestart ==
  ASSUME IInv, Restart
  PROVE  IInv'
<1> USE DEF IInv
<1>1. log' = log /\ reply' = reply /\ base' = base
  BY DEF Restart
<1>2. /\ Numbers' = Numbers /\ LogNumbered' /\ \A d : Processed(d) => Processed(d)'
  BY <1>1, LogUnchanged
<1>3. SessionTypes'
  <2>1. inbox' \in [Sessions -> Seq(Requests)]
    BY DEF Restart
  <2> QED
    BY <1>1, <2>1 DEF Restart, SessionTypes
<1>4. StatePersisted'
  <2>1. BagToSet(EmptyBag) = {}
    BY DEF EmptyBag, SetToBag, BagToSet
  <2> QED
    BY <2>1 DEF Restart, StatePersisted
<1>5. WritersSound' /\ WorkSound'
  BY DEF Restart, WritersSound, BatchFollows, BaseKnown, WorkSound
<1>6. AnswersSound'
  BY <1>1, <1>2 DEF Restart, AnswersSound
<1> QED
  BY <1>2, <1>3, <1>4, <1>5, <1>6

\* A step that changes none of the variables the invariant mentions.
LEMMA IInvUnchanged ==
  ASSUME IInv,
         UNCHANGED <<log, state, pc, current, batch, inbox, call, reply, lobby, base>>
  PROVE  IInv'
<1> USE DEF IInv
<1>1. /\ Numbers' = Numbers /\ LogNumbered' /\ \A d : Processed(d) => Processed(d)'
  BY LogUnchanged
<1>2. SessionTypes'
  BY DEF SessionTypes
<1>3. WritersSound'
  BY <1>1 DEF WritersSound, BatchFollows, BaseKnown
<1>4. StatePersisted' /\ WorkSound' /\ AnswersSound'
  BY <1>1 DEF StatePersisted, WorkSound, AnswersSound
<1> QED
  BY <1>1, <1>2, <1>3, <1>4

\* Every step of the sessions, the callers, the lobby and the router.
LEMMA IInvNext == IInv /\ [Next]_vars => IInv'
<1> SUFFICES ASSUME IInv, [Next]_vars PROVE IInv'
  OBVIOUS
<1>1. CASE \E r \in Requests : Submit(r)
  BY <1>1, IInvSubmit
<1>2. CASE \E s \in Sessions : Run(s)
  BY <1>2, IInvRun
<1>3. CASE \E s \in Sessions : Reap(s)
  BY <1>3, IInvUnchanged DEF Reap, sessionVars, callVars, lobbyVars
<1>4. CASE \E j \in LobbyOps : Lobby(j)
  BY <1>4, IInvLobby
<1>5. CASE Restart
  BY <1>5, IInvRestart
<1>6. CASE UNCHANGED vars
  BY <1>6, IInvUnchanged DEF vars, sessionVars, callVars, lobbyVars
<1> QED
  BY <1>1, <1>2, <1>3, <1>4, <1>5, <1>6 DEF Next

-----------------------------------------------------------------------------
(***************************************************************************)
(* The theorems.                                                           *)
(***************************************************************************)

\* A log without gaps has 1..Latest as its numbers.
LEMMA LogNumberedIsContiguous == LogNumbered => LogContiguous
  BY LatestIs DEF LogNumbered, LogContiguous

\* Sessions number after the latest stored event and lobby operations after the latest
\* one they loaded; the unique index on (game_id, sequence) then keeps the log of a
\* game contiguous for any number of writers.
THEOREM SessionLogContiguous == Spec => []LogContiguous
<1>1. IInv => LogContiguous
  BY LogNumberedIsContiguous DEF IInv
<1> QED
  BY <1>1, IInvInit, IInvNext, PTL DEF Spec

\* run applies events only after AppendEvents has stored them, so no session, stale or
\* current, ever reflects an event that a reload would not find.
THEOREM SessionStatePersisted == Spec => []StatePersisted
<1>1. IInv => StatePersisted
  BY DEF IInv
<1> QED
  BY <1>1, IInvInit, IInvNext, PTL DEF Spec

\* Submit reports success only for a command that has events in the log, whatever
\* fails, restarts or is invalidated meanwhile.
THEOREM SessionRepliesPersisted == Spec => []RepliesPersisted
<1>1. IInv => RepliesPersisted
  BY DEF IInv, AnswersSound, RepliesPersisted
<1> QED
  BY <1>1, IInvInit, IInvNext, PTL DEF Spec

-----------------------------------------------------------------------------
(***************************************************************************)
(* Joins and leaves, and the abstract log.                                 *)
(***************************************************************************)

\* A lobby operation that has passed its lookup has no event of its own yet, the command
\* of one that succeeded has, and its events carry its command id.
LobbySound ==
  /\ \A j \in LobbyOps : lobby[j] \in {"load", "append"} => \A row \in log : row.by # j
  /\ \A j \in LobbyOps : lobby[j] \in {"invalidate", "done"} => Processed(j[1])
  /\ \A row \in log : row.by \in LobbyOps => row.cmd = row.by[1]

RInv == IInv /\ LobbySound

\* The two ways rows get into the log.
SessionWrites(s) ==
  /\ pc[s] = "append"
  /\ ~Conflict(batch[s])
  /\ Insert(batch[s], CurrentCommand(s), current[s])
  /\ UNCHANGED <<call, lobby>>

LobbyWrites(j, k) ==
  /\ lobby[j] = "append"
  /\ ~Conflict(LobbySequences(j, k))
  /\ Insert(LobbySequences(j, k), j[1], j)
  /\ call' = call
  /\ \/ lobby' = [lobby EXCEPT ![j] = "invalidate"]
     \/ lobby' = [lobby EXCEPT ![j] = "failed"]

\* Only AppendEvents of a session and of a lobby operation write.
LEMMA StepsThatWrite ==
  ASSUME [Next]_vars
  PROVE  \/ log' = log
         \/ \E s \in Sessions : SessionWrites(s)
         \/ \E j \in LobbyOps, k \in 1..2 : LobbyWrites(j, k)
<1>1. CASE \E r \in Requests : Submit(r)
  BY <1>1 DEF Submit, Route, Enqueue, AwaitReply, GiveUp
<1>2. ASSUME NEW s \in Sessions, Run(s)
      PROVE  log' = log \/ SessionWrites(s)
  BY <1>2 DEF Run, Receive, DeadlineFires, Exit, SessionStep, LookupByCommandID, StampEvents,
              AppendEvents, SessionWrites, lobbyVars
<1>3. CASE \E s \in Sessions : Reap(s)
  BY <1>3 DEF Reap
<1>4. ASSUME NEW j \in LobbyOps, Lobby(j)
      PROVE  log' = log \/ \E k \in 1..2 : LobbyWrites(j, k)
  BY <1>4 DEF Lobby, LobbyLookup, LobbyLoad, LobbyAppend, Invalidate, LobbyAgain, LobbyWrites,
              callVars
<1>5. CASE Restart \/ UNCHANGED vars
  BY <1>5 DEF Restart, vars
<1> QED
  BY <1>1, <1>2, <1>3, <1>4, <1>5 DEF Next

\* The command of a session's batch is a player's, or nobody's.
LEMMA SessionCause ==
  ASSUME IInv, NEW s \in Sessions, SessionWrites(s)
  PROVE  /\ current[s] \in Requests \cup {Server}
         /\ current[s] \notin LobbyOps
         /\ CurrentCommand(s) \in Commands \cup {Server}
         /\ \E b \in Numbers, k \in Nat \ {0} : batch[s] = (b + 1)..(b + k)
<1>1. current[s] \in Requests \cup {Server}
  BY DEF IInv, WorkSound, SessionWrites
<1>2. CurrentCommand(s) \in Commands \cup {Server}
  BY <1>1 DEF CurrentCommand, Requests
<1>3. \E b \in Numbers, k \in Nat \ {0} : batch[s] = (b + 1)..(b + k)
  BY DEF SessionWrites, IInv, WritersSound, BatchFollows
<1>4. current[s] \notin LobbyOps
  BY <1>1, SessionAssumption DEF Requests, LobbyOps
<1> QED
  BY <1>1, <1>2, <1>3, <1>4

\* Every step keeps the account of what lobby operations have written.
LEMMA LobbySoundNext ==
  ASSUME RInv, [Next]_vars
  PROVE  LobbySound'
<1> USE DEF RInv
<1>0. lobby' = [i \in LobbyOps |-> lobby'[i]]
  BY IInvNext DEF IInv, SessionTypes
<1>1. ASSUME NEW s \in Sessions, SessionWrites(s)
      PROVE  LobbySound'
  <2>1. PICK c, w, seqs : c = CurrentCommand(s) /\ w = current[s] /\ seqs = batch[s]
    OBVIOUS
  <2>2. w \notin LobbyOps
    BY <1>1, <2>1, SessionCause
  <2>3. log' = log \cup {[seq |-> n, cmd |-> c, by |-> w] : n \in seqs}
    BY <1>1, <2>1 DEF SessionWrites, Insert
  <2>4. \A row \in log' : row \in log \/ row.by = w
    BY <2>3
  <2>5. \A d : Processed(d) => Processed(d)'
    BY <2>3 DEF Processed
  <2>6. \A row \in log' : row.by \in LobbyOps => row \in log
    BY <2>2, <2>4
  <2> QED
    BY <1>1, <2>5, <2>6 DEF LobbySound, SessionWrites
<1>2. ASSUME NEW j \in LobbyOps, NEW k \in 1..2, LobbyWrites(j, k)
      PROVE  LobbySound'
  <2>1. PICK c, seqs : c = j[1] /\ seqs = LobbySequences(j, k)
    OBVIOUS
  <2>2. log' = log \cup {[seq |-> n, cmd |-> c, by |-> j] : n \in seqs}
    BY <1>2, <2>1 DEF LobbyWrites, Insert
  <2>3. \A row \in log' : row \in log \/ (row.cmd = c /\ row.by = j)
    BY <2>2
  <2>4. base[j] \in Numbers
    BY <1>2 DEF IInv, WritersSound, BaseKnown, LobbyWrites
  <2>5. base[j] \in Int
    BY <2>4 DEF IInv, LogNumbered
  <2>6. base[j] + 1 \in seqs
    BY <2>1, <2>5 DEF LobbySequences
  <2>7. [seq |-> base[j] + 1, cmd |-> c, by |-> j] \in log'
    BY <2>2, <2>6
  <2>8. Processed(j[1])'
    BY <2>1, <2>7 DEF Processed
  <2>9. \A d : Processed(d) => Processed(d)'
    BY <2>2 DEF Processed
  <2>10. \A row \in log' : row.by \in LobbyOps => row.cmd = row.by[1]
    BY <2>1, <2>3 DEF LobbySound
  <2>11. /\ lobby'[j] \notin {"load", "append"}
         /\ \A i \in LobbyOps \ {j} : lobby'[i] = lobby[i]
    BY <1>2 DEF LobbyWrites, IInv, SessionTypes
  <2>12. ASSUME NEW i \in LobbyOps, lobby'[i] \in {"load", "append"}
         PROVE  \A row \in log' : row.by # i
    BY <2>3, <2>11, <2>12 DEF LobbySound
  <2>13. ASSUME NEW i \in LobbyOps, lobby'[i] \in {"invalidate", "done"}
         PROVE  Processed(i[1])'
    BY <2>8, <2>9, <2>11, <2>13 DEF LobbySound
  <2> QED
    BY <2>10, <2>12, <2>13 DEF LobbySound
<1>3. CASE log' = log
  <2>1. \A d : Processed(d)' <=> Processed(d)
    BY <1>3 DEF Processed
  <2> DEFINE Earned(i) ==
        /\ lobby'[i] \in {"load", "append"} =>
             lobby[i] \in {"load", "append"} \/ ~Processed(i[1])
        /\ lobby'[i] \in {"invalidate", "done"} =>
             lobby[i] \in {"invalidate", "done"} \/ Processed(i[1])
  <2>2. ASSUME NEW i \in LobbyOps
        PROVE  Earned(i)
    <3>1. CASE \E r \in Requests : Submit(r)
      BY <3>1 DEF Submit, Route, Enqueue, AwaitReply, GiveUp, lobbyVars
    <3>2. CASE \E s \in Sessions : Run(s) \/ Reap(s)
      BY <3>2 DEF Run, Receive, DeadlineFires, Exit, SessionStep, LookupByCommandID,
                  StampEvents, AppendEvents, Reap, lobbyVars
    <3>3. ASSUME NEW j \in LobbyOps, LobbyLookup(j) \/ LobbyLoad(j)
          PROVE  Earned(i)
      BY <3>3 DEF LobbyLookup, LobbyLoad, IInv, SessionTypes
    <3>4. ASSUME NEW j \in LobbyOps, Invalidate(j) \/ LobbyAgain(j)
          PROVE  Earned(i)
      BY <3>4 DEF Invalidate, LobbyAgain, IInv, SessionTypes
    <3>5. ASSUME NEW j \in LobbyOps, LobbyAppend(j)
          PROVE  Earned(i)
      <4>1. base[j] \in Int
        BY <3>5 DEF IInv, WritersSound, BaseKnown, LobbyAppend, LogNumbered
      <4>2. \A k \in 1..2 : base[j] + 1 \in LobbySequences(j, k)
        BY <4>1 DEF LobbySequences
      <4>3. ASSUME NEW k \in 1..2, ~Conflict(LobbySequences(j, k)),
                   Insert(LobbySequences(j, k), j[1], j)
            PROVE  FALSE
        <5>1. [seq |-> base[j] + 1, cmd |-> j[1], by |-> j] \in log'
          BY <4>2, <4>3 DEF Insert
        <5>2. base[j] + 1 \in Numbers
          BY <1>3, <5>1 DEF Numbers
        <5> QED
          BY <4>2, <4>3, <5>2 DEF Conflict
      <4> QED
        BY <3>5, <4>3 DEF LobbyAppend, IInv, SessionTypes
    <3>6. CASE Restart \/ UNCHANGED vars
      BY <3>6 DEF Restart, vars, lobbyVars
    <3> QED
      BY <3>1, <3>2, <3>3, <3>4, <3>5, <3>6 DEF Next, Lobby
  <2>3. \A i \in LobbyOps : ~Processed(i[1]) => \A row \in log : row.by # i
    BY DEF LobbySound, Processed
  <2> QED
    BY <1>3, <2>1, <2>2, <2>3 DEF LobbySound
<1> QED
  BY <1>1, <1>2, <1>3, StepsThatWrite

\* The strengthened invariant.
LEMMA RInvAlways == Spec => []RInv
<1>1. Init => RInv
  BY IInvInit, SessionAssumption DEF Init, RInv, LobbySound
<1>2. RInv /\ [Next]_vars => RInv'
  BY IInvNext, LobbySoundNext DEF RInv
<1> QED
  BY <1>1, <1>2, PTL DEF Spec

\* A join or leave is decided on the log it is appended to: its events are numbered
\* after what it has loaded, and the unique index refuses them if that is no longer
\* the end of the log.
THEOREM LobbyDecisionsCurrent == Spec => LobbyDecidesOnLog
<1>1. RInv /\ [Next]_vars =>
        \A j \in LobbyOps : (\E row \in log' \ log : row.by = j) => base[j] = Latest
  <2> SUFFICES ASSUME RInv, [Next]_vars, NEW j \in LobbyOps,
                      NEW row \in log' \ log, row.by = j
               PROVE  base[j] = Latest
    OBVIOUS
  <2>1. PICK n \in Nat : n >= 1 /\ Numbers = 1..n
    BY DEF RInv, IInv, LogNumbered
  <2>2. Latest = n
    BY <2>1, LatestIs
  <2>3. ASSUME NEW s \in Sessions, SessionWrites(s)
        PROVE  FALSE
    BY <2>3, SessionCause, SessionAssumption DEF SessionWrites, Insert, RInv
  <2>4. ASSUME NEW i \in LobbyOps, NEW k \in 1..2, LobbyWrites(i, k)
        PROVE  base[j] = Latest
    <3>1. i = j
      BY <2>4 DEF LobbyWrites, Insert
    <3>2. base[j] \in 1..n
      BY <2>1, <2>4, <3>1 DEF LobbyWrites, RInv, IInv, WritersSound, BaseKnown
    <3>3. base[j] + 1 \notin 1..n
      BY <2>1, <2>4, <3>1, <3>2 DEF LobbyWrites, Conflict, LobbySequences
    <3> QED
      BY <2>2, <3>2, <3>3
  <2> QED
    BY <2>3, <2>4, StepsThatWrite
<1> QED
  BY <1>1, RInvAlways, PTL DEF Spec, LobbyDecidesOnLog

\* A call of JoinTable or LeaveTable that is retried after a conflict, a failure, a lost
\* answer or a restart is written once, whatever other copies of it do.
THEOREM LobbyWritesOnce == Spec => LobbyOnce
<1>1. RInv /\ [Next]_vars =>
        \A j \in LobbyOps : (\E row \in log' \ log : row.by = j) => \A row \in log : row.by # j
  <2> SUFFICES ASSUME RInv, [Next]_vars, NEW j \in LobbyOps,
                      NEW row \in log' \ log, row.by = j
               PROVE  \A old \in log : old.by # j
    OBVIOUS
  <2>1. ASSUME NEW s \in Sessions, SessionWrites(s)
        PROVE  FALSE
    BY <2>1, SessionCause, SessionAssumption DEF SessionWrites, Insert, RInv
  <2>2. ASSUME NEW i \in LobbyOps, NEW k \in 1..2, LobbyWrites(i, k)
        PROVE  \A old \in log : old.by # j
    <3>1. i = j
      BY <2>2 DEF LobbyWrites, Insert
    <3> QED
      BY <2>2, <3>1 DEF LobbyWrites, RInv, LobbySound
  <2> QED
    BY <2>1, <2>2, StepsThatWrite
<1> QED
  BY <1>1, RInvAlways, PTL DEF Spec, LobbyOnce

-----------------------------------------------------------------------------
(***************************************************************************)
(* GameSession implements EventLog.                                        *)
(***************************************************************************)

\* A batch that is inserted is one Append of the abstract log.
LEMMA InsertIsAppend ==
  ASSUME LogNumbered,
         NEW b \in Numbers, NEW k \in Nat \ {0}, NEW seqs, NEW c, NEW w,
         seqs = (b + 1)..(b + k),
         ~Conflict(seqs),
         Insert(seqs, c, w),
         Confirmed' = Confirmed
  PROVE  L!Append(c)
<1>1. PICK n \in Nat : n >= 1 /\ Numbers = 1..n
  BY DEF LogNumbered
<1>2. b = n
  <2>1. b + 1 \in seqs /\ b \in 1..n
    BY <1>1
  <2>2. b + 1 \notin 1..n
    BY <1>1, <2>1 DEF Conflict
  <2> QED
    BY <2>1, <2>2
<1>3. LogNumbered' /\ Numbers' = Numbers \cup seqs
  BY InsertContinues
<1> DEFINE rows == {[seq |-> m, cmd |-> c, by |-> w] : m \in seqs}
<1>4. log' = log \cup rows
  BY DEF Insert
<1>5. \A row \in rows : row.seq \in seqs /\ row.cmd = c /\ row.by = w
  OBVIOUS
<1>6. \A row \in log : row.seq \in Numbers
  BY DEF Numbers
<1>7. [seq |-> n + 1, cmd |-> c, by |-> w] \in rows
  BY <1>1, <1>2
<1> HIDE DEF rows
<1>8. \A row \in rows : row \notin log
  BY <1>5, <1>6 DEF Conflict
<1>9. log' \ log = rows /\ log' # log /\ log \subseteq log'
  BY <1>4, <1>7, <1>8
<1>10. \E row \in log' \ log : \A other \in log' \ log : other.cmd = c /\ other.by = row.by
  BY <1>5, <1>7, <1>9
<1>11. \A x, y \in log' : x.seq = y.seq => x = y
  BY <1>3 DEF LogNumbered
<1>12. ASSUME NEW x \in log' \ log
       PROVE  /\ \A m \in Numbers : m < x.seq
              /\ x.seq - 1 \in {row.seq : row \in log'}
  <2>1. x.seq \in seqs
    BY <1>5, <1>9
  <2>2. x.seq \in (n + 1)..(n + k)
    BY <1>2, <2>1
  <2>3. \A m \in Numbers : m < x.seq
    BY <1>1, <2>2
  <2>4. x.seq - 1 \in Numbers'
    BY <1>1, <1>2, <1>3, <2>2
  <2> QED
    BY <2>3, <2>4 DEF Numbers
<1>13. L!Numbers = Numbers
  BY DEF L!Numbers, Numbers
<1> QED
  BY <1>9, <1>10, <1>11, <1>12, <1>13 DEF L!Append

\* Commands are confirmed by the reply a caller receives, lobby operations when they
\* are done, and neither is ever taken back.
LEMMA StepsThatConfirm ==
  ASSUME RInv, [Next]_vars, log' = log
  PROVE  \/ Confirmed' = Confirmed
         \/ \E c \in Commands \cup LobbyIds : L!Confirm(c)
<1> USE DEF RInv
<1>1. ASSUME call' = call, lobby' = lobby
      PROVE  Confirmed' = Confirmed
  BY <1>1 DEF Confirmed
<1>2. ASSUME NEW r \in Requests, Submit(r)
      PROVE  Confirmed' = Confirmed \/ \E c \in Commands : L!Confirm(c)
  <2>1. lobby' = lobby
    BY <1>2 DEF Submit, Route, Enqueue, AwaitReply, GiveUp, lobbyVars
  <2>2. CASE \A q \in Requests : call'[q] = "ok" <=> call[q] = "ok"
    BY <2>1, <2>2 DEF Confirmed
  <2>3. CASE ~\A q \in Requests : call'[q] = "ok" <=> call[q] = "ok"
    <3>1. call' = [call EXCEPT ![r] = "ok"] /\ reply[r] = "ok"
      BY <1>2, <2>3 DEF Submit, Route, Enqueue, AwaitReply, GiveUp, IInv, SessionTypes
    <3>2. r[1] \in Commands /\ Processed(r[1])
      BY <3>1 DEF IInv, AnswersSound, Requests
    <3>3. Confirmed' = Confirmed \cup {r[1]}
      BY <2>1, <3>1, <3>2 DEF Confirmed, IInv, SessionTypes
    <3> QED
      BY <3>2, <3>3 DEF L!Confirm, Processed
  <2> QED
    BY <2>2, <2>3
<1>3. CASE \E s \in Sessions : Run(s) \/ Reap(s)
  BY <1>1, <1>3 DEF Run, Receive, DeadlineFires, Exit, SessionStep, LookupByCommandID,
                    StampEvents, AppendEvents, Reap, callVars, lobbyVars
<1>4. ASSUME NEW j \in LobbyOps, Lobby(j)
      PROVE  Confirmed' = Confirmed \/ L!Confirm(j[1])
  <2>1. call' = call
    BY <1>4 DEF Lobby, LobbyLookup, LobbyLoad, LobbyAppend, Invalidate, LobbyAgain, callVars
  <2>2. CASE Invalidate(j)
    <3>1. Processed(j[1]) /\ j[1] \in LobbyIds
      BY <2>2 DEF LobbyOps, Invalidate, LobbySound
    <3>2. Confirmed' = Confirmed \cup {j[1]}
      BY <2>1, <2>2, <3>1 DEF Invalidate, Confirmed, IInv, SessionTypes
    <3> QED
      BY <3>1, <3>2 DEF L!Confirm, Processed
  <2>3. CASE LobbyLookup(j) \/ LobbyLoad(j) \/ LobbyAppend(j) \/ LobbyAgain(j)
    <3>1. \A i \in LobbyOps : lobby'[i] = "done" <=> lobby[i] = "done"
      BY <2>3 DEF LobbyLookup, LobbyLoad, LobbyAppend, LobbyAgain, IInv, SessionTypes
    <3> QED
      BY <2>1, <3>1 DEF Confirmed
  <2> QED
    BY <1>4, <2>2, <2>3 DEF Lobby
<1>5. CASE Restart
  <2>1. /\ \A q \in Requests : call'[q] = "ok" <=> call[q] = "ok"
        /\ \A i \in LobbyOps : lobby'[i] = "done" <=> lobby[i] = "done"
    BY <1>5 DEF Restart
  <2> QED
    BY <2>1 DEF Confirmed
<1>6. CASE UNCHANGED vars
  BY <1>1, <1>6 DEF vars, callVars, lobbyVars
<1> QED
  BY <1>2, <1>3, <1>4, <1>5, <1>6 DEF Next, LobbyOps

\* Sessions, timers, lobby operations and restarts together implement one log that
\* grows by whole batches in order and confirms only what it holds.
THEOREM SessionImplementsEventLog == Spec => ImplementsEventLog
<1>1. Init => L!Init
  <2> SUFFICES ASSUME Init PROVE L!Init
    OBVIOUS
  <2>1. L!Numbers = {1}
    BY DEF Init, L!Numbers
  <2>2. Confirmed = {}
    BY DEF Init, Confirmed
  <2> QED
    BY <2>1, <2>2 DEF L!Init
<1>2. RInv /\ [Next]_vars => [L!Next]_<<log, Confirmed>>
  <2> SUFFICES ASSUME RInv, [Next]_vars
               PROVE  L!Next \/ UNCHANGED <<log, Confirmed>>
    OBVIOUS
  <2>1. CASE log' = log
    BY <2>1, StepsThatConfirm DEF L!Next
  <2>2. ASSUME NEW s \in Sessions, SessionWrites(s)
        PROVE  L!Next
    <3>1. PICK c, w, seqs : c = CurrentCommand(s) /\ w = current[s] /\ seqs = batch[s]
      OBVIOUS
    <3>2. c \in Commands \cup {Server}
      BY <2>2, <3>1, SessionCause DEF RInv
    <3>3. PICK b \in Numbers, k \in Nat \ {0} : seqs = (b + 1)..(b + k)
      BY <2>2, <3>1, SessionCause DEF RInv
    <3>4. Confirmed' = Confirmed
      BY <2>2 DEF SessionWrites, Confirmed
    <3>5. ~Conflict(seqs) /\ Insert(seqs, c, w) /\ LogNumbered
      BY <2>2, <3>1 DEF SessionWrites, RInv, IInv
    <3>6. L!Append(c)
      BY <3>3, <3>4, <3>5, InsertIsAppend
    <3> QED
      BY <3>2, <3>6 DEF L!Next
  <2>3. ASSUME NEW j \in LobbyOps, NEW k \in 1..2, LobbyWrites(j, k)
        PROVE  L!Next
    <3>1. PICK b \in Numbers : b = base[j]
      BY <2>3 DEF LobbyWrites, RInv, IInv, WritersSound, BaseKnown
    <3>2. PICK seqs : seqs = (b + 1)..(b + k)
      OBVIOUS
    <3>3. ~Conflict(seqs) /\ Insert(seqs, j[1], j) /\ LogNumbered
      BY <2>3, <3>1, <3>2 DEF LobbyWrites, LobbySequences, RInv, IInv
    <3>4. \A i \in LobbyOps : lobby'[i] = "done" <=> lobby[i] = "done"
      BY <2>3 DEF LobbyWrites, RInv, IInv, SessionTypes
    <3>5. Confirmed' = Confirmed
      BY <2>3, <3>4 DEF LobbyWrites, Confirmed
    <3>6. L!Append(j[1])
      BY <3>2, <3>3, <3>5, InsertIsAppend
    <3> QED
      BY <3>6 DEF L!Next, LobbyOps
  <2> QED
    BY <2>1, <2>2, <2>3, StepsThatWrite
<1> QED
  BY <1>1, <1>2, RInvAlways, PTL DEF Spec, ImplementsEventLog, L!Spec

-----------------------------------------------------------------------------
(***************************************************************************)
(* A table nobody joins or leaves, on a store that works.                  *)
(***************************************************************************)

\* The session in the map is the only one that runs, unless it has been invalidated.
Alone ==
  /\ status = [s \in Sessions |-> status[s]]
  /\ routed \in Sessions \cup {None}
  /\ \A s \in Sessions : status[s] = "running" /\ s \notin cancelled => routed = s

\* Holds with lobby operations too: Router.Invalidate cancels what it drops.
LEMMA AloneNext ==
  ASSUME Alone, [Next]_vars
  PROVE  Alone'
<1>1. ASSUME NEW r \in Requests, Submit(r)
      PROVE  Alone'
  <2>1. cancelled' = cancelled
    BY <1>1 DEF Submit, Route, Enqueue, AwaitReply, GiveUp, sessionVars
  <2>2. CASE status' = status /\ routed' = routed
    BY <2>1, <2>2 DEF Alone
  <2>3. ASSUME NEW s \in Sessions, NewSession(s), routed = None
        PROVE  Alone'
    BY <2>1, <2>3, SessionAssumption DEF Alone, NewSession
  <2> QED
    BY <1>1, <2>2, <2>3
       DEF Submit, Route, GetOrLoad, Enqueue, AwaitReply, GiveUp, sessionVars
<1>2. ASSUME NEW s \in Sessions, Run(s)
      PROVE  Alone'
  <2>1. routed' = routed /\ cancelled' = cancelled
    BY <1>2 DEF Run, Receive, DeadlineFires, Exit, SessionStep, LookupByCommandID,
                StampEvents, AppendEvents
  <2>2. status' = status \/ status' = [status EXCEPT ![s] = "closed"]
    BY <1>2 DEF Run, Receive, DeadlineFires, Exit, SessionStep, LookupByCommandID,
                StampEvents, AppendEvents
  <2> QED
    BY <2>1, <2>2 DEF Alone
<1>3. ASSUME NEW s \in Sessions, Reap(s)
      PROVE  Alone'
  BY <1>3, SessionAssumption DEF Reap, Reapable, Alone, sessionVars
<1>4. ASSUME NEW j \in LobbyOps, Lobby(j)
      PROVE  Alone'
  <2>1. CASE Invalidate(j)
    BY <2>1, SessionAssumption DEF Invalidate, Alone
  <2>2. CASE LobbyLookup(j) \/ LobbyLoad(j) \/ LobbyAppend(j) \/ LobbyAgain(j)
    BY <2>2 DEF LobbyLookup, LobbyLoad, LobbyAppend, LobbyAgain, Alone, sessionVars
  <2> QED
    BY <1>4, <2>1, <2>2 DEF Lobby
<1>5. CASE Restart
  BY <1>5 DEF Restart, Alone
<1>6. CASE UNCHANGED vars
  BY <1>6 DEF vars, sessionVars, Alone
<1> QED
  BY <1>1, <1>2, <1>3, <1>4, <1>5, <1>6 DEF Next

Uncancelled == cancelled = {}

\* Without lobby operations nothing is ever cancelled.
LEMMA NothingCancelled ==
  ASSUME LobbyOps = {}, Uncancelled, [Next]_vars
  PROVE  Uncancelled'
<1> USE DEF Uncancelled
<1>1. CASE \E r \in Requests : Submit(r)
  BY <1>1 DEF Submit, Route, Enqueue, AwaitReply, GiveUp, sessionVars
<1>2. CASE \E s \in Sessions : Run(s) \/ Reap(s)
  BY <1>2 DEF Run, Receive, DeadlineFires, Exit, SessionStep, LookupByCommandID,
              StampEvents, AppendEvents, Reap, sessionVars
<1>3. CASE Restart \/ UNCHANGED vars
  BY <1>3 DEF Restart, vars, sessionVars
<1> QED
  BY <1>1, <1>2, <1>3 DEF Next

\* "One Session per active game owns that game's state": with no join or leave, two
\* sessions never append at the same time, whatever exits, is reaped, reloads, fails
\* or restarts.
THEOREM QuietOneWriter ==
  ASSUME LobbyOps = {}
  PROVE  Spec => []OneWriter
<1>1. Init => Alone /\ Uncancelled
  BY DEF Init, Alone, Uncancelled
<1>2. Alone /\ Uncancelled /\ [Next]_vars => Alone' /\ Uncancelled'
  BY AloneNext, NothingCancelled
<1>3. Alone /\ Uncancelled => OneWriter
  BY DEF Alone, Uncancelled, OneWriter
<1> QED
  BY <1>1, <1>2, <1>3, PTL DEF Spec

\* The requests of a command that have been answered.
Answered(c) == {r \in Requests : r[1] = c /\ reply[r] # "empty"}

\* A request is sent once, waits in the inbox of its session once, and is answered
\* once, after it has left the inbox.
Sent(r) == call[r] \notin {"unsent", "routed"}

WaitsAt(r, s) == target[r] = s /\ reply[r] = "empty" /\ Sent(r)

InboxSound(s) ==
  /\ \A i \in 1..Len(inbox[s]) : WaitsAt(inbox[s][i], s)
  /\ \A i, k \in 1..Len(inbox[s]) : inbox[s][i] = inbox[s][k] => i = k
  /\ current[s] \in Requests =>
       WaitsAt(current[s], s) /\ \A i \in 1..Len(inbox[s]) : inbox[s][i] # current[s]

ReplySound(r) ==
  reply[r] \in {"empty", "ok", "failed"} /\ (reply[r] # "empty" => Sent(r))

RequestsSound ==
  /\ target = [r \in Requests |-> target[r]]
  /\ \A s \in Sessions : InboxSound(s)
  /\ \A r \in Requests : ReplySound(r)

\* A command in the log has been answered.
CommandsAnswered == \A c \in Commands : Processed(c) => Answered(c) # {}

\* The state of session s: every event of the log, and the first event of a command no
\* more often than the command has been answered.
StateExact(s) ==
  status[s] = "running" =>
    /\ DOMAIN state[s] = Numbers
    /\ \A n \in Numbers : state[s][n] \in Nat
    /\ \A n \in Numbers : state[s][n] > 1 => \E c \in Commands : Processed(c) /\ FirstEvent(c) = n
    /\ \A c \in Commands : Processed(c) => state[s][FirstEvent(c)] <= Cardinality(Answered(c))

StatesExact == \A s \in Sessions : StateExact(s)

\* Only requests are looked up; the server's own steps have no command id.
LookupsForRequests == \A s \in Sessions : pc[s] = "lookup" => current[s] \in Requests

QInv ==
  /\ IInv /\ Alone /\ Uncancelled /\ LookupsForRequests
  /\ RequestsSound /\ CommandsAnswered /\ StatesExact

\* Requests are finitely many, and answers only add to those of a command.
LEMMA AnsweredFinite ==
  ASSUME NEW c
  PROVE  /\ IsFiniteSet(Answered(c)) /\ Cardinality(Answered(c)) \in Nat
         /\ Answered(c) # {} => Cardinality(Answered(c)) >= 1
<1>1. IsFiniteSet(1..MaxAttempts)
  BY FS_Interval, SessionAssumption
<1>2. IsFiniteSet(Requests)
  BY <1>1, FS_Product, SessionAssumption DEF Requests
<1>3. Answered(c) \subseteq Requests
  BY DEF Answered
<1>4. IsFiniteSet(Answered(c))
  BY <1>2, <1>3, FS_Subset
<1> QED
  BY <1>4, FS_CardinalityType, FS_EmptySet

AnswersCounted(c) ==
  Cardinality(Answered(c)) \in Nat /\ (Answered(c) # {} => Cardinality(Answered(c)) >= 1)

\* The same of the answers after a step.
LEMMA AnsweredFiniteNext ==
  ASSUME NEW c
  PROVE  Cardinality(Answered(c)') \in Nat /\ (Answered(c)' # {} => Cardinality(Answered(c)') >= 1)
<1>1. AnswersCounted(c)
  BY AnsweredFinite DEF AnswersCounted
<1>2. AnswersCounted(c)'
  BY <1>1, PTL
<1> QED
  BY <1>2 DEF AnswersCounted

\* An answer that was not there before counts.
LEMMA AnswerCounts ==
  ASSUME NEW r \in Requests, reply[r] = "empty", reply = [q \in Requests |-> reply[q]],
         NEW outcome, outcome # "empty", reply' = [reply EXCEPT ![r] = outcome]
  PROVE  /\ \A c : Cardinality(Answered(c)') >= Cardinality(Answered(c))
         /\ \A c : Answered(c) \subseteq Answered(c)'
         /\ r \in Answered(r[1])'
         /\ Cardinality(Answered(r[1])') = Cardinality(Answered(r[1])) + 1
<1>1. \A c : Answered(c)' = IF c = r[1] THEN Answered(c) \cup {r} ELSE Answered(c)
  BY DEF Answered
<1>2. r \notin Answered(r[1])
  BY DEF Answered
<1>3. Cardinality(Answered(r[1]) \cup {r}) = Cardinality(Answered(r[1])) + 1
  BY <1>2, AnsweredFinite, FS_AddElement
<1>4. \A c : Cardinality(Answered(c)) \in Nat
  BY AnsweredFinite
<1>5. Answered(r[1])' = Answered(r[1]) \cup {r}
  BY <1>1
<1>6. Cardinality(Answered(r[1])') = Cardinality(Answered(r[1])) + 1
  BY <1>3, <1>5
<1>7. ASSUME NEW c
      PROVE  Cardinality(Answered(c)') >= Cardinality(Answered(c))
  <2>1. CASE c = r[1]
    BY <1>4, <1>6, <2>1
  <2>2. CASE c # r[1]
    BY <1>1, <1>4, <2>2
  <2> QED
    BY <2>1, <2>2
<1>8. \A c : Answered(c) \subseteq Answered(c)'
  BY <1>1
<1> QED
  BY <1>5, <1>6, <1>7, <1>8

\* FindEventByCommandID returns the row of the command with the least number.
LEMMA FirstEventIs ==
  ASSUME LogNumbered, NEW c, Processed(c)
  PROVE  /\ FirstEvent(c) \in Numbers
         /\ \E row \in log : /\ row.seq = FirstEvent(c) /\ row.cmd = c
                             /\ \A other \in log : other.cmd = c => FirstEvent(c) <= other.seq
<1> DEFINE rows == {row \in log : row.cmd = c}
           f == [row \in rows |-> row.seq]
<1>1. \A row \in log : row.seq \in Nat /\ row.seq \in Numbers
  BY DEF LogNumbered, Numbers
<1>2. rows # {} /\ \A row \in rows : f[row] \in Nat
  BY <1>1 DEF Processed
<1>3. PICK first \in rows : \A row \in rows : f[first] <= f[row]
  <2> HIDE DEF rows, f
  <2> QED
    BY <1>2, MinimumExists
<1>4. \E n \in Numbers : \E row \in log :
        /\ row.seq = n /\ row.cmd = c
        /\ \A other \in log : other.cmd = c => n <= other.seq
  BY <1>1, <1>3
<1> HIDE DEF rows, f
<1> QED
  BY <1>4 DEF FirstEvent

HasFirst(c) ==
  \E row \in log : /\ row.seq = FirstEvent(c) /\ row.cmd = c
                   /\ \A other \in log : other.cmd = c => FirstEvent(c) <= other.seq

\* The same of the log after a step.
LEMMA FirstEventIsNext ==
  ASSUME NEW c
  PROVE  LogNumbered' /\ Processed(c)' => HasFirst(c)'
<1>1. LogNumbered /\ Processed(c) => HasFirst(c)
  BY FirstEventIs DEF HasFirst
<1> QED
  BY <1>1, PTL

\* Two commands have different first events.
LEMMA FirstEventsDiffer ==
  ASSUME LogNumbered, NEW c, NEW d, Processed(c), Processed(d), FirstEvent(c) = FirstEvent(d)
  PROVE  c = d
<1>1. PICK x \in log : x.seq = FirstEvent(c) /\ x.cmd = c
  BY FirstEventIs
<1>2. PICK y \in log : y.seq = FirstEvent(d) /\ y.cmd = d
  BY FirstEventIs
<1> QED
  BY <1>1, <1>2 DEF LogNumbered

\* Rows that are appended do not change the first event of a command that has one, and
\* are the first of a command that had none.
LEMMA FirstEventStable ==
  ASSUME LogNumbered, LogNumbered', NEW c, Processed(c)', log \subseteq log',
         \A row \in log' \ log : \A n \in Numbers : n < row.seq
  PROVE  IF Processed(c) THEN FirstEvent(c)' = FirstEvent(c)
                         ELSE FirstEvent(c)' \notin Numbers
<1>1. PICK x \in log' : /\ x.seq = FirstEvent(c)' /\ x.cmd = c
                        /\ \A other \in log' : other.cmd = c => FirstEvent(c)' <= other.seq
  BY FirstEventIsNext DEF HasFirst
<1>2. \A row \in log : row.seq \in Numbers /\ row.seq \in Nat
  BY DEF LogNumbered, Numbers
<1>3. CASE Processed(c)
  <2>1. PICK y \in log : /\ y.seq = FirstEvent(c) /\ y.cmd = c
                         /\ \A other \in log : other.cmd = c => FirstEvent(c) <= other.seq
    BY <1>3, FirstEventIs
  <2>2. x.seq <= y.seq /\ y.seq \in Nat /\ y.seq \in Numbers
    BY <1>1, <1>2, <2>1
  <2>3. x \in log
    <3>1. x.seq \in Nat
      BY <1>1 DEF LogNumbered, Numbers
    <3>2. CASE x \in log' \ log
      BY <2>2, <3>1, <3>2
    <3> QED
      BY <3>2
  <2> QED
    BY <1>1, <1>2, <1>3, <2>1, <2>2, <2>3
<1>4. CASE ~Processed(c)
  <2>1. x \in log' \ log
    BY <1>1, <1>4 DEF Processed
  <2>2. x.seq \in Nat
    BY <1>1 DEF LogNumbered, Numbers
  <2> QED
    BY <1>1, <1>4, <2>1, <2>2
<1> QED
  BY <1>3, <1>4

\* Steps that write and answer nothing: the sessions that run go on or were loaded.
LEMMA StatesKept ==
  ASSUME QInv, log' = log, reply' = reply,
         \A s \in Sessions : status'[s] = "running" =>
           (status[s] = "running" /\ state'[s] = state[s]) \/ state'[s] = LoadState
  PROVE  CommandsAnswered' /\ StatesExact'
<1>1. /\ Numbers' = Numbers
      /\ \A c : Processed(c)' <=> Processed(c)
      /\ \A c : FirstEvent(c)' = FirstEvent(c)
      /\ \A c : Answered(c)' = Answered(c)
  BY DEF Numbers, Processed, FirstEvent, Answered
<1>2. CommandsAnswered'
  BY <1>1 DEF QInv, CommandsAnswered
<1>3. ASSUME NEW s \in Sessions, status'[s] = "running"
      PROVE  StateExact(s)'
  <2>1. CASE status[s] = "running" /\ state'[s] = state[s]
    BY <1>1, <2>1 DEF QInv, StatesExact, StateExact
  <2>2. CASE state'[s] = LoadState
    <3>1. DOMAIN state'[s] = Numbers /\ \A n \in Numbers : state'[s][n] = 1
      BY <2>2 DEF LoadState, SetToBag
    <3>2. ASSUME NEW c \in Commands, Processed(c)
          PROVE  state'[s][FirstEvent(c)] <= Cardinality(Answered(c))
      <4>1. FirstEvent(c) \in Numbers
        BY <3>2, FirstEventIs DEF QInv, IInv
      <4>2. Cardinality(Answered(c)) \in Nat /\ Cardinality(Answered(c)) >= 1
        BY <3>2, AnsweredFinite DEF QInv, CommandsAnswered
      <4> QED
        BY <3>1, <4>1, <4>2
    <3> QED
      BY <1>1, <3>1, <3>2 DEF StateExact
  <2> QED
    BY <1>3, <2>1, <2>2
<1>4. StatesExact'
  BY <1>3 DEF StatesExact, StateExact
<1> QED
  BY <1>2, <1>4

\* Callers: a request is put into one inbox, once.
LEMMA QuietSubmit ==
  ASSUME QInv, NEW r \in Requests, Submit(r)
  PROVE  RequestsSound' /\ CommandsAnswered' /\ StatesExact'
<1> USE DEF QInv
<1>1. /\ log' = log /\ reply' = reply /\ current' = current
  BY DEF Submit, Route, Enqueue, AwaitReply, GiveUp, sessionVars
<1>2. \A s \in Sessions : status'[s] = "running" =>
           (status[s] = "running" /\ state'[s] = state[s]) \/ state'[s] = LoadState
  <2>1. CASE Route(r)
    BY <2>1 DEF Route, GetOrLoad, NewSession, Alone, IInv, SessionTypes
  <2>2. CASE Enqueue(r) \/ AwaitReply(r) \/ GiveUp(r)
    BY <2>2 DEF Enqueue, AwaitReply, GiveUp, sessionVars
  <2> QED
    BY <2>1, <2>2 DEF Submit
<1>3. CommandsAnswered' /\ StatesExact'
  BY <1>1, <1>2, StatesKept
<1>4. \A q \in Requests \ {r} : call'[q] = call[q] /\ target'[q] = target[q]
  BY DEF Submit, Route, GetOrLoad, NewSession, Enqueue, AwaitReply, GiveUp, RequestsSound,
         IInv, SessionTypes
<1>5. target' = [q \in Requests |-> target'[q]]
  BY DEF Submit, Route, GetOrLoad, NewSession, Enqueue, AwaitReply, GiveUp, RequestsSound
<1>6. \A s \in Sessions : inbox[s] \in Seq(Requests)
  BY DEF IInv, SessionTypes
<1>7. CASE Route(r)
  <2>1. call[r] = "unsent" /\ inbox' = inbox
    BY <1>7 DEF Route
  <2>2. ASSUME NEW q \in Requests, NEW s \in Sessions, WaitsAt(q, s)
        PROVE  WaitsAt(q, s)'
    BY <1>1, <1>4, <2>1, <2>2 DEF WaitsAt, Sent
  <2>3. ASSUME NEW s \in Sessions
        PROVE  InboxSound(s)'
    <3>1. \A i \in 1..Len(inbox[s]) : inbox[s][i] \in Requests
      BY <1>6
    <3> QED
      BY <1>1, <2>1, <2>2, <3>1 DEF RequestsSound, InboxSound
  <2>4. \A q \in Requests : ReplySound(q)'
    BY <1>1, <1>4, <2>1 DEF RequestsSound, ReplySound, Sent
  <2> QED
    BY <1>3, <1>5, <2>3, <2>4 DEF RequestsSound
<1>8. CASE Enqueue(r) \/ AwaitReply(r) \/ GiveUp(r)
  <2>1. target' = target
    BY <1>8 DEF Enqueue, AwaitReply, GiveUp
  <2>2. Sent(r)'
    BY <1>8 DEF Enqueue, AwaitReply, GiveUp, Sent, IInv, SessionTypes, RequestsSound,
           ReplySound
  <2>3. ASSUME NEW q \in Requests, NEW s \in Sessions, WaitsAt(q, s)
        PROVE  WaitsAt(q, s)'
    BY <1>1, <1>4, <2>1, <2>2, <2>3 DEF WaitsAt, Sent
  <2>4. \A q \in Requests : ReplySound(q)'
    BY <1>1, <1>4, <2>2 DEF RequestsSound, ReplySound, Sent
  <2>5. ASSUME NEW s \in Sessions, inbox'[s] = inbox[s]
        PROVE  InboxSound(s)'
    <3>1. \A i \in 1..Len(inbox[s]) : inbox[s][i] \in Requests
      BY <1>6
    <3> QED
      BY <1>1, <2>3, <2>5, <3>1 DEF RequestsSound, InboxSound
  <2>6. ASSUME NEW s \in Sessions, inbox'[s] # inbox[s]
        PROVE  InboxSound(s)'
    <3>1. call[r] = "routed" /\ s = target[r] /\ inbox'[s] = Append(inbox[s], r)
      BY <1>8, <2>6 DEF Enqueue, AwaitReply, GiveUp, sessionVars, IInv, SessionTypes
    <3>2. PICK q \in Seq(Requests) : q = inbox[s]
      BY <1>6
    <3>3. PICK q2 \in Seq(Requests) : q2 = Append(q, r)
      <4>1. Append(q, r) \in Seq(Requests)
        OBVIOUS
      <4> QED
        BY <4>1
    <3>4. /\ Len(q2) = Len(q) + 1 /\ Len(q) \in Nat
          /\ \A i \in 1..Len(q) : q2[i] = q[i] /\ q[i] \in Requests
          /\ q2[Len(q) + 1] = r
      BY <3>3
    <3>5. \A i \in 1..Len(q) : WaitsAt(q[i], s) /\ q[i] # r
      BY <3>1, <3>2 DEF RequestsSound, InboxSound, WaitsAt, Sent
    <3>6. WaitsAt(r, s)'
      BY <1>1, <2>1, <2>2, <3>1 DEF RequestsSound, ReplySound, WaitsAt, Sent
    <3>7. \A i \in 1..Len(q2) : WaitsAt(q2[i], s)'
      BY <2>3, <3>4, <3>5, <3>6
    <3>8. \A i, k \in 1..Len(q2) : q2[i] = q2[k] => i = k
      <4>1. \A i, k \in 1..Len(q) : q[i] = q[k] => i = k
        BY <3>2 DEF RequestsSound, InboxSound
      <4> QED
        BY <3>4, <3>5, <4>1
    <3>9. PICK cur : cur = current[s] /\ cur = current'[s]
      BY <1>1
    <3>11. ASSUME cur \in Requests
           PROVE  WaitsAt(cur, s)' /\ \A i \in 1..Len(q2) : q2[i] # cur
      <4>1. WaitsAt(cur, s)
        BY <3>9, <3>11 DEF RequestsSound, InboxSound
      <4>3. cur # r
        BY <3>1, <4>1 DEF WaitsAt, Sent
      <4>2. \A i \in 1..Len(q) : q[i] # cur
        BY <3>2, <3>9, <3>11 DEF RequestsSound, InboxSound
      <4> QED
        BY <2>3, <3>4, <3>11, <4>1, <4>2, <4>3
    <3>10. inbox'[s] = q2
      BY <3>1, <3>2, <3>3
    <3> QED
      BY <3>7, <3>8, <3>9, <3>10, <3>11 DEF InboxSound
  <2> QED
    BY <1>3, <1>5, <2>4, <2>5, <2>6 DEF RequestsSound
<1> QED
  BY <1>7, <1>8 DEF Submit

\* process returns: the request it has answered waits nowhere else.
LEMMA QuietReturn ==
  ASSUME QInv, NEW s \in Sessions, pc[s] # "select",
         NEW outcome \in {"ok", "failed"}, Return(s, outcome),
         UNCHANGED <<inbox, call, target>>
  PROVE  /\ RequestsSound'
         /\ \/ current[s] = Server /\ reply' = reply
            \/ /\ current[s] \in Requests /\ reply[current[s]] = "empty"
               /\ reply' = [reply EXCEPT ![current[s]] = outcome]
<1> USE DEF QInv
<1>1. PICK cur : cur = current[s]
  OBVIOUS
<1>2. cur \in Requests \cup {Server} /\ Server \notin Requests /\ None \notin Requests
  BY <1>1, SessionAssumption DEF IInv, WorkSound
<1>3. current' = [current EXCEPT ![s] = None]
  BY DEF Return
<1>4. /\ cur = Server => reply' = reply
      /\ cur \in Requests => reply' = [reply EXCEPT ![cur] = outcome]
  BY <1>1, <1>2 DEF Return
<1>5. cur \in Requests => WaitsAt(cur, s) /\ \A k \in 1..Len(inbox[s]) : inbox[s][k] # cur
  BY <1>1 DEF RequestsSound, InboxSound
<1>6. ASSUME NEW q \in Requests, NEW t \in Sessions, WaitsAt(q, t), t # s \/ q # cur
      PROVE  WaitsAt(q, t)'
  <2>1. q # cur
    BY <1>5, <1>6 DEF WaitsAt
  <2>2. reply'[q] = reply[q]
    BY <1>2, <1>4, <2>1 DEF IInv, SessionTypes
  <2> QED
    BY <1>6, <2>2 DEF WaitsAt, Sent
<1>7. ASSUME NEW t \in Sessions
      PROVE  InboxSound(t)'
  <2>1. PICK box \in Seq(Requests) : box = inbox[t] /\ box = inbox'[t]
    BY DEF IInv, SessionTypes
  <2>2. \A k \in 1..Len(box) : box[k] \in Requests /\ WaitsAt(box[k], t) /\ (t # s \/ box[k] # cur)
    BY <1>1, <1>2, <1>5, <2>1 DEF RequestsSound, InboxSound
  <2>3. \A k \in 1..Len(box) : WaitsAt(box[k], t)'
    BY <1>6, <2>2
  <2>4. \A k, m \in 1..Len(box) : box[k] = box[m] => k = m
    BY <2>1 DEF RequestsSound, InboxSound
  <2>5. PICK now : now = current'[t]
    OBVIOUS
  <2>6. ASSUME now \in Requests
        PROVE  WaitsAt(now, t)' /\ \A k \in 1..Len(box) : box[k] # now
    <3>1. t # s /\ now = current[t]
      BY <1>2, <1>3, <2>5, <2>6 DEF IInv, SessionTypes
    <3>2. WaitsAt(now, t) /\ \A k \in 1..Len(box) : box[k] # now
      BY <2>1, <2>6, <3>1 DEF RequestsSound, InboxSound
    <3> QED
      BY <1>6, <2>6, <3>1, <3>2
  <2> QED
    BY <2>1, <2>3, <2>4, <2>5, <2>6 DEF InboxSound
<1>8. ASSUME NEW q \in Requests
      PROVE  ReplySound(q)'
  <2>1. ReplySound(q)
    BY DEF RequestsSound
  <2>2. CASE q = cur
    <3>1. Sent(q) /\ reply'[q] = outcome
      BY <1>4, <1>5, <2>2 DEF WaitsAt, IInv, SessionTypes
    <3> QED
      BY <3>1 DEF ReplySound, Sent
  <2>3. CASE q # cur
    <3>1. reply'[q] = reply[q]
      BY <1>2, <1>4, <2>3 DEF IInv, SessionTypes
    <3> QED
      BY <2>1, <3>1 DEF ReplySound, Sent
  <2> QED
    BY <2>2, <2>3
<1>9. RequestsSound'
  <2>1. target' = [r \in Requests |-> target'[r]]
    BY DEF RequestsSound
  <2> QED
    BY <1>7, <1>8, <2>1 DEF RequestsSound
<1> QED
  BY <1>1, <1>2, <1>4, <1>5, <1>9 DEF WaitsAt

\* The session that runs is the one that moves.
LEMMA OnlyRunning ==
  ASSUME QInv, NEW s \in Sessions, status[s] = "running", status' = status,
         StateExact(s)'
  PROVE  StatesExact'
<1>1. \A t \in Sessions : status'[t] = "running" => t = s
  BY DEF QInv, Alone, Uncancelled
<1> QED
  BY <1>1 DEF StatesExact, StateExact

\* An answer leaves the account of the commands and the states right when the log and
\* the state stay as they are.
LEMMA AnswerOnly ==
  ASSUME QInv, NEW s \in Sessions, status[s] = "running", status' = status,
         log' = log, state' = state,
         \A c : Answered(c) \subseteq Answered(c)',
         \A c : Cardinality(Answered(c)') >= Cardinality(Answered(c))
  PROVE  CommandsAnswered' /\ StatesExact'
<1> USE DEF QInv
<1>1. /\ Numbers' = Numbers
      /\ \A c : Processed(c)' <=> Processed(c)
      /\ \A c : FirstEvent(c)' = FirstEvent(c)
  BY DEF Numbers, Processed, FirstEvent
<1>2. CommandsAnswered'
  BY <1>1 DEF CommandsAnswered
<1>3. ASSUME NEW c \in Commands, Processed(c)
      PROVE  state[s][FirstEvent(c)] <= Cardinality(Answered(c)')
  <2>1. FirstEvent(c) \in Numbers
    BY <1>3, FirstEventIs DEF IInv
  <2>2. state[s][FirstEvent(c)] \in Nat /\ state[s][FirstEvent(c)] <= Cardinality(Answered(c))
    BY <1>3, <2>1 DEF StatesExact, StateExact
  <2>3. Cardinality(Answered(c)) \in Nat
    BY AnsweredFinite
  <2>4. Cardinality(Answered(c)') \in Nat
    <3>1. \A d : Cardinality(Answered(d)') \in Nat
      BY AnsweredFiniteNext
    <3> QED
      BY <3>1
  <2> QED
    BY <2>2, <2>3, <2>4
<1>4. StateExact(s)'
  BY <1>1, <1>3 DEF StatesExact, StateExact
<1> QED
  BY <1>2, <1>4, OnlyRunning

\* A command sent again: its first event is applied once more, and one more of its
\* requests has been answered.
LEMMA DuplicateAnswered ==
  ASSUME QInv, NEW s \in Sessions, status[s] = "running", status' = status, log' = log,
         NEW r \in Requests, NEW c \in Commands, c = r[1], Processed(c),
         reply[r] = "empty", reply' = [reply EXCEPT ![r] = "ok"],
         state' = [state EXCEPT ![s] = @ (+) SetToBag({FirstEvent(c)})]
  PROVE  CommandsAnswered' /\ StatesExact'
<1> USE DEF QInv
<1>1. /\ Numbers' = Numbers
      /\ \A d : Processed(d)' <=> Processed(d)
      /\ \A d : FirstEvent(d)' = FirstEvent(d)
  BY DEF Numbers, Processed, FirstEvent
<1>2. /\ \A d : Cardinality(Answered(d)') >= Cardinality(Answered(d))
      /\ \A d : Answered(d) \subseteq Answered(d)'
      /\ Cardinality(Answered(c)') = Cardinality(Answered(c)) + 1
  BY AnswerCounts DEF IInv, SessionTypes
<1>3. CommandsAnswered'
  BY <1>1, <1>2 DEF CommandsAnswered
<1>4. PICK first \in Numbers : first = FirstEvent(c)
  BY FirstEventIs DEF IInv
<1>5. PICK B : B = state[s]
  OBVIOUS
<1>6. /\ DOMAIN B = Numbers
      /\ \A n \in Numbers : B[n] \in Nat
      /\ \A n \in Numbers : B[n] > 1 => \E d \in Commands : Processed(d) /\ FirstEvent(d) = n
      /\ \A d \in Commands : Processed(d) => B[FirstEvent(d)] <= Cardinality(Answered(d))
  BY <1>5 DEF StatesExact, StateExact
<1>7. state'[s] = B (+) SetToBag({first})
  BY <1>4, <1>5 DEF IInv, SessionTypes
<1>8. B (+) SetToBag({first}) = [n \in Numbers |-> IF n = first THEN B[n] + 1 ELSE B[n]]
  BY <1>4, <1>6 DEF (+), SetToBag
<1>9. ASSUME NEW d \in Commands, Processed(d)
      PROVE  state'[s][FirstEvent(d)] <= Cardinality(Answered(d)')
  <2>1. FirstEvent(d) \in Numbers
    BY <1>9, FirstEventIs DEF IInv
  <2>2. B[FirstEvent(d)] \in Nat /\ B[FirstEvent(d)] <= Cardinality(Answered(d))
    BY <1>6, <1>9, <2>1
  <2>3. Cardinality(Answered(d)) \in Nat /\ Cardinality(Answered(d)') \in Nat
    BY AnsweredFinite, AnsweredFiniteNext
  <2>4. CASE d = c
    <3>1. state'[s][FirstEvent(d)] = B[FirstEvent(d)] + 1
      BY <1>4, <1>7, <1>8, <2>1, <2>4
    <3>2. Cardinality(Answered(d)') = Cardinality(Answered(d)) + 1
      BY <1>2, <2>4
    <3> QED
      BY <2>2, <2>3, <3>1, <3>2
  <2>5. CASE d # c
    <3>1. FirstEvent(d) # first
      BY <1>4, <1>9, <2>5, FirstEventsDiffer DEF IInv
    <3>2. state'[s][FirstEvent(d)] = B[FirstEvent(d)]
      BY <1>7, <1>8, <2>1, <3>1
    <3>3. Cardinality(Answered(d)') >= Cardinality(Answered(d))
      BY <1>2
    <3> QED
      BY <2>2, <2>3, <3>2, <3>3
  <2> QED
    BY <2>4, <2>5
<1>10. DOMAIN state'[s] = Numbers /\ \A n \in Numbers : state'[s][n] \in Nat
  <2>1. DOMAIN state'[s] = Numbers
    BY <1>7, <1>8
  <2>2. ASSUME NEW n \in Numbers
        PROVE  state'[s][n] \in Nat
    <3>1. B[n] \in Nat
      BY <1>6
    <3>2. state'[s][n] = IF n = first THEN B[n] + 1 ELSE B[n]
      BY <1>7, <1>8
    <3> QED
      BY <3>1, <3>2
  <2> QED
    BY <2>1, <2>2
<1>11. \A n \in Numbers : state'[s][n] > 1 => \E d \in Commands : Processed(d) /\ FirstEvent(d) = n
  BY <1>4, <1>6, <1>7, <1>8
<1>12. StateExact(s)'
  BY <1>1, <1>9, <1>10, <1>11 DEF StateExact
<1> QED
  BY <1>3, <1>12, OnlyRunning

\* A batch: its events are new to the state, and a command that had no event before has
\* been answered now.
LEMMA BatchApplied ==
  ASSUME QInv, NEW s \in Sessions, status[s] = "running", status' = status,
         NEW b \in Numbers, NEW k \in Nat \ {0}, NEW seqs, NEW c, NEW w,
         seqs = (b + 1)..(b + k), ~Conflict(seqs), Insert(seqs, c, w),
         c \in Commands => Answered(c)' # {},
         \A d : Answered(d) \subseteq Answered(d)',
         \A d : Cardinality(Answered(d)') >= Cardinality(Answered(d)),
         state' = [state EXCEPT ![s] = @ (+) SetToBag(seqs)]
  PROVE  CommandsAnswered' /\ StatesExact'
<1> USE DEF QInv
<1>1. LogNumbered /\ LogNumbered' /\ Numbers' = Numbers \cup seqs
  BY InsertContinues DEF IInv
<1>2. \A d : Processed(d) => Processed(d)'
  BY InsertContinues DEF IInv
<1>3. \A d : Processed(d)' => Processed(d) \/ d = c
  BY DEF Insert, Processed
<1>4. seqs \cap Numbers = {}
  BY DEF Conflict
<1>5. \A n \in Numbers : n <= b
  <2>1. PICK n \in Nat : n >= 1 /\ Numbers = 1..n
    BY <1>1 DEF LogNumbered
  <2>2. b + 1 \in seqs /\ b \in 1..n
    BY <2>1
  <2> QED
    BY <1>4, <2>1, <2>2
<1>6. \A n \in Numbers : \A m \in seqs : n < m
  BY <1>1, <1>5 DEF LogNumbered
<1>7. log \subseteq log' /\ \A row \in log' \ log : row.seq \in seqs
  BY DEF Insert
<1>8. \A row \in log' \ log : \A n \in Numbers : n < row.seq
  BY <1>6, <1>7
<1>9. \A d : Processed(d)' => IF Processed(d) THEN FirstEvent(d)' = FirstEvent(d)
                                              ELSE FirstEvent(d)' \notin Numbers
  BY <1>1, <1>7, <1>8, FirstEventStable
<1>10. \A d : Processed(d)' => FirstEvent(d)' \in Numbers'
  <2>1. \A d : Processed(d)' => HasFirst(d)'
    BY <1>1, FirstEventIsNext
  <2> QED
    BY <2>1 DEF HasFirst, Numbers
<1>11. CommandsAnswered'
  BY <1>3 DEF CommandsAnswered
<1>12. PICK B : B = state[s]
  OBVIOUS
<1>13. /\ DOMAIN B = Numbers
       /\ \A n \in Numbers : B[n] \in Nat
       /\ \A n \in Numbers : B[n] > 1 => \E d \in Commands : Processed(d) /\ FirstEvent(d) = n
       /\ \A d \in Commands : Processed(d) => B[FirstEvent(d)] <= Cardinality(Answered(d))
  BY <1>12 DEF StatesExact, StateExact
<1>14. state'[s] = B (+) SetToBag(seqs)
  BY <1>12 DEF IInv, SessionTypes
<1>15. B (+) SetToBag(seqs) = [n \in Numbers \cup seqs |-> IF n \in Numbers THEN B[n] ELSE 1]
  BY <1>4, <1>13 DEF (+), SetToBag
<1>16. PICK B2 : B2 = state'[s]
  OBVIOUS
<1>17. /\ DOMAIN B2 = Numbers'
       /\ \A n \in Numbers : B2[n] = B[n]
       /\ \A n \in Numbers' \ Numbers : B2[n] = 1
  BY <1>1, <1>14, <1>15, <1>16
<1>18. ASSUME NEW d \in Commands, Processed(d)'
       PROVE  B2[FirstEvent(d)'] <= Cardinality(Answered(d)')
  <2>1. Cardinality(Answered(d)) \in Nat /\ Cardinality(Answered(d)') \in Nat
    BY AnsweredFinite, AnsweredFiniteNext
  <2>2. CASE Processed(d)
    <3>1. FirstEvent(d)' = FirstEvent(d) /\ FirstEvent(d) \in Numbers
      BY <1>1, <1>9, <1>18, <2>2, FirstEventIs
    <3>2. B2[FirstEvent(d)'] \in Nat /\ B2[FirstEvent(d)'] <= Cardinality(Answered(d))
      BY <1>13, <1>17, <2>2, <3>1
    <3>3. Cardinality(Answered(d)') >= Cardinality(Answered(d))
      OBVIOUS
    <3> QED
      BY <2>1, <3>2, <3>3
  <2>3. CASE ~Processed(d)
    <3>1. FirstEvent(d)' \in Numbers' \ Numbers
      BY <1>9, <1>10, <1>18, <2>3
    <3>2. B2[FirstEvent(d)'] = 1
      BY <1>17, <3>1
    <3>3. Cardinality(Answered(d)') >= 1
      BY <1>3, <1>18, <2>3, AnsweredFiniteNext
    <3> QED
      BY <3>2, <3>3
  <2> QED
    BY <2>2, <2>3
<1>19. \A n \in Numbers' : B2[n] \in Nat
  BY <1>13, <1>17
<1>20. \A n \in Numbers' : B2[n] > 1 => \E d \in Commands : Processed(d)' /\ FirstEvent(d)' = n
  <2> SUFFICES ASSUME NEW n \in Numbers', B2[n] > 1
               PROVE  \E d \in Commands : Processed(d)' /\ FirstEvent(d)' = n
    OBVIOUS
  <2>1. n \in Numbers
    BY <1>17
  <2>2. PICK d \in Commands : Processed(d) /\ FirstEvent(d) = n
    BY <1>13, <1>17, <2>1
  <2> QED
    BY <1>2, <1>9, <2>2
<1>21. StateExact(s)'
  BY <1>16, <1>17, <1>18, <1>19, <1>20 DEF StateExact
<1> QED
  BY <1>11, <1>21, OnlyRunning

\* The steps of the goroutine of a session.
LEMMA QuietRun ==
  ASSUME QInv, ~Unreliable, NEW s \in Sessions, Run(s)
  PROVE  RequestsSound' /\ CommandsAnswered' /\ StatesExact'
<1> USE DEF QInv
<1>0. ~MayFail(s)
  BY DEF MayFail, Uncancelled
<1>1. CASE Receive(s)
  <2>1. /\ log' = log /\ reply' = reply /\ status' = status /\ state' = state
        /\ call' = call /\ target' = target
    BY <1>1 DEF Receive, callVars
  <2>2. CommandsAnswered' /\ StatesExact'
    BY <2>1, StatesKept
  <2>3. \A q \in Requests, t \in Sessions : WaitsAt(q, t)' <=> WaitsAt(q, t)
    BY <2>1 DEF WaitsAt, Sent
  <2>4. \A q \in Requests : ReplySound(q)'
    BY <2>1 DEF RequestsSound, ReplySound, Sent
  <2>5. ASSUME NEW t \in Sessions, t # s
        PROVE  InboxSound(t)'
    <3>1. PICK box \in Seq(Requests) : box = inbox[t] /\ box = inbox'[t]
      BY <1>1, <2>5 DEF Receive, IInv, SessionTypes
    <3>2. PICK cur : cur = current[t] /\ cur = current'[t]
      BY <1>1, <2>5 DEF Receive, IInv, SessionTypes
    <3>3. /\ \A k \in 1..Len(box) : box[k] \in Requests /\ WaitsAt(box[k], t)
          /\ \A k, m \in 1..Len(box) : box[k] = box[m] => k = m
          /\ cur \in Requests => WaitsAt(cur, t) /\ \A k \in 1..Len(box) : box[k] # cur
      <4>1. InboxSound(t)
        BY DEF RequestsSound
      <4>2. /\ \A k \in 1..Len(box) : WaitsAt(box[k], t)
            /\ \A k, m \in 1..Len(box) : box[k] = box[m] => k = m
        BY <3>1, <4>1 DEF InboxSound
      <4>3. cur \in Requests => WaitsAt(cur, t) /\ \A k \in 1..Len(box) : box[k] # cur
        BY <3>1, <3>2, <4>1 DEF InboxSound
      <4>4. \A k \in 1..Len(box) : box[k] \in Requests
        OBVIOUS
      <4> QED
        BY <4>2, <4>3, <4>4
    <3>4. /\ \A k \in 1..Len(box) : WaitsAt(box[k], t)'
          /\ cur \in Requests => WaitsAt(cur, t)'
      BY <2>3, <3>3
    <3> QED
      BY <3>1, <3>2, <3>3, <3>4 DEF InboxSound
  <2>6. InboxSound(s)'
    <3>1. PICK box \in Seq(Requests) : box = inbox[s] /\ box # <<>>
      BY <1>1 DEF Receive, IInv, SessionTypes
    <3>2. Tail(box) \in Seq(Requests) /\ Head(box) \in Requests /\ Len(box) \in Nat \ {0}
      BY <3>1
    <3>3. PICK rest \in Seq(Requests), first \in Requests : rest = Tail(box) /\ first = Head(box)
      BY <3>2
    <3>4. /\ Len(rest) = Len(box) - 1 /\ first = box[1]
          /\ \A k \in 1..Len(rest) : rest[k] = box[k + 1]
      BY <3>1, <3>2, <3>3
    <3>5. /\ \A k \in 1..Len(box) : box[k] \in Requests /\ WaitsAt(box[k], s)
          /\ \A k, m \in 1..Len(box) : box[k] = box[m] => k = m
      BY <3>1 DEF RequestsSound, InboxSound
    <3>6. \A k \in 1..Len(rest) : k + 1 \in 1..Len(box) /\ k + 1 # 1
      BY <3>2, <3>4
    <3>7. /\ \A k \in 1..Len(rest) : WaitsAt(rest[k], s)'
          /\ WaitsAt(first, s)'
      BY <2>3, <3>2, <3>4, <3>5, <3>6
    <3>8. \A k, m \in 1..Len(rest) : rest[k] = rest[m] => k = m
      BY <3>2, <3>4, <3>5, <3>6
    <3>9. \A k \in 1..Len(rest) : rest[k] # first
      BY <3>2, <3>4, <3>5, <3>6
    <3>10. inbox'[s] = rest /\ current'[s] = first
      BY <1>1, <3>1, <3>3 DEF Receive, IInv, SessionTypes
    <3> QED
      BY <3>7, <3>8, <3>9, <3>10 DEF InboxSound
  <2>7. target' = [r \in Requests |-> target'[r]]
    BY <2>1 DEF RequestsSound
  <2>8. RequestsSound'
    BY <2>4, <2>5, <2>6, <2>7 DEF RequestsSound
  <2> QED
    BY <2>2, <2>8
<1>2. CASE \/ DeadlineFires(s) \/ Exit(s)
           \/ LookupByCommandID(s) /\ pc'[s] = "stamp"
           \/ StampEvents(s) /\ pc'[s] = "append"
  <2>1. /\ log' = log /\ reply' = reply /\ call' = call /\ target' = target /\ inbox' = inbox
        /\ \A t \in Sessions : current'[t] = current[t] \/ current'[t] = Server
    BY <1>2 DEF DeadlineFires, Exit, LookupByCommandID, StampEvents, Return, callVars, IInv,
                SessionTypes
  <2>2. \A t \in Sessions : status'[t] = "running" =>
           (status[t] = "running" /\ state'[t] = state[t])
    BY <1>2 DEF DeadlineFires, Exit, LookupByCommandID, StampEvents, Return, IInv,
                SessionTypes, Alone
  <2>3. CommandsAnswered' /\ StatesExact'
    BY <2>1, <2>2, StatesKept
  <2>4. \A q \in Requests, t \in Sessions : WaitsAt(q, t)' <=> WaitsAt(q, t)
    BY <2>1 DEF WaitsAt, Sent
  <2>5. \A q \in Requests : ReplySound(q)'
    BY <2>1 DEF RequestsSound, ReplySound, Sent
  <2>6. ASSUME NEW t \in Sessions
        PROVE  InboxSound(t)'
    <3>1. PICK box \in Seq(Requests) : box = inbox[t] /\ box = inbox'[t]
      BY <2>1 DEF IInv, SessionTypes
    <3>2. PICK cur : cur = current'[t] /\ (cur = current[t] \/ cur = Server)
      BY <2>1
    <3>3. /\ \A k \in 1..Len(box) : box[k] \in Requests /\ WaitsAt(box[k], t)
          /\ \A k, m \in 1..Len(box) : box[k] = box[m] => k = m
          /\ cur \in Requests => WaitsAt(cur, t) /\ \A k \in 1..Len(box) : box[k] # cur
      <4>1. InboxSound(t)
        BY DEF RequestsSound
      <4>2. /\ \A k \in 1..Len(box) : WaitsAt(box[k], t)
            /\ \A k, m \in 1..Len(box) : box[k] = box[m] => k = m
        BY <3>1, <4>1 DEF InboxSound
      <4>3. cur \in Requests => WaitsAt(cur, t) /\ \A k \in 1..Len(box) : box[k] # cur
        BY <3>1, <3>2, SessionAssumption, <4>1 DEF InboxSound
      <4>4. \A k \in 1..Len(box) : box[k] \in Requests
        OBVIOUS
      <4> QED
        BY <4>2, <4>3, <4>4
    <3>4. /\ \A k \in 1..Len(box) : WaitsAt(box[k], t)'
          /\ cur \in Requests => WaitsAt(cur, t)'
      BY <2>4, <3>3
    <3> QED
      BY <3>1, <3>2, <3>3, <3>4 DEF InboxSound
  <2>7. target' = [r \in Requests |-> target'[r]]
    BY <2>1 DEF RequestsSound
  <2>8. RequestsSound'
    BY <2>5, <2>6, <2>7 DEF RequestsSound
  <2> QED
    BY <2>3, <2>8
<1>3. CASE /\ LookupByCommandID(s) /\ Processed(CurrentCommand(s))
           /\ state' = [state EXCEPT ![s] = @ (+) SetToBag({FirstEvent(CurrentCommand(s))})]
           /\ Return(s, "ok")
  <2>1. /\ status[s] = "running" /\ status' = status /\ log' = log /\ pc[s] = "lookup"
        /\ UNCHANGED <<inbox, call, target>>
    BY <1>3 DEF LookupByCommandID
  <2>2. /\ RequestsSound'
        /\ \/ current[s] = Server /\ reply' = reply
           \/ /\ current[s] \in Requests /\ reply[current[s]] = "empty"
              /\ reply' = [reply EXCEPT ![current[s]] = "ok"]
    BY <1>3, <2>1, QuietReturn
  <2>3. current[s] # Server
    BY <2>1, SessionAssumption DEF LookupsForRequests
  <2>4. PICK r \in Requests, c \in Commands : r = current[s] /\ c = r[1] /\ c = CurrentCommand(s)
    BY <2>2, <2>3 DEF CurrentCommand, Requests
  <2>5. CommandsAnswered' /\ StatesExact'
    BY <1>3, <2>1, <2>2, <2>3, <2>4, DuplicateAnswered
  <2> QED
    BY <2>2, <2>5
<1>4. CASE AppendEvents(s)
  <2>1. /\ status[s] = "running" /\ status' = status /\ pc[s] = "append"
        /\ UNCHANGED <<inbox, call, target>>
    BY <1>4 DEF AppendEvents
  <2>2. PICK outcome \in {"ok", "failed"} : Return(s, outcome)
    BY <1>4 DEF AppendEvents, AppendFailed
  <2>3. /\ RequestsSound'
        /\ \/ current[s] = Server /\ reply' = reply
           \/ /\ current[s] \in Requests /\ reply[current[s]] = "empty"
              /\ reply' = [reply EXCEPT ![current[s]] = outcome]
    BY <2>1, <2>2, QuietReturn
  <2>7. PICK c : c = CurrentCommand(s)
    OBVIOUS
  <2>4. /\ \A d : Answered(d) \subseteq Answered(d)'
        /\ \A d : Cardinality(Answered(d)') >= Cardinality(Answered(d))
        /\ c \in Commands => Answered(c)' # {}
    <3>1. CASE current[s] = Server /\ reply' = reply
      <4>1. \A d : Answered(d)' = Answered(d)
        BY <3>1 DEF Answered
      <4>2. \A d : Cardinality(Answered(d)) \in Nat
        BY AnsweredFinite
      <4> QED
        BY <2>7, <3>1, <4>1, <4>2, SessionAssumption DEF CurrentCommand
    <3>2. ASSUME NEW r \in Requests, r = current[s], reply[r] = "empty",
                 reply' = [reply EXCEPT ![r] = outcome]
          PROVE  /\ \A d : Answered(d) \subseteq Answered(d)'
                 /\ \A d : Cardinality(Answered(d)') >= Cardinality(Answered(d))
                 /\ r \in Answered(r[1])'
      BY <3>2, AnswerCounts DEF IInv, SessionTypes
    <3>3. ASSUME NEW r \in Requests, r = current[s]
          PROVE  r[1] = c
      BY <2>7, <3>3, SessionAssumption DEF CurrentCommand
    <3> QED
      BY <2>3, <3>1, <3>2, <3>3
  <2>5. CASE log' = log /\ state' = state
    BY <2>1, <2>3, <2>4, <2>5, AnswerOnly
  <2>6. CASE /\ ~Conflict(batch[s])
             /\ Insert(batch[s], CurrentCommand(s), current[s])
             /\ state' = [state EXCEPT ![s] = @ (+) SetToBag(batch[s])]
    <3>1. PICK w, seqs : w = current[s] /\ seqs = batch[s]
      OBVIOUS
    <3>2. PICK b \in Numbers, k \in Nat \ {0} : seqs = (b + 1)..(b + k)
      BY <2>1, <3>1 DEF IInv, WritersSound, BatchFollows
    <3>4. CommandsAnswered' /\ StatesExact'
      BY <2>1, <2>4, <2>6, <2>7, <3>1, <3>2, BatchApplied
    <3> QED
      BY <2>3, <3>4
  <2> QED
    BY <1>0, <1>4, <2>5, <2>6 DEF AppendEvents, AppendFailed
<1> QED
  BY <1>0, <1>1, <1>2, <1>3, <1>4
     DEF Run, SessionStep, LookupByCommandID, StampEvents, IInv, SessionTypes

\* run looks up what it has received.
LEMMA LookupsNext ==
  ASSUME IInv, LookupsForRequests, LobbyOps = {}, [Next]_vars
  PROVE  LookupsForRequests'
<1>1. ASSUME NEW s \in Sessions, Receive(s)
      PROVE  LookupsForRequests'
  <2>1. PICK box \in Seq(Requests) : box = inbox[s] /\ box # <<>>
    BY <1>1 DEF Receive, IInv, SessionTypes
  <2>2. PICK first \in Requests : first = Head(box)
    <3>1. Head(box) \in Requests
      BY <2>1
    <3> QED
      BY <3>1
  <2>3. current' = [current EXCEPT ![s] = first] /\ pc' = [pc EXCEPT ![s] = "lookup"]
    BY <1>1, <2>1, <2>2 DEF Receive
  <2> QED
    BY <2>3 DEF LookupsForRequests, IInv, SessionTypes
<1>2. ASSUME NEW s \in Sessions, DeadlineFires(s) \/ Exit(s) \/ SessionStep(s)
      PROVE  LookupsForRequests'
  BY <1>2 DEF DeadlineFires, Exit, SessionStep, LookupByCommandID, StampEvents, AppendEvents,
              AppendFailed, Return, LookupsForRequests, IInv, SessionTypes
<1>3. CASE \E r \in Requests : Submit(r)
  BY <1>3 DEF Submit, Route, Enqueue, AwaitReply, GiveUp, sessionVars, LookupsForRequests
<1>4. CASE \E s \in Sessions : Reap(s)
  BY <1>4 DEF Reap, sessionVars, LookupsForRequests
<1>5. CASE Restart \/ UNCHANGED vars
  BY <1>5 DEF Restart, vars, sessionVars, LookupsForRequests
<1> QED
  BY <1>1, <1>2, <1>3, <1>4, <1>5 DEF Next, Run

\* Reaping, a restart, and steps of nobody.
LEMMA QuietOthers ==
  ASSUME QInv, Restart \/ (\E s \in Sessions : Reap(s)) \/ UNCHANGED vars
  PROVE  RequestsSound' /\ CommandsAnswered' /\ StatesExact'
<1> USE DEF QInv
<1>1. log' = log /\ reply' = reply /\ target' = target
  BY DEF Restart, Reap, vars, callVars
<1>2. \A t \in Sessions : status'[t] = "running" => status[t] = "running" /\ state'[t] = state[t]
  BY DEF Restart, Reap, vars, sessionVars
<1>3. CommandsAnswered' /\ StatesExact'
  BY <1>1, <1>2, StatesKept
<1>4. target' = [r \in Requests |-> target'[r]]
  BY <1>1 DEF RequestsSound
<1>5. \A q \in Requests : Sent(q) => Sent(q)'
  BY DEF Restart, Reap, vars, callVars, Sent
<1>6. \A q \in Requests : ReplySound(q)'
  BY <1>1, <1>5 DEF RequestsSound, ReplySound
<1>7. CASE Restart
  <2>1. ASSUME NEW t \in Sessions
        PROVE  InboxSound(t)'
    <3>1. inbox'[t] = <<>> /\ current'[t] = None
      BY <1>7 DEF Restart
    <3>2. Len(<<>>) = 0 /\ None \notin Requests
      BY SessionAssumption
    <3> QED
      BY <3>1, <3>2 DEF InboxSound
  <2> QED
    BY <1>3, <1>4, <1>6, <2>1 DEF RequestsSound
<1>8. CASE (\E s \in Sessions : Reap(s)) \/ UNCHANGED vars
  <2>1. inbox' = inbox /\ current' = current /\ call' = call
    BY <1>8 DEF Reap, vars, sessionVars, callVars
  <2>2. ASSUME NEW t \in Sessions
        PROVE  InboxSound(t)'
    BY <1>1, <2>1 DEF RequestsSound, InboxSound, WaitsAt, Sent
  <2> QED
    BY <1>3, <1>4, <1>6, <2>2 DEF RequestsSound
<1> QED
  BY <1>7, <1>8

\* With no join or leave and a store that works, the in-memory state of the session a
\* game is routed to is the log, event for event, whatever times out, exits, is reaped
\* and reloaded; only the first event of a command that was sent again is in it more
\* than once, and no more often than the command was sent.
THEOREM QuietStateIsLog ==
  ASSUME LobbyOps = {}, ~Unreliable
  PROVE  Spec => []StateIsLog
<1>1. Init => QInv
  <2> SUFFICES ASSUME Init PROVE QInv
    OBVIOUS
  <2>1. IInv
    BY IInvInit
  <2>2. Alone /\ Uncancelled /\ LookupsForRequests
    BY DEF Init, Alone, Uncancelled, LookupsForRequests
  <2>3. CommandsAnswered /\ StatesExact
    BY SessionAssumption DEF Init, CommandsAnswered, Processed, StatesExact, StateExact
  <2>4. ASSUME NEW t \in Sessions
        PROVE  InboxSound(t)
    <3>1. inbox[t] = <<>> /\ current[t] = None
      BY DEF Init
    <3>2. Len(<<>>) = 0 /\ None \notin Requests
      BY SessionAssumption
    <3> QED
      BY <3>1, <3>2 DEF InboxSound
  <2>5. RequestsSound
    BY <2>4 DEF Init, RequestsSound, ReplySound
  <2> QED
    BY <2>1, <2>2, <2>3, <2>5 DEF QInv
<1>2. QInv /\ [Next]_vars => QInv'
  <2> SUFFICES ASSUME QInv, [Next]_vars PROVE QInv'
    OBVIOUS
  <2>1. IInv' /\ Alone' /\ Uncancelled' /\ LookupsForRequests'
    BY IInvNext, AloneNext, NothingCancelled, LookupsNext DEF QInv
  <2>2. RequestsSound' /\ CommandsAnswered' /\ StatesExact'
    BY QuietSubmit, QuietRun, QuietOthers DEF Next
  <2> QED
    BY <2>1, <2>2 DEF QInv
<1>3. QInv => StateIsLog
  <2> SUFFICES ASSUME QInv, routed # None, status[routed] = "running"
               PROVE  /\ BagToSet(state[routed]) = Numbers
                      /\ \A n \in Numbers : state[routed][n] > 1 =>
                           \E c \in Commands :
                             /\ Processed(c) /\ FirstEvent(c) = n
                             /\ state[routed][n]
                                  <= Cardinality({r \in Requests : r[1] = c /\ call[r] # "unsent"})
    BY DEF StateIsLog
  <2>1. routed \in Sessions
    BY DEF QInv, Alone
  <2>2. StateExact(routed)
    BY <2>1 DEF QInv, StatesExact
  <2>3. BagToSet(state[routed]) = Numbers
    BY <2>2 DEF StateExact, BagToSet
  <2>4. ASSUME NEW n \in Numbers, state[routed][n] > 1
        PROVE  \E c \in Commands :
                 /\ Processed(c) /\ FirstEvent(c) = n
                 /\ state[routed][n]
                      <= Cardinality({r \in Requests : r[1] = c /\ call[r] # "unsent"})
    <3>1. PICK c \in Commands : Processed(c) /\ FirstEvent(c) = n
      BY <2>2, <2>4 DEF StateExact
    <3>2. state[routed][n] \in Nat /\ state[routed][n] <= Cardinality(Answered(c))
      BY <2>2, <3>1 DEF StateExact
    <3> DEFINE sent == {r \in Requests : r[1] = c /\ call[r] # "unsent"}
    <3>3. Answered(c) \subseteq sent
      BY DEF QInv, RequestsSound, ReplySound, Sent, Answered
    <3>4. IsFiniteSet(sent)
      <4>1. IsFiniteSet(1..MaxAttempts)
        BY FS_Interval, SessionAssumption
      <4>2. IsFiniteSet(Requests)
        BY <4>1, FS_Product, SessionAssumption DEF Requests
      <4> QED
        BY <4>2, FS_Subset
    <3> HIDE DEF sent
    <3>5. Cardinality(Answered(c)) <= Cardinality(sent)
      BY <3>3, <3>4, FS_Subset
    <3>6. Cardinality(Answered(c)) \in Nat /\ Cardinality(sent) \in Nat
      BY <3>4, AnsweredFinite, FS_CardinalityType
    <3>7. state[routed][n] <= Cardinality(sent)
      BY <3>2, <3>5, <3>6
    <3> QED
      BY <3>1, <3>7 DEF sent
  <2> QED
    BY <2>3, <2>4
<1> QED
  BY <1>1, <1>2, <1>3, PTL DEF Spec

=============================================================================
