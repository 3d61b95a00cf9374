------------------------- MODULE StepDeposits_proofs -------------------------
(***************************************************************************)
(* What the statements of a step report preserve, whatever the service     *)
(* around them does: used by the proofs about UserService and about the    *)
(* wallet.                                                                 *)
(***************************************************************************)
EXTENDS StepDeposits, Counting_proofs

Stages == {"idle", "begin", "find", "replay", "lock", "cap", "sum", "upsert", "audit",
           "apply", "commit", "done", "failed"}
Inputs == [user : Users, report : Reports, steps : Nat, day : Days]

\* The call has computed its delta and its transaction has not ended.
Computed(c) == stage[c] \in {"cap", "sum", "upsert", "audit", "apply", "commit"}
Ended(c)    == stage[c] \in {"done", "failed"}

\* The calls that found their date without a row and were committed: ReportSteps rolls
\* back, and the history forgets, the others.
EndedOpeners == {c \in openers : Ended(c)}

DepositTypes ==
  /\ deposited \in [Users -> Nat]
  /\ cap \in [Users -> Nat]
  /\ opened \subseteq Users \X Days
  /\ daily \in [Users \X Days -> Nat]
  /\ dayLock \in [Users \X Days -> ReportCalls \cup {None}]
  /\ stage \in [ReportCalls -> Stages]
  /\ DOMAIN req = ReportCalls
  /\ \A c \in ReportCalls :
       stage[c] \notin {"idle", "failed"} \/ c \in openers => req[c] \in Inputs
  /\ delta \in [ReportCalls -> Nat]
  /\ limit \in [ReportCalls -> Nat]
  /\ openers \subseteq ReportCalls
  /\ \A c \in openers : Computed(c) \/ Ended(c)

\* The audit rows, and a report that is replayed has one.
AuditTypes ==
  /\ IsFiniteSet(audit)
  /\ \A row \in audit : row.credited \in Nat
  /\ \A c \in ReportCalls : stage[c] = "replay" => Recorded(c) # {}

\* A call that found the row of its date keeps it locked, and every call holds it from
\* the upsert on.
DayLocks ==
  \A c \in ReportCalls : Computed(c) =>
    /\ c \notin openers => Key(c) \in opened /\ dayLock[Key(c)] = c
    /\ stage[c] \in {"audit", "apply", "commit"} => dayLock[Key(c)] = c

\* The high-water mark that a call has computed its delta from.
Mark(c) == IF c \in openers THEN 0 ELSE daily[Key(c)]
Excess(c) == IF req[c].steps > Mark(c) THEN req[c].steps - Mark(c) ELSE 0

\* The delta is what exceeds the mark, less what a cap has cut off.
DeltasFit ==
  \A c \in ReportCalls : Computed(c) =>
    /\ delta[c] <= Excess(c)
    /\ limit[c] = 0 => delta[c] = Excess(c)

\* A cap is read once.
LimitsRead ==
  \A c \in ReportCalls :
    /\ limit[c] # 0 => (Computed(c) /\ stage[c] # "cap") \/ Ended(c)
    /\ stage[c] = "sum" => limit[c] # 0

\* What the cap leaves of the date: nobody else books chips on a locked date.
CapsFit ==
  \A c \in ReportCalls \ openers :
    Computed(c) /\ stage[c] \notin {"cap", "sum"} /\ limit[c] # 0 =>
      delta[c] = 0 \/ delta[c] + Credited(req[c].user, req[c].day) <= limit[c]

\* A date has a row when a call that found none was committed.
DatesOpened ==
  \A k \in Users \X Days :
    IF k \in opened THEN \E c \in EndedOpeners : Key(c) = k ELSE daily[k] = 0

OpenedOnce(u) ==
  \A c, e \in EndedOpeners : Key(c) = Key(e) /\ req[c].user = u => c = e

Marks(u) == Total([d \in Days |-> daily[<<u, d>>]])

\* The chips of a user whose dates were opened once are the user's high-water marks.
\* FirstReportsApart may fail and hold again, when a second opener fails: OpenedOnce,
\* once it fails, fails for good.
MarksCredited ==
  \A u \in Users : OpenedOnce(u) =>
    /\ deposited[u] <= Marks(u)
    /\ (\A c \in ReportCalls : limit[c] = 0) => deposited[u] = Marks(u)

DepositInv ==
  /\ DepositTypes /\ AuditTypes /\ DayLocks /\ DeltasFit /\ LimitsRead /\ CapsFit
  /\ DatesOpened

\* What every step preserves; MarksCredited apart, since users of the wallet may have
\* chips to begin with.
DepositsKept == DepositInv' /\ (MarksCredited => MarksCredited')

-----------------------------------------------------------------------------
(***************************************************************************)
(* Frames.                                                                 *)
(***************************************************************************)

\* A call past its first statement is booked on a date of its user.
LEMMA KeyType ==
  ASSUME DepositTypes, NEW c \in ReportCalls,
         stage[c] \notin {"idle", "failed"} \/ c \in openers
  PROVE  /\ Key(c) \in Users \X Days
         /\ req[c] \in Inputs
         /\ req[c].user \in Users /\ req[c].day \in Days /\ req[c].steps \in Nat
<1>1. req[c] \in Inputs
  BY DEF DepositTypes
<1> QED
  BY <1>1 DEF Inputs, Key

\* The stages of a call exclude each other.
LEMMA StageFacts ==
  ASSUME DepositTypes, NEW c \in ReportCalls
  PROVE  /\ Computed(c) => ~Ended(c) /\ stage[c] \notin {"idle", "failed"}
         /\ c \in EndedOpeners => c \in openers /\ ~Computed(c)
  BY DEF Computed, Ended, EndedOpeners

\* A step that commits no call keeps what the committed ones add up to.
LEMMA MarksKept ==
  ASSUME DepositInv, UNCHANGED <<deposited, daily, opened>>,
         EndedOpeners' = EndedOpeners, \A c \in EndedOpeners : req'[c] = req[c],
         \A c \in ReportCalls : limit'[c] = 0 => limit[c] = 0
  PROVE  DatesOpened' /\ (MarksCredited => MarksCredited')
<1>1. \A c \in EndedOpeners : Key(c)' = Key(c)
  BY DEF Key
<1>2. DatesOpened'
  BY <1>1 DEF DatesOpened, DepositInv
<1>3. \A u \in Users : OpenedOnce(u)' => OpenedOnce(u)
  BY <1>1 DEF OpenedOnce
<1>4. \A u \in Users : Marks(u)' = Marks(u)
  BY DEF Marks
<1>5. MarksCredited => MarksCredited'
  BY <1>3, <1>4 DEF MarksCredited
<1> QED
  BY <1>2, <1>5

\* Nothing of it changes.
LEMMA DepositsUnchanged ==
  ASSUME DepositInv, UNCHANGED <<deposited, depositVars>>
  PROVE  DepositsKept
<1>0. UNCHANGED <<deposited, cap, opened, daily, dayLock, audit, stage, req, delta, limit,
                  openers>>
  BY DEF depositVars, dayVars, auditVars, callVars
<1>1. \A c : /\ Computed(c)' = Computed(c) /\ Ended(c)' = Ended(c) /\ Key(c)' = Key(c)
             /\ Recorded(c)' = Recorded(c) /\ Excess(c)' = Excess(c)
  BY <1>0 DEF Computed, Ended, Key, Recorded, Excess, Mark
<1>2. EndedOpeners' = EndedOpeners
  BY <1>0 DEF EndedOpeners, Ended
<1>3. \A u, d : Credited(u, d)' = Credited(u, d)
  BY <1>0 DEF Credited, Booked
<1>4. DatesOpened' /\ (MarksCredited => MarksCredited')
  BY <1>0, <1>2, MarksKept
<1>5. DepositTypes' /\ AuditTypes'
  BY <1>0, <1>1 DEF DepositInv, DepositTypes, AuditTypes
<1>6. DayLocks' /\ DeltasFit' /\ LimitsRead'
  BY <1>0, <1>1 DEF DepositInv, DayLocks, DeltasFit, LimitsRead
<1>7. CapsFit'
  BY <1>0, <1>1, <1>3 DEF DepositInv, CapsFit
<1> QED
  BY <1>4, <1>5, <1>6, <1>7 DEF DepositInv, DepositsKept

-----------------------------------------------------------------------------
(***************************************************************************)
(* One lemma per statement of the transaction.                             *)
(***************************************************************************)

\* The request is checked and its date derived.
LEMMA ReportKeeps ==
  ASSUME DepositInv, NEW c \in ReportCalls, NEW u \in Users, Report(c, u)
  PROVE  DepositsKept
<1>0. UNCHANGED <<deposited, cap, opened, daily, dayLock, audit, delta, limit, openers>>
  BY DEF Report, accountVars, dayVars, auditVars
<1>1. PICK r \in Reports, n \in StepCounts, day \in Days :
        req' = [req EXCEPT ![c] = [user |-> u, report |-> r, steps |-> n, day |-> day]]
  BY DEF Report
<1>2. stage[c] = "idle" /\ stage' = [stage EXCEPT ![c] = "begin"] /\ c \notin openers
  BY DEF Report, Goto, DepositInv, DepositTypes, Computed, Ended
<1>3. \A e \in ReportCalls : e # c =>
        /\ stage'[e] = stage[e] /\ req'[e] = req[e] /\ Computed(e)' = Computed(e)
        /\ Ended(e)' = Ended(e) /\ Key(e)' = Key(e)
        /\ Recorded(e)' = Recorded(e) /\ Excess(e)' = Excess(e)
  BY <1>0, <1>1, <1>2 DEF DepositInv, DepositTypes, Computed, Ended, Key, Recorded, Excess, Mark
<1>4. stage'[c] = "begin" /\ ~Computed(c)' /\ ~Ended(c)' /\ ~Ended(c)
  BY <1>2 DEF DepositInv, DepositTypes, Computed, Ended
<1>5. DepositTypes'
  <2>1. stage' \in [ReportCalls -> Stages]
    BY <1>2 DEF DepositInv, DepositTypes, Stages
  <2>2. req'[c] \in Inputs
    BY <1>1, DepositsAssumption DEF DepositInv, DepositTypes, Inputs
  <2> QED
    BY <1>0, <1>1, <1>2, <1>3, <2>1, <2>2 DEF DepositInv, DepositTypes
<1>6. AuditTypes'
  BY <1>0, <1>3, <1>4 DEF DepositInv, AuditTypes
<1>7. DayLocks' /\ DeltasFit' /\ LimitsRead'
  BY <1>0, <1>2, <1>3, <1>4 DEF DepositInv, DayLocks, DeltasFit, LimitsRead, Computed, Ended
<1>8. CapsFit'
  <2>1. \A v, d : Credited(v, d)' = Credited(v, d)
    BY <1>0 DEF Credited, Booked
  <2> QED
    BY <1>0, <1>3, <1>4, <2>1 DEF DepositInv, CapsFit
<1>9. DatesOpened' /\ (MarksCredited => MarksCredited')
  <2>1. EndedOpeners' = EndedOpeners
    BY <1>0, <1>2, <1>3 DEF EndedOpeners, DepositInv, DepositTypes
  <2>2. \A e \in EndedOpeners : req'[e] = req[e]
    BY <1>2, <1>3 DEF EndedOpeners, DepositInv, DepositTypes
  <2> QED
    BY <1>0, <2>1, <2>2, MarksKept
<1> QED
  BY <1>5, <1>6, <1>7, <1>8, <1>9 DEF DepositInv, DepositsKept

\* A statement that only moves on: before the delta is computed, or after the upsert.
LEMMA MoveKeeps ==
  ASSUME DepositInv, NEW c \in ReportCalls, NEW s \in Stages,
         \/ stage[c] \in {"begin", "find"} /\ s \in {"find", "replay", "lock"}
         \/ stage[c] \in {"audit", "apply"} /\ s \in {"apply", "commit"},
         s = "replay" => Recorded(c) # {},
         stage' = [stage EXCEPT ![c] = s],
         UNCHANGED <<deposited, cap, opened, daily, dayLock, audit, req, delta, limit,
                     openers>>
  PROVE  DepositsKept
<1>1. \A e \in ReportCalls :
        /\ Computed(e)' = Computed(e) /\ Ended(e)' = Ended(e) /\ Key(e)' = Key(e)
        /\ Recorded(e)' = Recorded(e) /\ Excess(e)' = Excess(e)
  BY DEF DepositInv, DepositTypes, Computed, Ended, Key, Recorded, Excess, Mark
<1>2. DepositTypes'
  BY <1>1 DEF DepositInv, DepositTypes
<1>3. AuditTypes'
  BY <1>1 DEF DepositInv, DepositTypes, AuditTypes
<1>4. DayLocks' /\ DeltasFit' /\ LimitsRead'
  BY <1>1 DEF DepositInv, DepositTypes, DayLocks, DeltasFit, LimitsRead, Computed
<1>5. CapsFit'
  <2>1. \A v, d : Credited(v, d)' = Credited(v, d)
    BY DEF Credited, Booked
  <2> QED
    BY <1>1, <2>1 DEF DepositInv, DepositTypes, CapsFit
<1>6. DatesOpened' /\ (MarksCredited => MarksCredited')
  <2>1. EndedOpeners' = EndedOpeners
    BY <1>1 DEF EndedOpeners, DepositInv, DepositTypes
  <2> QED
    BY <2>1, MarksKept
<1> QED
  BY <1>2, <1>3, <1>4, <1>5, <1>6 DEF DepositInv, DepositsKept

\* FindDepositReportByReportID, the audit row and the snapshot.
LEMMA MovingStatements ==
  ASSUME DepositInv, NEW c \in ReportCalls,
         Begin(c) \/ FindReport(c) \/ InsertAudit(c) \/ ApplyDeposit(c)
  PROVE  DepositsKept
<1>0. UNCHANGED <<deposited, cap, opened, daily, dayLock, audit, req, delta, limit, openers>>
  BY DEF Begin, FindReport, InsertAudit, ApplyDeposit, accountVars, dayVars, auditVars, callVars
<1>1. CASE Begin(c)
  BY <1>0, <1>1, MoveKeeps DEF Begin, Goto, Stages
<1>2. CASE FindReport(c)
  BY <1>0, <1>2, MoveKeeps DEF FindReport, Goto, Stages
<1>3. CASE InsertAudit(c)
  BY <1>0, <1>3, MoveKeeps DEF InsertAudit, Goto, Stages
<1>4. CASE ApplyDeposit(c)
  BY <1>0, <1>4, MoveKeeps DEF ApplyDeposit, Goto, Stages
<1> QED
  BY <1>1, <1>2, <1>3, <1>4

\* A repeated report is answered from its audit row.
LEMMA ReplayKeeps ==
  ASSUME DepositInv, NEW c \in ReportCalls, Replay(c)
  PROVE  DepositsKept
<1>0. /\ UNCHANGED <<deposited, cap, opened, daily, dayLock, audit, req, limit, openers>>
      /\ stage[c] = "replay" /\ stage' = [stage EXCEPT ![c] = "done"]
  BY DEF Replay, dayVars, auditVars, Goto
<1>1. delta' \in [ReportCalls -> Nat] /\ \A e \in ReportCalls : e # c => delta'[e] = delta[e]
  <2>1. Recorded(c) # {}
    BY <1>0 DEF DepositInv, AuditTypes
  <2>2. (CHOOSE row \in Recorded(c) : TRUE) \in Recorded(c)
    BY <2>1
  <2>3. (CHOOSE row \in Recorded(c) : TRUE).credited \in Nat
    BY <2>2 DEF Recorded, DepositInv, AuditTypes
  <2> QED
    BY <2>3 DEF Replay, DepositInv, DepositTypes
<1>2. c \notin openers
  BY <1>0 DEF DepositInv, DepositTypes, Computed, Ended
<1>3. \A e \in ReportCalls :
        /\ Computed(e)' = Computed(e) /\ Key(e)' = Key(e) /\ Recorded(e)' = Recorded(e)
        /\ Excess(e)' = Excess(e) /\ (e # c => Ended(e)' = Ended(e) /\ stage'[e] = stage[e])
  BY <1>0 DEF DepositInv, DepositTypes, Computed, Ended, Key, Recorded, Excess, Mark
<1>4. ~Computed(c) /\ ~Computed(c)' /\ stage'[c] = "done"
  BY <1>0 DEF DepositInv, DepositTypes, Computed
<1>5. DepositTypes'
  <2>1. stage' \in [ReportCalls -> Stages]
    BY <1>0 DEF DepositInv, DepositTypes, Stages
  <2>2. \A e \in openers : Computed(e)' \/ Ended(e)'
    BY <1>2, <1>3 DEF DepositInv, DepositTypes
  <2> QED
    BY <1>0, <1>1, <1>3, <2>1, <2>2 DEF DepositInv, DepositTypes
<1>6. AuditTypes'
  BY <1>0, <1>3, <1>4 DEF DepositInv, AuditTypes
<1>7. DayLocks' /\ DeltasFit'
  BY <1>0, <1>1, <1>3, <1>4 DEF DepositInv, DayLocks, DeltasFit
<1>10. LimitsRead'
  BY <1>0, <1>3, <1>4 DEF DepositInv, LimitsRead, Ended, Computed
<1>8. CapsFit'
  <2>1. \A v, d : Credited(v, d)' = Credited(v, d)
    BY <1>0 DEF Credited, Booked
  <2> QED
    BY <1>0, <1>1, <1>3, <1>4, <2>1 DEF DepositInv, CapsFit
<1>9. DatesOpened' /\ (MarksCredited => MarksCredited')
  <2>1. EndedOpeners' = EndedOpeners
    BY <1>0, <1>2, <1>3 DEF EndedOpeners, DepositInv, DepositTypes
  <2> QED
    BY <1>0, <2>1, MarksKept
<1> QED
  BY <1>5, <1>6, <1>7, <1>8, <1>9, <1>10 DEF DepositInv, DepositsKept

\* GetDailyStepsForUpdate and the delta: the row is locked, or there is none and the
\* mark is zero.
LEMMA ComputeDeltaKeeps ==
  ASSUME DepositInv, NEW c \in ReportCalls, ComputeDelta(c)
  PROVE  DepositsKept
<1> DEFINE n == req[c].steps - daily[Key(c)]
<1>0. /\ UNCHANGED <<deposited, cap, opened, daily, audit, req, limit>>
      /\ stage[c] = "lock" /\ LockDaily(c)
      /\ stage' = [stage EXCEPT ![c] = IF n > 0 THEN "cap" ELSE "upsert"]
      /\ delta' = [delta EXCEPT ![c] = IF n > 0 THEN n ELSE 0]
      /\ openers' = IF Key(c) \in opened THEN openers ELSE openers \cup {c}
  BY DEF ComputeDelta, accountVars, auditVars, Goto
<1>1. /\ Key(c) \in Users \X Days /\ req[c] \in Inputs /\ req[c].steps \in Nat
      /\ daily[Key(c)] \in Nat
  BY <1>0, KeyType DEF DepositInv, DepositTypes
<1>2. /\ ~Computed(c) /\ ~Ended(c) /\ c \notin openers /\ limit[c] = 0
      /\ Computed(c)' /\ ~Ended(c)' /\ stage'[c] \in {"cap", "upsert"}
  BY <1>0, <1>1 DEF DepositInv, DepositTypes, LimitsRead, Computed, Ended
<1>3. \A e \in ReportCalls : e # c =>
        /\ stage'[e] = stage[e] /\ Computed(e)' = Computed(e) /\ Ended(e)' = Ended(e)
        /\ Excess(e)' = Excess(e) /\ (e \in openers' <=> e \in openers) /\ delta'[e] = delta[e]
  BY <1>0 DEF DepositInv, DepositTypes, Computed, Ended, Excess, Mark, Key
<1>4. \A e \in ReportCalls : Key(e)' = Key(e) /\ Recorded(e)' = Recorded(e)
  BY <1>0 DEF Key, Recorded
<1>5. /\ dayLock' \in [Users \X Days -> ReportCalls \cup {None}]
      /\ \A k \in Users \X Days : dayLock[k] # None => dayLock'[k] = dayLock[k]
      /\ Key(c) \in opened => dayLock'[Key(c)] = c
  BY <1>0, <1>1 DEF LockDaily, DepositInv, DepositTypes
<1>6. DepositTypes'
  <2>1. stage' \in [ReportCalls -> Stages] /\ delta' \in [ReportCalls -> Nat]
    BY <1>0, <1>1 DEF DepositInv, DepositTypes, Stages
  <2>2. openers' \subseteq ReportCalls /\ \A e \in openers' : Computed(e)' \/ Ended(e)'
    BY <1>0, <1>2, <1>3 DEF DepositInv, DepositTypes
  <2>3. \A e \in ReportCalls :
          stage'[e] \notin {"idle", "failed"} \/ e \in openers' => req'[e] \in Inputs
    BY <1>0, <1>1, <1>3 DEF DepositInv, DepositTypes
  <2> QED
    BY <1>0, <1>5, <2>1, <2>2, <2>3 DEF DepositInv, DepositTypes
<1>7. AuditTypes'
  BY <1>0, <1>2, <1>3, <1>4 DEF DepositInv, AuditTypes
<1>8. DayLocks'
  <2>1. SUFFICES ASSUME NEW e \in ReportCalls, Computed(e)'
                 PROVE  /\ e \notin openers' => Key(e) \in opened /\ dayLock'[Key(e)] = e
                        /\ stage'[e] \in {"audit", "apply", "commit"} => dayLock'[Key(e)] = e
    BY <1>0, <1>4 DEF DayLocks
  <2>2. CASE e = c
    BY <1>0, <1>2, <1>5, <2>2
  <2>3. CASE e # c
    <3>1. Computed(e) /\ Key(e) \in Users \X Days
      BY <1>3, <2>1, <2>3, KeyType DEF DepositInv, Computed
    <3>2. e # None
      BY DepositsAssumption
    <3> QED
      BY <1>3, <1>5, <2>3, <3>1, <3>2 DEF DepositInv, DayLocks
  <2> QED
    BY <2>2, <2>3
<1>9. DeltasFit'
  <2>1. Mark(c)' = daily[Key(c)]
    BY <1>0, <1>1, <1>2 DEF Mark, DepositInv, DatesOpened, Key
  <2>2. delta'[c] = Excess(c)'
    BY <1>0, <1>1, <2>1 DEF Excess, DepositInv, DepositTypes
  <2>3. delta'[c] \in Nat
    BY <1>6 DEF DepositTypes
  <2> QED
    BY <1>0, <1>3, <2>2, <2>3 DEF DepositInv, DeltasFit
<1>10. LimitsRead'
  BY <1>0, <1>2, <1>3 DEF DepositInv, LimitsRead
<1>11. CapsFit'
  <2>1. \A v, d : Credited(v, d)' = Credited(v, d)
    BY <1>0 DEF Credited, Booked
  <2> QED
    BY <1>0, <1>2, <1>3, <2>1 DEF DepositInv, CapsFit
<1>12. DatesOpened' /\ (MarksCredited => MarksCredited')
  <2>1. EndedOpeners' = EndedOpeners
    BY <1>0, <1>2, <1>3 DEF EndedOpeners, DepositInv, DepositTypes
  <2> QED
    BY <1>0, <2>1, MarksKept
<1> QED
  BY <1>6, <1>7, <1>8, <1>9, <1>10, <1>11, <1>12 DEF DepositInv, DepositsKept

\* The chips credited on a date are a number.
LEMMA CreditedType ==
  ASSUME AuditTypes, NEW u, NEW d
  PROVE  Credited(u, d) \in Nat
<1>1. IsFiniteSet(Booked(u, d))
  BY FS_Subset DEF AuditTypes, Booked
<1>2. [row \in Booked(u, d) |-> row.credited] \in [Booked(u, d) -> Int]
  BY DEF AuditTypes, Booked
<1> QED
  BY <1>1, <1>2, TotalType DEF Credited

\* The smaller of two numbers.
LEMMA MinOfTwo ==
  ASSUME NEW a \in Int, NEW b \in Int
  PROVE  Min({a, b}) = IF a <= b THEN a ELSE b
<1>1. \A x \in {a, b} : (\A y \in {a, b} : x <= y) => x = IF a <= b THEN a ELSE b
  OBVIOUS
<1>2. \E x \in {a, b} : \A y \in {a, b} : x <= y
  OBVIOUS
<1> QED
  BY <1>1, <1>2 DEF Min

\* The larger of two numbers.
LEMMA MaxOfTwo ==
  ASSUME NEW a \in Int, NEW b \in Int
  PROVE  Max({a, b}) = IF a >= b THEN a ELSE b
<1>1. \A x \in {a, b} : (\A y \in {a, b} : x >= y) => x = IF a >= b THEN a ELSE b
  OBVIOUS
<1>2. \E x \in {a, b} : \A y \in {a, b} : x >= y
  OBVIOUS
<1> QED
  BY <1>1, <1>2 DEF Max

\* The cap is read, and cuts the delta down to what it leaves of the date.
LEMMA CapKeeps ==
  ASSUME DepositInv, NEW c \in ReportCalls, ReadCap(c) \/ ApplyCap(c)
  PROVE  DepositsKept
<1>0. /\ UNCHANGED <<deposited, cap, opened, daily, dayLock, audit, req, openers>>
      /\ stage[c] \in {"cap", "sum"}
  BY DEF ReadCap, ApplyCap, accountVars, dayVars, auditVars
<1>1. /\ Computed(c) /\ delta[c] \in Nat /\ limit[c] \in Nat
      /\ Key(c) \in Users \X Days /\ req[c] \in Inputs /\ req[c].user \in Users
      /\ Credited(req[c].user, req[c].day) \in Nat
  BY <1>0, KeyType, CreditedType DEF DepositInv, DepositTypes, Computed
<1>2. /\ stage' = [stage EXCEPT ![c] = stage'[c]]
      /\ stage'[c] \in {"sum", "upsert"}
      /\ delta' = [delta EXCEPT ![c] = delta'[c]] /\ delta'[c] \in Nat /\ delta'[c] <= delta[c]
      /\ limit' = [limit EXCEPT ![c] = limit'[c]] /\ limit'[c] \in Nat
      /\ limit'[c] = 0 => limit[c] = 0 /\ delta'[c] = delta[c]
      /\ stage'[c] = "sum" => limit'[c] # 0
      /\ stage'[c] = "upsert" /\ limit'[c] # 0 =>
           delta'[c] = 0 \/ delta'[c] + Credited(req[c].user, req[c].day) <= limit'[c]
  <2>1. CASE ReadCap(c)
    <3>1. /\ stage[c] = "cap" /\ limit[c] = 0 /\ cap[req[c].user] \in Nat
          /\ delta' = delta
          /\ limit' = [limit EXCEPT ![c] = cap[req[c].user]]
          /\ stage' = [stage EXCEPT ![c] = IF cap[req[c].user] > 0 THEN "sum" ELSE "upsert"]
      BY <1>1, <2>1 DEF ReadCap, Goto, DepositInv, DepositTypes, LimitsRead, Computed, Ended
    <3> QED
      BY <1>1, <3>1 DEF DepositInv, DepositTypes
  <2>2. CASE ApplyCap(c)
    <3>1. /\ stage[c] = "sum" /\ limit[c] # 0 /\ limit' = limit
          /\ stage' = [stage EXCEPT ![c] = "upsert"]
      BY <2>2 DEF ApplyCap, Goto, DepositInv, LimitsRead
    <3>2. Remaining(c) = limit[c] - Credited(req[c].user, req[c].day) /\ Remaining(c) \in Int
      BY <1>1 DEF Remaining
    <3>3. delta' = [delta EXCEPT ![c] =
                      IF Remaining(c) <= 0 THEN 0 ELSE Min({delta[c], Remaining(c)})]
      BY <2>2 DEF ApplyCap, DepositInv, DepositTypes
    <3>4. Min({delta[c], Remaining(c)}) = IF delta[c] <= Remaining(c) THEN delta[c] ELSE Remaining(c)
      BY <1>1, <3>2, MinOfTwo
    <3>5. /\ delta'[c] = IF Remaining(c) <= 0 THEN 0
                         ELSE IF delta[c] <= Remaining(c) THEN delta[c] ELSE Remaining(c)
          /\ delta' = [delta EXCEPT ![c] = delta'[c]]
      BY <3>3, <3>4 DEF DepositInv, DepositTypes
    <3> QED
      BY <1>1, <3>1, <3>2, <3>5 DEF DepositInv, DepositTypes
  <2> QED
    BY <2>1, <2>2
<1>3. \A e \in ReportCalls :
        /\ e # c => stage'[e] = stage[e] /\ delta'[e] = delta[e] /\ limit'[e] = limit[e]
        /\ Computed(e)' = Computed(e) /\ Ended(e)' = Ended(e) /\ Excess(e)' = Excess(e)
        /\ Key(e)' = Key(e) /\ Recorded(e)' = Recorded(e)
  BY <1>0, <1>1, <1>2 DEF DepositInv, DepositTypes, Computed, Ended, Excess, Mark, Key, Recorded
<1>4. DepositTypes'
  <2>1. stage' \in [ReportCalls -> Stages] /\ delta' \in [ReportCalls -> Nat]
          /\ limit' \in [ReportCalls -> Nat]
    BY <1>2 DEF DepositInv, DepositTypes, Stages
  <2> QED
    BY <1>0, <1>1, <1>3, <2>1 DEF DepositInv, DepositTypes
<1>5. AuditTypes'
  BY <1>0, <1>2, <1>3 DEF DepositInv, AuditTypes
<1>6. DayLocks'
  BY <1>0, <1>2, <1>3 DEF DepositInv, DayLocks
<1>7. DeltasFit'
  <2>1. Excess(c) \in Int
    BY <1>1 DEF Excess, Mark, Inputs, DepositInv, DepositTypes
  <2> QED
    BY <1>0, <1>1, <1>2, <1>3, <2>1 DEF DepositInv, DeltasFit
<1>8. LimitsRead'
  BY <1>1, <1>2, <1>3 DEF DepositInv, LimitsRead
<1>9. CapsFit'
  <2>1. \A v, d : Credited(v, d)' = Credited(v, d)
    BY <1>0 DEF Credited, Booked
  <2> QED
    BY <1>0, <1>2, <1>3, <2>1 DEF DepositInv, CapsFit
<1>10. DatesOpened' /\ (MarksCredited => MarksCredited')
  <2>1. EndedOpeners' = EndedOpeners
    BY <1>0, <1>3 DEF EndedOpeners, DepositInv, DepositTypes
  <2> QED
    BY <1>0, <1>2, <1>3, <2>1, MarksKept
<1> QED
  BY <1>4, <1>5, <1>6, <1>7, <1>8, <1>9, <1>10 DEF DepositInv, DepositsKept

\* UpsertDailyStepsHighWaterMark takes the row from nobody.
LEMMA UpsertKeeps ==
  ASSUME DepositInv, NEW c \in ReportCalls, Upsert(c)
  PROVE  DepositsKept
<1>0. /\ UNCHANGED <<deposited, cap, opened, daily, audit, req, delta, limit, openers>>
      /\ stage[c] = "upsert" /\ stage' = [stage EXCEPT ![c] = "audit"]
      /\ dayLock[Key(c)] \in {None, c}
      /\ dayLock' = [dayLock EXCEPT ![Key(c)] = c]
  BY DEF Upsert, accountVars, auditVars, callVars, Goto
<1>1. Key(c) \in Users \X Days
  BY <1>0, KeyType DEF DepositInv
<1>2. \A e \in ReportCalls :
        /\ e # c => stage'[e] = stage[e]
        /\ Computed(e)' = Computed(e) /\ Ended(e)' = Ended(e) /\ Excess(e)' = Excess(e)
        /\ Key(e)' = Key(e) /\ Recorded(e)' = Recorded(e)
  BY <1>0 DEF DepositInv, DepositTypes, Computed, Ended, Excess, Mark, Key, Recorded
<1>3. /\ dayLock' \in [Users \X Days -> ReportCalls \cup {None}] /\ dayLock'[Key(c)] = c
      /\ \A k \in Users \X Days : dayLock[k] \notin {None, c} => dayLock'[k] = dayLock[k]
      /\ \A k \in Users \X Days : dayLock[k] = c => dayLock'[k] = c
  BY <1>0, <1>1 DEF DepositInv, DepositTypes
<1>4. DepositTypes'
  <2>1. stage' \in [ReportCalls -> Stages]
    BY <1>0 DEF DepositInv, DepositTypes, Stages
  <2> QED
    BY <1>0, <1>2, <1>3, <2>1 DEF DepositInv, DepositTypes
<1>5. AuditTypes'
  BY <1>0, <1>2 DEF DepositInv, DepositTypes, AuditTypes
<1>6. DayLocks'
  <2>1. SUFFICES ASSUME NEW e \in ReportCalls, Computed(e)
                 PROVE  /\ e \notin openers => Key(e) \in opened /\ dayLock'[Key(e)] = e
                        /\ stage'[e] \in {"audit", "apply", "commit"} => dayLock'[Key(e)] = e
    BY <1>0, <1>2 DEF DayLocks
  <2>2. e # None /\ Key(e) \in Users \X Days
    BY <2>1, KeyType, DepositsAssumption DEF DepositInv, Computed
  <2>3. CASE e = c
    BY <1>3, <2>1, <2>3 DEF DepositInv, DayLocks
  <2>4. CASE e # c
    BY <1>2, <1>3, <2>1, <2>2, <2>4 DEF DepositInv, DayLocks
  <2> QED
    BY <2>3, <2>4
<1>7. DeltasFit' /\ LimitsRead'
  BY <1>0, <1>2 DEF DepositInv, DepositTypes, DeltasFit, LimitsRead
<1>8. CapsFit'
  <2>1. \A v, d : Credited(v, d)' = Credited(v, d)
    BY <1>0 DEF Credited, Booked
  <2> QED
    BY <1>0, <1>2, <2>1 DEF DepositInv, DepositTypes, CapsFit
<1>9. DatesOpened' /\ (MarksCredited => MarksCredited')
  <2>1. EndedOpeners' = EndedOpeners
    BY <1>0, <1>2 DEF EndedOpeners, DepositInv, DepositTypes
  <2> QED
    BY <1>0, <2>1, MarksKept
<1> QED
  BY <1>4, <1>5, <1>6, <1>7, <1>8, <1>9 DEF DepositInv, DepositsKept

\* The transactions of the calls in A are rolled back: they were not committed, and
\* nobody else loses a lock.
LEMMA RollbackKeeps ==
  ASSUME DepositInv, NEW A \in SUBSET ReportCalls, \A a \in A : ~Ended(a),
         stage' = [c \in ReportCalls |-> IF c \in A THEN "failed" ELSE stage[c]],
         openers' = openers \ A,
         dayLock' \in [Users \X Days -> ReportCalls \cup {None}],
         \A e \in ReportCalls \ A :
           Computed(e) /\ dayLock[Key(e)] = e => dayLock'[Key(e)] = e,
         UNCHANGED <<deposited, cap, opened, daily, audit, req, delta, limit>>
  PROVE  DepositsKept
<1>1. \A e \in ReportCalls :
        /\ e \notin A => /\ stage'[e] = stage[e] /\ Computed(e)' = Computed(e)
                         /\ Ended(e)' = Ended(e) /\ Excess(e)' = Excess(e)
                         /\ (e \in openers' <=> e \in openers)
        /\ e \in A => stage'[e] = "failed" /\ ~Computed(e)' /\ Ended(e)' /\ e \notin openers'
        /\ Key(e)' = Key(e) /\ Recorded(e)' = Recorded(e)
  BY DEF Computed, Ended, Excess, Mark, Key, Recorded
<1>2. DepositTypes'
  <2>1. stage' \in [ReportCalls -> Stages]
    BY DEF DepositInv, DepositTypes, Stages
  <2> QED
    BY <1>1, <2>1 DEF DepositInv, DepositTypes
<1>3. AuditTypes'
  BY <1>1 DEF DepositInv, AuditTypes
<1>4. DayLocks'
  BY <1>1 DEF DepositInv, DayLocks
<1>5. DeltasFit'
  BY <1>1 DEF DepositInv, DeltasFit
<1>6. LimitsRead'
  BY <1>1 DEF DepositInv, LimitsRead
<1>7. CapsFit'
  <2>1. \A v, d : Credited(v, d)' = Credited(v, d)
    BY DEF Credited, Booked
  <2> QED
    BY <1>1, <2>1 DEF DepositInv, CapsFit
<1>8. DatesOpened' /\ (MarksCredited => MarksCredited')
  <2>1. EndedOpeners' = EndedOpeners
    BY <1>1 DEF EndedOpeners, DepositInv, DepositTypes
  <2> QED
    BY <2>1, MarksKept
<1> QED
  BY <1>2, <1>3, <1>4, <1>5, <1>6, <1>7, <1>8 DEF DepositInv, DepositsKept

\* A statement of the transaction fails.
LEMMA FailReportKeeps ==
  ASSUME DepositInv, NEW c \in ReportCalls, FailReport(c)
  PROVE  DepositsKept
<1>1. /\ UNCHANGED <<deposited, cap, opened, daily, audit, req, delta, limit>>
      /\ openers' = openers \ {c} /\ stage' = [stage EXCEPT ![c] = "failed"]
      /\ dayLock' = [k \in Users \X Days |-> IF dayLock[k] = c THEN None ELSE dayLock[k]]
  BY DEF FailReport, Rollback, RollbackBalance, ReleaseDay, auditVars, Goto
<1>2. ~Ended(c)
  BY DEF FailReport, InTx, Ended
<1>3. stage' = [e \in ReportCalls |-> IF e \in {c} THEN "failed" ELSE stage[e]]
  BY <1>1 DEF DepositInv, DepositTypes
<1>4. dayLock' \in [Users \X Days -> ReportCalls \cup {None}]
  BY <1>1 DEF DepositInv, DepositTypes
<1>5. ASSUME NEW e \in ReportCalls \ {c}, Computed(e), dayLock[Key(e)] = e
      PROVE  dayLock'[Key(e)] = e
  <2>1. Key(e) \in Users \X Days
    BY <1>5, KeyType DEF DepositInv, Computed
  <2> QED
    BY <1>1, <1>5, <2>1
<1> QED
  BY <1>1, <1>2, <1>3, <1>4, <1>5, RollbackKeeps

\* UpdateUserSettings changes a cap that reports read once.
LEMMA UpdateSettingsKeeps ==
  ASSUME DepositInv, NEW u \in Users, UpdateSettings(u)
  PROVE  DepositsKept
<1>0. UNCHANGED <<deposited, opened, daily, dayLock, audit, stage, req, delta, limit, openers>>
  BY DEF UpdateSettings, accountVars, dayVars, auditVars, callVars
<1>1. PICK n \in Caps : cap' = [cap EXCEPT ![u] = n]
  BY DEF UpdateSettings
<1>2. n \in Nat
  BY DepositsAssumption
<1>3. \A c : /\ Computed(c)' = Computed(c) /\ Ended(c)' = Ended(c) /\ Key(c)' = Key(c)
             /\ Recorded(c)' = Recorded(c) /\ Excess(c)' = Excess(c)
  BY <1>0 DEF Computed, Ended, Key, Recorded, Excess, Mark
<1>4. DepositTypes' /\ AuditTypes'
  BY <1>0, <1>1, <1>2, <1>3 DEF DepositInv, DepositTypes, AuditTypes
<1>5. DayLocks' /\ DeltasFit' /\ LimitsRead'
  BY <1>0, <1>3 DEF DepositInv, DayLocks, DeltasFit, LimitsRead
<1>6. CapsFit'
  <2>1. \A v, d : Credited(v, d)' = Credited(v, d)
    BY <1>0 DEF Credited, Booked
  <2> QED
    BY <1>0, <1>3, <2>1 DEF DepositInv, CapsFit
<1>7. DatesOpened' /\ (MarksCredited => MarksCredited')
  <2>1. EndedOpeners' = EndedOpeners
    BY <1>0 DEF EndedOpeners, Ended
  <2> QED
    BY <1>0, <2>1, MarksKept
<1> QED
  BY <1>4, <1>5, <1>6, <1>7 DEF DepositInv, DepositsKept

\* Before the first report.
LEMMA DepositsInitInv ==
  ASSUME DepositsInit, deposited \in [Users -> Nat]
  PROVE  /\ DepositInv
         /\ (\A u \in Users : deposited[u] = 0) => MarksCredited
<1>1. \A c \in ReportCalls : ~Computed(c) /\ ~Ended(c)
  BY DEF DepositsInit, Computed, Ended
<1>2. DepositTypes
  BY <1>1 DEF DepositsInit, DepositTypes, Stages
<1>3. AuditTypes
  BY FS_EmptySet DEF DepositsInit, AuditTypes
<1>4. DayLocks /\ DeltasFit /\ LimitsRead /\ CapsFit
  BY <1>1 DEF DepositsInit, DayLocks, DeltasFit, LimitsRead, CapsFit
<1>5. DatesOpened
  BY DEF DepositsInit, DatesOpened
<1>6. ASSUME NEW u \in Users PROVE Marks(u) = 0
  <2> DEFINE f == [d \in Days |-> daily[<<u, d>>]]
  <2>1. f \in [Days -> Int] /\ \A d \in Days : f[d] = 0
    BY DEF DepositsInit
  <2>2. Total(f) = 0
    BY <2>1, TotalZero
  <2> QED
    BY <2>2 DEF Marks
<1>7. (\A u \in Users : deposited[u] = 0) => MarksCredited
  BY <1>6 DEF MarksCredited
<1> QED
  BY <1>2, <1>3, <1>4, <1>5, <1>7 DEF DepositInv

-----------------------------------------------------------------------------
(***************************************************************************)
(* The commit.                                                             *)
(***************************************************************************)

\* The row that a commit adds to step_deposit_reports.
AuditRow(c) ==
  [user |-> req[c].user, report |-> req[c].report, steps |-> req[c].steps,
   credited |-> delta[c], day |-> req[c].day]

\* The assignments of a commit to the rows of the user.
LEMMA CommitFacts ==
  ASSUME DepositInv, NEW c \in ReportCalls, Commit(c)
  PROVE  /\ UNCHANGED <<cap, req, delta, limit, openers>>
         /\ stage[c] = "commit" /\ stage' = [stage EXCEPT ![c] = stage'[c]]
         /\ stage'[c] \in {"done", "failed"}
         /\ Key(c) \in Users \X Days /\ dayLock[Key(c)] = c
         /\ Key(c) = <<req[c].user, req[c].day>>
         /\ req[c].user \in Users /\ req[c].day \in Days /\ req[c].steps \in Nat
         /\ deposited' = [deposited EXCEPT ![req[c].user] = @ + delta[c]]
         /\ opened' = opened \cup {Key(c)}
         /\ daily' = [daily EXCEPT ![Key(c)] =
                        IF daily[Key(c)] >= req[c].steps THEN daily[Key(c)] ELSE req[c].steps]
         /\ dayLock' = [k \in Users \X Days |-> IF dayLock[k] = c THEN None ELSE dayLock[k]]
         /\ audit' = IF c \notin wrote THEN audit ELSE audit \cup {AuditRow(c)}
<1>0. /\ UNCHANGED <<cap, req, delta, limit, openers>>
      /\ stage[c] = "commit"
      /\ deposited' = [deposited EXCEPT ![req[c].user] = @ + delta[c]]
      /\ opened' = opened \cup {Key(c)}
      /\ daily' = [daily EXCEPT ![Key(c)] = HighWater(c)]
      /\ dayLock' = [k \in Users \X Days |-> IF dayLock[k] = c THEN None ELSE dayLock[k]]
      /\ audit' = IF c \notin wrote THEN audit ELSE audit \cup {AuditRow(c)}
  BY DEF Commit, ReleaseDay, AuditRow
<1>1. stage' = [stage EXCEPT ![c] = stage'[c]] /\ stage'[c] \in {"done", "failed"}
  BY DEF Commit, Goto, DepositInv, DepositTypes
<1>2. /\ Key(c) \in Users \X Days /\ dayLock[Key(c)] = c
      /\ req[c].user \in Users /\ req[c].day \in Days /\ req[c].steps \in Nat
  BY <1>0, KeyType DEF DepositInv, DayLocks, Computed
<1>3. HighWater(c) = IF daily[Key(c)] >= req[c].steps THEN daily[Key(c)] ELSE req[c].steps
  BY <1>2, MaxOfTwo DEF HighWater, DepositInv, DepositTypes
<1> QED
  BY <1>0, <1>1, <1>2, <1>3 DEF Key

\* Only the date of the call changes; whoever else holds a date holds another one.
LEMMA CommitElsewhere ==
  ASSUME DepositInv, NEW c \in ReportCalls, Commit(c), NEW e \in ReportCalls, e # c
  PROVE  /\ stage'[e] = stage[e] /\ Computed(e)' = Computed(e) /\ Ended(e)' = Ended(e)
         /\ Key(e)' = Key(e)
         /\ Computed(e) => Excess(e)' = Excess(e)
         /\ Computed(e) /\ dayLock[Key(e)] = e =>
              /\ dayLock'[Key(e)] = e
              /\ Credited(req[e].user, req[e].day)' = Credited(req[e].user, req[e].day)
<1>1. stage'[e] = stage[e] /\ req' = req /\ openers' = openers
  BY CommitFacts DEF DepositInv, DepositTypes
<1>2. Computed(e)' = Computed(e) /\ Ended(e)' = Ended(e) /\ Key(e)' = Key(e)
  BY <1>1 DEF Computed, Ended, Key
<1>3. ASSUME Computed(e), dayLock[Key(e)] = e
      PROVE  /\ dayLock'[Key(e)] = e /\ daily'[Key(e)] = daily[Key(e)]
             /\ Credited(req[e].user, req[e].day)' = Credited(req[e].user, req[e].day)
  <2>1. Key(e) \in Users \X Days /\ Key(e) # Key(c)
    BY <1>3, CommitFacts, KeyType DEF DepositInv, Computed
  <2>2. dayLock'[Key(e)] = e /\ daily'[Key(e)] = daily[Key(e)]
    BY <1>3, <2>1, CommitFacts DEF DepositInv, DepositTypes
  <2>3. Booked(req[e].user, req[e].day)' = Booked(req[e].user, req[e].day)
    <3>1. audit' = audit \/ audit' = audit \cup {AuditRow(c)}
      BY CommitFacts
    <3>2. ~(AuditRow(c).user = req[e].user /\ AuditRow(c).day = req[e].day)
      BY <2>1 DEF AuditRow, Key
    <3> QED
      BY <1>1, <3>1, <3>2 DEF Booked
  <2> QED
    BY <1>1, <2>2, <2>3 DEF Credited
<1>4. ASSUME Computed(e) PROVE Excess(e)' = Excess(e)
  <2>1. CASE e \in openers
    BY <1>1, <2>1 DEF Excess, Mark
  <2>2. CASE e \notin openers
    BY <1>1, <1>2, <1>3, <1>4, <2>2 DEF Excess, Mark, DepositInv, DayLocks
  <2> QED
    BY <2>1, <2>2
<1> QED
  BY <1>1, <1>2, <1>3, <1>4

\* The chips of the call are the steps by which it raises the mark of its date, unless
\* the date has been opened twice.
LEMMA CommitMarks ==
  ASSUME DepositInv, MarksCredited, NEW c \in ReportCalls, Commit(c)
  PROVE  MarksCredited'
<1>1. EndedOpeners' = IF c \in openers THEN EndedOpeners \cup {c} ELSE EndedOpeners
  <2>1. Ended(c)' /\ ~Ended(c)
    BY CommitFacts DEF Ended
  <2> QED
    BY <2>1, CommitFacts, CommitElsewhere DEF EndedOpeners, DepositInv, DepositTypes
<1>2. \A e : Key(e)' = Key(e)
  BY CommitFacts DEF Key
<1>3. SUFFICES ASSUME NEW u \in Users, OpenedOnce(u)'
               PROVE  /\ deposited'[u] <= Marks(u)'
                      /\ (\A e \in ReportCalls : limit[e] = 0) => deposited'[u] = Marks(u)'
  BY CommitFacts DEF MarksCredited
<1>4. OpenedOnce(u)
  BY <1>1, <1>2, <1>3, CommitFacts DEF OpenedOnce
<1> DEFINE f == [d \in Days |-> daily[<<u, d>>]]
           g == [d \in Days |-> daily'[<<u, d>>]]
<1>5. f \in [Days -> Nat] /\ g \in [Days -> Nat]
  BY CommitFacts DEF DepositInv, DepositTypes
<1>6. Marks(u) = Total(f) /\ Marks(u)' = Total(g)
  BY DEF Marks
<1>7. deposited[u] \in Nat /\ delta[c] \in Nat /\ IsFiniteSet(Days)
  BY DepositsAssumption DEF DepositInv, DepositTypes
<1>8. /\ deposited[u] <= Total(f)
      /\ (\A e \in ReportCalls : limit[e] = 0) => deposited[u] = Total(f)
  BY <1>4, <1>6 DEF MarksCredited
<1>9. CASE u # req[c].user
  <2>1. \A d \in Days : daily'[<<u, d>>] = daily[<<u, d>>]
    BY <1>9, CommitFacts DEF DepositInv, DepositTypes
  <2>2. f = g /\ deposited'[u] = deposited[u]
    BY <1>9, <2>1, CommitFacts DEF DepositInv, DepositTypes
  <2> QED
    BY <1>6, <1>8, <2>2
<1>10. CASE u = req[c].user
  <2> DEFINE d0 == req[c].day
  <2>1. d0 \in Days /\ \A d \in Days : d # d0 => g[d] = f[d]
    BY <1>10, CommitFacts DEF DepositInv, DepositTypes
  <2>2. Total(g) = Total(f) + g[d0] - f[d0]
    <3> HIDE DEF f, g, d0
    <3> QED
      BY <1>5, <1>7, <2>1, TotalPoint
  <2>3. g[d0] - f[d0] = IF req[c].steps > daily[Key(c)] THEN req[c].steps - daily[Key(c)] ELSE 0
    BY <1>10, CommitFacts DEF DepositInv, DepositTypes
  <2>4. daily[Key(c)] = Mark(c)
    <3>1. CASE c \notin openers
      BY <3>1 DEF Mark
    <3>2. CASE c \in openers
      <4>1. c \in EndedOpeners' /\ c \notin EndedOpeners
        BY <1>1, <3>2, CommitFacts DEF EndedOpeners, Ended
      <4>2. \A e \in EndedOpeners : Key(e) # Key(c)
        BY <1>1, <1>2, <1>3, <1>10, <4>1, CommitFacts DEF OpenedOnce
      <4>3. Key(c) \notin opened
        BY <4>2, CommitFacts DEF DepositInv, DatesOpened
      <4> QED
        BY <3>2, <4>3, CommitFacts DEF Mark, DepositInv, DatesOpened
    <3> QED
      BY <3>1, <3>2
  <2>5. g[d0] - f[d0] = Excess(c)
    BY <2>3, <2>4 DEF Excess
  <2>6. delta[c] <= Excess(c) /\ (limit[c] = 0 => delta[c] = Excess(c))
    BY CommitFacts DEF DepositInv, DeltasFit, Computed
  <2>7. deposited'[u] = deposited[u] + delta[c]
    BY <1>10, CommitFacts DEF DepositInv, DepositTypes
  <2>8. Total(f) \in Nat /\ Excess(c) \in Int
    <3>1. Total(f) \in Nat
      <4>1. f \in [Days -> Int]
        BY <1>5
      <4> HIDE DEF f
      <4> QED
        BY <1>7, <4>1, TotalType
    <3>2. Excess(c) \in Int
      BY <2>4, CommitFacts DEF Excess, DepositInv, DepositTypes
    <3> QED
      BY <3>1, <3>2
  <2>9. Total(g) = Total(f) + Excess(c)
    <3>1. g[d0] \in Nat /\ f[d0] \in Nat
      BY <1>5, <2>1
    <3> HIDE DEF f, g, d0
    <3> QED
      BY <2>2, <2>5, <2>8, <3>1
  <2> HIDE DEF f, g, d0
  <2> QED
    BY <1>6, <1>7, <1>8, <2>6, <2>7, <2>8, <2>9
<1> QED
  BY <1>9, <1>10

\* The transaction of a report commits.
LEMMA CommitKeeps ==
  ASSUME DepositInv, NEW c \in ReportCalls, Commit(c)
  PROVE  DepositsKept
<1>1. Computed(c) /\ ~Computed(c)' /\ Ended(c)'
  BY CommitFacts DEF Computed, Ended
<1>2. DepositTypes'
  <2>1. deposited' \in [Users -> Nat] /\ daily' \in [Users \X Days -> Nat]
    <3>1. /\ deposited \in [Users -> Nat] /\ daily \in [Users \X Days -> Nat]
          /\ delta[c] \in Nat
      BY DEF DepositInv, DepositTypes
    <3>2. deposited' \in [Users -> Nat]
      BY <3>1, CommitFacts
    <3>3. daily' \in [Users \X Days -> Nat]
      BY <3>1, CommitFacts
    <3> QED
      BY <3>2, <3>3
  <2>2. opened' \subseteq Users \X Days /\ cap' \in [Users -> Nat] /\ limit' \in [ReportCalls -> Nat]
          /\ delta' \in [ReportCalls -> Nat] /\ openers' \subseteq ReportCalls
          /\ DOMAIN req' = ReportCalls
    BY CommitFacts DEF DepositInv, DepositTypes
  <2>3. dayLock' \in [Users \X Days -> ReportCalls \cup {None}]
    BY CommitFacts DEF DepositInv, DepositTypes
  <2>4. stage' \in [ReportCalls -> Stages]
    BY CommitFacts DEF DepositInv, DepositTypes, Stages
  <2>5. ASSUME NEW e \in ReportCalls, stage'[e] \notin {"idle", "failed"} \/ e \in openers'
        PROVE  req'[e] \in Inputs
    <3>1. stage[e] \notin {"idle", "failed"} \/ e \in openers
      BY <2>5, CommitFacts, CommitElsewhere
    <3> QED
      BY <3>1, CommitFacts DEF DepositInv, DepositTypes
  <2>6. \A e \in openers' : Computed(e)' \/ Ended(e)'
    BY <1>1, CommitFacts, CommitElsewhere DEF DepositInv, DepositTypes
  <2> QED
    BY <2>1, <2>2, <2>3, <2>4, <2>5, <2>6 DEF DepositTypes
<1>3. AuditTypes'
  <2>1. IsFiniteSet(audit')
    BY CommitFacts, FS_AddElement DEF DepositInv, AuditTypes
  <2>2. \A row \in audit' : row.credited \in Nat
    BY CommitFacts DEF DepositInv, DepositTypes, AuditTypes, AuditRow
  <2>3. ASSUME NEW e \in ReportCalls, stage'[e] = "replay"
        PROVE  Recorded(e)' # {}
    <3>1. stage[e] = "replay"
      BY <2>3, CommitFacts, CommitElsewhere
    <3>2. audit \subseteq audit' /\ req' = req
      BY CommitFacts
    <3> QED
      BY <3>1, <3>2 DEF Recorded, DepositInv, AuditTypes
  <2> QED
    BY <2>1, <2>2, <2>3 DEF AuditTypes
<1>4. DayLocks'
  <2>1. ASSUME NEW e \in ReportCalls, Computed(e)'
        PROVE  /\ e \notin openers' => Key(e)' \in opened' /\ dayLock'[Key(e)'] = e
               /\ stage'[e] \in {"audit", "apply", "commit"} => dayLock'[Key(e)'] = e
    <3>1. e # c
      BY <1>1, <2>1
    <3>2. Computed(e) /\ Key(e)' = Key(e) /\ stage'[e] = stage[e]
      BY <2>1, <3>1, CommitElsewhere
    <3>3. openers' = openers /\ opened \subseteq opened'
      BY CommitFacts
    <3> QED
      BY <3>1, <3>2, <3>3, CommitElsewhere DEF DepositInv, DayLocks
  <2> QED
    BY <2>1 DEF DayLocks
<1>5. DeltasFit'
  <2>1. limit' = limit /\ delta' = delta
    BY CommitFacts
  <2> QED
    BY <1>1, <2>1, CommitElsewhere DEF DepositInv, DeltasFit
<1>6. LimitsRead'
  <2>1. limit' = limit
    BY CommitFacts
  <2>2. \A e \in ReportCalls : stage'[e] = "sum" => e # c
    BY CommitFacts
  <2> QED
    BY <1>1, <2>1, <2>2, CommitElsewhere DEF DepositInv, LimitsRead
<1>7. CapsFit'
  <2>1. ASSUME NEW e \in ReportCalls \ openers', Computed(e)',
               stage'[e] \notin {"cap", "sum"}, limit'[e] # 0
        PROVE  delta'[e] = 0 \/ delta'[e] + Credited(req[e].user, req[e].day)' <= limit'[e]
    <3>1. e # c /\ e \in ReportCalls \ openers
      BY <1>1, <2>1, CommitFacts
    <3>2. Computed(e) /\ stage'[e] = stage[e] /\ dayLock[Key(e)] = e
      BY <2>1, <3>1, CommitElsewhere DEF DepositInv, DayLocks
    <3>3. Credited(req[e].user, req[e].day)' = Credited(req[e].user, req[e].day)
      BY <3>1, <3>2, CommitElsewhere
    <3> QED
      BY <2>1, <3>1, <3>2, <3>3, CommitFacts DEF DepositInv, CapsFit
  <2> QED
    BY <2>1 DEF CapsFit
<1>8. DatesOpened'
  <2>1. EndedOpeners \subseteq EndedOpeners'
    <3>1. c \notin EndedOpeners /\ openers' = openers
      BY CommitFacts DEF EndedOpeners, Ended
    <3> QED
      BY <3>1, CommitElsewhere DEF EndedOpeners, DepositInv, DepositTypes
  <2>2. \A e : Key(e)' = Key(e)
    BY CommitFacts DEF Key
  <2>3. c \in openers => c \in EndedOpeners'
    BY <1>1, CommitFacts DEF EndedOpeners
  <2>4. c \notin openers => Key(c) \in opened
    BY <1>1 DEF DepositInv, DayLocks
  <2>5. ASSUME NEW k \in Users \X Days
        PROVE  IF k \in opened' THEN \E e \in EndedOpeners' : Key(e)' = k ELSE daily'[k] = 0
    <3>1. CASE k = Key(c)
      <4>1. k \in opened'
        BY <3>1, CommitFacts
      <4>2. \E e \in EndedOpeners' : Key(e) = k
        BY <2>1, <2>3, <2>4, <3>1, CommitFacts DEF DepositInv, DatesOpened
      <4> QED
        BY <2>2, <4>1, <4>2
    <3>2. CASE k # Key(c)
      <4>1. (k \in opened' <=> k \in opened) /\ daily'[k] = daily[k]
        BY <3>2, CommitFacts DEF DepositInv, DepositTypes
      <4> QED
        BY <2>1, <2>2, <4>1 DEF DepositInv, DatesOpened
    <3> QED
      BY <3>1, <3>2
  <2> QED
    BY <2>5 DEF DatesOpened
<1> QED
  BY <1>2, <1>3, <1>4, <1>5, <1>6, <1>7, <1>8, CommitMarks DEF DepositInv, DepositsKept

-----------------------------------------------------------------------------
(***************************************************************************)
(* What follows for the properties.                                        *)
(***************************************************************************)

\* Every statement of ReportSteps.
LEMMA DepositStepKeeps ==
  ASSUME DepositInv, NEW c \in ReportCalls, DepositStep(c)
  PROVE  DepositsKept
  BY MovingStatements, ReplayKeeps, ComputeDeltaKeeps, CapKeeps, UpsertKeeps, CommitKeeps,
     FailReportKeeps
  DEF DepositStep, Proceed

\* A restart rolls back every call that is in a transaction.
LEMMA RestartKeepsDeposits ==
  ASSUME DepositInv, NEW A \in SUBSET ReportCalls,
         \A c \in ReportCalls : InTx(c) => c \in A, \A c \in A : ~Ended(c) /\ c \notin EndedOpeners,
         stage' = [c \in ReportCalls |-> IF c \in A THEN "failed" ELSE stage[c]],
         openers' = {c \in openers : ~InTx(c)},
         dayLock' = [k \in Users \X Days |-> None],
         UNCHANGED <<deposited, cap, opened, daily, audit, req, delta, limit>>
  PROVE  DepositsKept
<1>1. openers' = openers \ A
  BY DEF DepositInv, DepositTypes, Computed, InTx
<1>2. \A e \in ReportCalls \ A : ~Computed(e)
  BY DEF Computed, InTx
<1>3. dayLock' \in [Users \X Days -> ReportCalls \cup {None}]
  OBVIOUS
<1> QED
  BY <1>1, <1>2, <1>3, RollbackKeeps

\* A set with at most one element has no two.
LEMMA AtMostOne ==
  ASSUME NEW S, IsFiniteSet(S), Cardinality(S) <= 1, NEW x \in S, NEW y \in S
  PROVE  x = y
<1>1. SUFFICES ASSUME x # y PROVE FALSE
  OBVIOUS
<1>2. IsFiniteSet({x}) /\ Cardinality({x}) = 1
  BY FS_Singleton
<1>3. Cardinality({x} \cup {y}) = 2
  BY <1>1, <1>2, FS_AddElement
<1>4. Cardinality({x} \cup {y}) <= Cardinality(S)
  BY FS_Subset
<1>5. Cardinality(S) \in Nat
  BY FS_CardinalityType
<1> QED
  BY <1>3, <1>4, <1>5

\* Dates that were opened by one call in all were opened by one committed call.
LEMMA StepsFromMarks ==
  ASSUME DepositInv, MarksCredited
  PROVE  StepsCreditedOnce
<1>1. SUFFICES ASSUME NEW u \in Users, FirstReportsApart(u)
               PROVE  OpenedOnce(u)
  BY DEF StepsCreditedOnce, MarksCredited, Marks
<1>2. SUFFICES ASSUME NEW c \in EndedOpeners, NEW e \in EndedOpeners, Key(c) = Key(e),
                      req[c].user = u
               PROVE  c = e
  BY DEF OpenedOnce
<1> DEFINE S == {x \in openers : Key(x) = <<u, req[c].day>>}
<1>3. req[c].day \in Days
  BY KeyType DEF EndedOpeners, DepositInv, DepositTypes
<1>4. c \in S /\ e \in S
  BY <1>2 DEF Key, EndedOpeners
<1>5. IsFiniteSet(S)
  BY FS_Subset, DepositsAssumption DEF DepositInv, DepositTypes
<1>6. Cardinality(S) <= 1
  BY <1>1, <1>3 DEF FirstReportsApart
<1> QED
  BY <1>4, <1>5, <1>6, AtMostOne

-----------------------------------------------------------------------------
(***************************************************************************)
(* The audit rows and the chips that were given.                           *)
(***************************************************************************)

\* An audit row that is not committed yet is the only one of its report.
RowsApart ==
  /\ \A c \in wrote : c \in ReportCalls /\ stage[c] \in {"apply", "commit"} /\ Recorded(c) = {}
  /\ \A c, e \in wrote :
       req[c].user = req[e].user /\ req[c].report = req[e].report => c = e

\* The audit rows of a date add up to the chips given on it, until a report commits
\* without one.
AuditCovers ==
  /\ given \in [Users \X Days -> Nat]
  /\ \A u \in Users, d \in Days :
       <<u, d>> \notin unaudited => given[<<u, d>>] = Credited(u, d)

AuditInv == RowsApart /\ AuditCovers

\* A step that commits no report keeps it, if it leaves the requests of the calls with an
\* audit row alone.
LEMMA AuditKept ==
  ASSUME AuditInv, UNCHANGED <<audit, given, unaudited>>, wrote' \subseteq wrote,
         \A c \in wrote' : req'[c] = req[c] /\ stage'[c] \in {"apply", "commit"}
  PROVE  AuditInv'
<1>1. AuditCovers'
  BY DEF AuditInv, AuditCovers, Credited, Booked
<1>2. \A c \in wrote' : Recorded(c)' = Recorded(c)
  BY DEF Recorded
<1>3. RowsApart'
  BY <1>2 DEF AuditInv, RowsApart
<1> QED
  BY <1>1, <1>3 DEF AuditInv

\* InsertDepositReport: the row is new, or the call goes on without one.
LEMMA InsertKeepsAudit ==
  ASSUME DepositInv, AuditInv, NEW c \in ReportCalls, InsertAudit(c)
  PROVE  AuditInv'
<1>0. /\ UNCHANGED <<audit, given, unaudited, req>>
      /\ stage' = [stage EXCEPT ![c] = "apply"]
      /\ \A e \in wrote \ {c} :
           <<req[e].user, req[e].report>> # <<req[c].user, req[c].report>>
      /\ wrote' = IF Recorded(c) = {} THEN wrote \cup {c} ELSE wrote
  BY DEF InsertAudit, auditVars, Goto
<1>1. AuditCovers'
  BY <1>0 DEF AuditInv, AuditCovers, Credited, Booked
<1>2. \A e : Recorded(e)' = Recorded(e)
  BY <1>0 DEF Recorded
<1>3. \A e \in wrote' : e \in ReportCalls /\ stage'[e] \in {"apply", "commit"} /\ Recorded(e)' = {}
  BY <1>0, <1>2 DEF AuditInv, RowsApart, DepositInv, DepositTypes
<1>4. \A e, f \in wrote' :
        req'[e].user = req'[f].user /\ req'[e].report = req'[f].report => e = f
  BY <1>0 DEF AuditInv, RowsApart
<1> QED
  BY <1>1, <1>3, <1>4 DEF AuditInv, RowsApart

\* One more audit row of a date adds its chips.
LEMMA RowAdds ==
  ASSUME DepositInv, NEW c \in ReportCalls, Commit(c), c \in wrote, Recorded(c) = {}
  PROVE  Credited(req[c].user, req[c].day)' = Credited(req[c].user, req[c].day) + delta[c]
<1> DEFINE row == AuditRow(c)
           S == Booked(req[c].user, req[c].day)
           f == [r \in S |-> r.credited]
           g == [r \in S \cup {row} |-> r.credited]
<1>1. S' = S \cup {row} /\ row \notin S
  <2>1. audit' = audit \cup {row} /\ req' = req
    BY CommitFacts
  <2>2. /\ row.user = req[c].user /\ row.day = req[c].day /\ row.report = req[c].report
    BY DEF AuditRow
  <2>3. row \notin audit
    BY <2>2 DEF Recorded
  <2> HIDE DEF row
  <2> QED
    BY <2>1, <2>2, <2>3 DEF Booked
<1>2. row.credited = delta[c] /\ delta[c] \in Nat
  BY DEF AuditRow, DepositInv, DepositTypes
<1>3. Credited(req[c].user, req[c].day) = Total(f) /\ Total(f) \in Nat
  BY CreditedType DEF Credited, DepositInv
<1>4. Credited(req[c].user, req[c].day)' = Total([r \in S' |-> r.credited])
  BY CommitFacts DEF Credited
<1>5. IsFiniteSet(S) /\ \A r \in S : r.credited \in Nat
  BY FS_Subset DEF DepositInv, AuditTypes, Booked
<1>6. IsFiniteSet(S \cup {row}) /\ g \in [S \cup {row} -> Nat] /\ g[row] = delta[c]
  <2> HIDE DEF row, S
  <2> QED
    BY <1>2, <1>5, FS_AddElement
<1>7. Part(g, (S \cup {row}) \ {row}) = f
  <2>1. (S \cup {row}) \ {row} = S
    BY <1>1
  <2> HIDE DEF row, S
  <2> QED
    BY <2>1 DEF Part
<1>8. Total(g) = g[row] + Total(Part(g, (S \cup {row}) \ {row}))
  <2> HIDE DEF row, S, g
  <2> QED
    BY <1>6, TotalRemove
<1>9. Total(g) = delta[c] + Total(f)
  BY <1>6, <1>7, <1>8
<1>10. Credited(req[c].user, req[c].day)' = Total(g)
  <2> HIDE DEF row, S
  <2> QED
    BY <1>1, <1>4
<1> HIDE DEF f, g
<1> QED
  BY <1>2, <1>3, <1>9, <1>10

\* What a commit does to the history of its date.
LEMMA CommitGives ==
  ASSUME NEW c \in ReportCalls, Commit(c)
  PROVE  /\ given' = [given EXCEPT ![Key(c)] = @ + delta[c]]
         /\ unaudited' = IF c \in wrote THEN unaudited ELSE unaudited \cup {Key(c)}
         /\ wrote' = wrote \ {c}
  BY DEF Commit

\* The commit of a report.
LEMMA CommitKeepsAudit ==
  ASSUME DepositInv, AuditInv, NEW c \in ReportCalls, Commit(c)
  PROVE  AuditInv'
<1>1. RowsApart'
  <2>1. ASSUME NEW e \in wrote'
        PROVE  e \in ReportCalls /\ stage'[e] \in {"apply", "commit"} /\ Recorded(e)' = {}
    <3>1. e \in wrote /\ e # c /\ e \in ReportCalls
      BY <2>1, CommitGives DEF AuditInv, RowsApart
    <3>2. stage'[e] = stage[e] /\ Recorded(e) = {}
      BY <3>1, CommitElsewhere DEF AuditInv, RowsApart
    <3>3. Recorded(e)' = {}
      <4>1. CASE c \notin wrote
        BY <3>2, <4>1, CommitFacts DEF Recorded
      <4>2. CASE c \in wrote
        <5>1. ~(req[c].user = req[e].user /\ req[c].report = req[e].report)
          BY <3>1, <4>2 DEF AuditInv, RowsApart
        <5>2. audit' = audit \cup {AuditRow(c)} /\ req' = req
          BY <4>2, CommitFacts
        <5>3. AuditRow(c).user = req[c].user /\ AuditRow(c).report = req[c].report
          BY DEF AuditRow
        <5> QED
          BY <3>2, <5>1, <5>2, <5>3 DEF Recorded
      <4> QED
        BY <4>1, <4>2
    <3> QED
      BY <3>1, <3>2, <3>3 DEF AuditInv, RowsApart
  <2>2. \A e, f \in wrote' :
          req'[e].user = req'[f].user /\ req'[e].report = req'[f].report => e = f
    BY CommitGives, CommitFacts DEF AuditInv, RowsApart
  <2> QED
    BY <2>1, <2>2 DEF RowsApart
<1>2. AuditCovers'
  <2>1. given' \in [Users \X Days -> Nat]
    BY CommitGives, CommitFacts DEF AuditInv, AuditCovers, DepositInv, DepositTypes
  <2>2. ASSUME NEW u \in Users, NEW d \in Days, <<u, d>> \notin unaudited'
        PROVE  given'[<<u, d>>] = Credited(u, d)'
    <3>1. <<u, d>> \notin unaudited /\ given[<<u, d>>] = Credited(u, d)
      BY <2>2, CommitGives DEF AuditInv, AuditCovers
    <3>2. CASE <<u, d>> = Key(c)
      <4>1. c \in wrote /\ Recorded(c) = {} /\ u = req[c].user /\ d = req[c].day
        BY <2>2, <3>2, CommitGives DEF Key, AuditInv, RowsApart
      <4>2. Credited(u, d)' = Credited(u, d) + delta[c]
        BY <4>1, RowAdds, CommitFacts
      <4>3. given'[<<u, d>>] = given[<<u, d>>] + delta[c]
        BY <3>2, CommitGives, CommitFacts DEF AuditInv, AuditCovers
      <4> QED
        BY <3>1, <4>2, <4>3
    <3>3. CASE <<u, d>> # Key(c)
      <4>1. given'[<<u, d>>] = given[<<u, d>>]
        BY <3>3, CommitGives DEF AuditInv, AuditCovers
      <4>2. audit' = audit \/ audit' = audit \cup {AuditRow(c)}
        BY CommitFacts
      <4>3. ~(AuditRow(c).user = u /\ AuditRow(c).day = d)
        BY <3>3 DEF AuditRow, Key
      <4>4. Booked(u, d)' = Booked(u, d)
        BY <4>2, <4>3 DEF Booked
      <4> QED
        BY <3>1, <4>1, <4>4 DEF Credited
    <3> QED
      BY <3>2, <3>3
  <2> QED
    BY <2>1, <2>2 DEF AuditCovers
<1> QED
  BY <1>1, <1>2 DEF AuditInv

\* Every statement of ReportSteps.
LEMMA DepositStepKeepsAudit ==
  ASSUME DepositInv, AuditInv, NEW c \in ReportCalls, DepositStep(c)
  PROVE  AuditInv'
<1>1. CASE InsertAudit(c)
  BY <1>1, InsertKeepsAudit
<1>2. CASE Commit(c)
  BY <1>2, CommitKeepsAudit
<1>3. CASE FailReport(c)
  <2>1. /\ UNCHANGED <<audit, given, unaudited, req>> /\ wrote' = wrote \ {c}
        /\ stage' = [stage EXCEPT ![c] = "failed"]
    BY <1>3 DEF FailReport, auditVars, Goto
  <2>2. \A e \in wrote' : stage'[e] \in {"apply", "commit"}
    BY <2>1 DEF AuditInv, RowsApart
  <2> QED
    BY <2>1, <2>2, AuditKept
<1>4. CASE ApplyDeposit(c)
  <2>1. /\ UNCHANGED <<audit, given, unaudited, req, wrote>>
        /\ stage' = [stage EXCEPT ![c] = "commit"]
    BY <1>4 DEF ApplyDeposit, auditVars, callVars, Goto
  <2>2. \A e \in wrote' : stage'[e] \in {"apply", "commit"}
    BY <2>1 DEF AuditInv, RowsApart, DepositInv, DepositTypes
  <2> QED
    BY <2>1, <2>2, AuditKept
<1>5. CASE \/ Begin(c) \/ FindReport(c) \/ Replay(c) \/ ComputeDelta(c) \/ ReadCap(c)
           \/ ApplyCap(c) \/ Upsert(c)
  <2>1. /\ UNCHANGED <<audit, given, unaudited, req, wrote>>
        /\ stage' = [stage EXCEPT ![c] = stage'[c]]
    BY <1>5 DEF Begin, FindReport, Replay, ComputeDelta, ReadCap, ApplyCap, Upsert, auditVars,
                callVars, Goto, DepositInv, DepositTypes
  <2>2. c \notin wrote
    BY <1>5 DEF Begin, FindReport, Replay, ComputeDelta, ReadCap, ApplyCap, Upsert, AuditInv,
                RowsApart
  <2>3. \A e \in wrote' : stage'[e] \in {"apply", "commit"}
    BY <2>1, <2>2 DEF AuditInv, RowsApart, DepositInv, DepositTypes
  <2> QED
    BY <2>1, <2>3, AuditKept
<1> QED
  BY <1>1, <1>2, <1>3, <1>4, <1>5 DEF DepositStep, Proceed

\* A new report, which has no audit row.
LEMMA ReportKeepsAudit ==
  ASSUME AuditInv, NEW c \in ReportCalls, NEW u \in Users, Report(c, u)
  PROVE  AuditInv'
<1>1. /\ UNCHANGED <<audit, given, unaudited, wrote>>
      /\ stage[c] = "idle" /\ stage' = [stage EXCEPT ![c] = "begin"]
      /\ \E input : req' = [req EXCEPT ![c] = input]
  BY DEF Report, auditVars, Goto
<1>2. c \notin wrote
  BY <1>1 DEF AuditInv, RowsApart
<1>3. \A e \in wrote' : req'[e] = req[e] /\ stage'[e] \in {"apply", "commit"}
  BY <1>1, <1>2 DEF AuditInv, RowsApart
<1> QED
  BY <1>1, <1>3, AuditKept

\* A call that found the row of its date gives no more than its cap leaves, whether it
\* leaves an audit row or not.
LEMMA CommitWithinCap ==
  ASSUME DepositInv, AuditInv, NEW c \in ReportCalls \ openers, Commit(c), limit[c] > 0,
         Key(c) \notin unaudited
  PROVE  given'[Key(c)] <= Max({limit[c], given[Key(c)]})
<1>1. /\ limit[c] \in Nat /\ delta[c] \in Nat
      /\ Key(c) \in Users \X Days /\ given[Key(c)] \in Nat
  BY CommitFacts DEF DepositInv, DepositTypes, AuditInv, AuditCovers
<1>2. given[Key(c)] = Credited(req[c].user, req[c].day)
  BY CommitFacts DEF AuditInv, AuditCovers
<1>3. given'[Key(c)] = given[Key(c)] + delta[c]
  BY <1>1, CommitGives DEF AuditInv, AuditCovers
<1>4. delta[c] = 0 \/ delta[c] + given[Key(c)] <= limit[c]
  BY <1>1, <1>2, CommitFacts DEF DepositInv, CapsFit, Computed
<1>5. Max({limit[c], given[Key(c)]})
        = IF limit[c] >= given[Key(c)] THEN limit[c] ELSE given[Key(c)]
  BY <1>1, MaxOfTwo
<1> QED
  BY <1>1, <1>3, <1>4, <1>5

=============================================================================
