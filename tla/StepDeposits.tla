---------------------------- MODULE StepDeposits ----------------------------
(***************************************************************************)
(* UserService.ReportSteps: a phone reports the steps walked so far today, *)
(* and what they exceed the high-water mark of the day by is credited as   *)
(* chips (StepsPerChip is 1).  One action for each statement of the        *)
(* transaction in store/users.go; every statement sees what has been       *)
(* committed before it, and waits for rows that others have locked.        *)
(*                                                                         *)
(* Abstractions.  The clock and the timezone of the user only decide which *)
(* date a report is booked on: any of Days.  A retry of a report is a call *)
(* with the same report id, at any time.  The reason texts are left out.   *)
(***************************************************************************)
EXTENDS Accounts, Counting, FiniteSetsExt

CONSTANTS
  ReportCalls,  \* calls of ReportSteps
  Reports,      \* report ids
  StepCounts,   \* values of cumulative_steps_today
  Days,         \* local dates
  Caps          \* values of max_daily_deposit; 0 is no cap

ASSUME DepositsAssumption ==
  /\ IsFiniteSet(ReportCalls) /\ IsFiniteSet(Reports) /\ IsFiniteSet(Days)
  /\ StepCounts \subseteq Nat /\ Caps \subseteq Nat /\ 0 \in Caps
  /\ None \notin ReportCalls \cup Reports \cup Days

VARIABLES
  cap,       \* users.max_daily_deposit
  opened,    \* the keys <<user, date>> of user_daily_steps
  daily,     \* max_steps of a user and date, 0 without a row
  dayLock,   \* the transaction that has locked or written the row, or would insert it
  audit,     \* step_deposit_reports
  stage,     \* where a call is
  req,       \* its input: user, report, steps and date
  delta,     \* the chips it will credit
  limit,     \* the cap it has read
  wrote,     \* the calls that have inserted their audit row
  openers,   \* history: the calls that found their date without a row
  given,     \* history: the chips that reports of a user and date have credited
  unaudited  \* history: the users and dates of reports that left no audit row

dayVars     == <<opened, daily, dayLock>>
auditVars   == <<audit, given, unaudited>>
callVars    == <<req, delta, limit, wrote>>
depositVars == <<cap, dayVars, auditVars, stage, callVars, openers>>

Key(c) == <<req[c].user, req[c].day>>
Booked(u, d) == {row \in audit : row.user = u /\ row.day = d}
Credited(u, d) == Total([row \in Booked(u, d) |-> row.credited])
Recorded(c) == {row \in audit : row.user = req[c].user /\ row.report = req[c].report}

Goto(c, s) == stage' = [stage EXCEPT ![c] = s]
InTx(c) == stage[c] \in {"find", "replay", "lock", "cap", "sum", "upsert", "audit",
                         "apply", "commit"}

-----------------------------------------------------------------------------
\* The service has checked the request (requireSelf, steps >= 0) and derives the
\* date from the timezone it reads before the transaction begins.
Report(c, u) ==
  /\ stage[c] = "idle"
  /\ ConnectionFree
  /\ \E r \in Reports, n \in StepCounts, d \in Days :
       req' = [req EXCEPT ![c] = [user |-> u, report |-> r, steps |-> n, day |-> d]]
  /\ Goto(c, "begin")
  /\ UNCHANGED <<accountVars, cap, dayVars, auditVars, delta, limit, wrote, openers>>

Begin(c) ==
  /\ stage[c] = "begin"
  /\ BeginTx(c)
  /\ Goto(c, "find")
  /\ UNCHANGED <<balance, deposited, rowVars, faults, cap, dayVars, auditVars, callVars, openers>>

\* 1. FindDepositReportByReportID.
FindReport(c) ==
  /\ stage[c] = "find"
  /\ Goto(c, IF Recorded(c) # {} THEN "replay" ELSE "lock")
  /\ UNCHANGED <<accountVars, cap, dayVars, auditVars, callVars, openers>>

\* A report seen before is answered from its audit row, after GetDailyStepsForUpdate
\* has locked the row of the date, if there is one; the commit gives it back.
Replay(c) ==
  /\ stage[c] = "replay"
  /\ Key(c) \in opened => dayLock[Key(c)] = None
  /\ delta' = [delta EXCEPT ![c] = (CHOOSE row \in Recorded(c) : TRUE).credited]
  /\ UNCHANGED <<balance, deposited>> /\ Release(c)
  /\ Goto(c, "done")
  /\ UNCHANGED <<faults, cap, dayVars, auditVars, req, limit, wrote, openers>>

\* Mutant: a plain SELECT.
LockDailyUnlocked(c) == UNCHANGED dayLock

\* 2. GetDailyStepsForUpdate: a row that exists is locked, and its latest value read;
\* a row that another transaction is about to insert is not seen.
LockDaily(c) ==
  \/ /\ Key(c) \in opened
     /\ dayLock[Key(c)] = None
     /\ dayLock' = [dayLock EXCEPT ![Key(c)] = c]
  \/ Key(c) \notin opened /\ UNCHANGED dayLock

\* 3. What exceeds the high-water mark.
ComputeDelta(c) ==
  /\ stage[c] = "lock"
  /\ LockDaily(c)
  /\ LET n == req[c].steps - daily[Key(c)] IN
       /\ delta' = [delta EXCEPT ![c] = IF n > 0 THEN n ELSE 0]
       /\ Goto(c, IF n > 0 THEN "cap" ELSE "upsert")
  /\ openers' = IF Key(c) \in opened THEN openers ELSE openers \cup {c}
  /\ UNCHANGED <<accountVars, cap, opened, daily, auditVars, req, limit, wrote>>

\* 4. The cap of the user, then the chips credited on the date so far.
ReadCap(c) ==
  /\ stage[c] = "cap"
  /\ limit' = [limit EXCEPT ![c] = cap[req[c].user]]
  /\ Goto(c, IF cap[req[c].user] > 0 THEN "sum" ELSE "upsert")
  /\ UNCHANGED <<accountVars, cap, dayVars, auditVars, req, delta, wrote, openers>>

\* Mutant: the cap bounds each report by itself.
RemainingPerReport(c) == limit[c]

Remaining(c) == limit[c] - Credited(req[c].user, req[c].day)

ApplyCap(c) ==
  /\ stage[c] = "sum"
  /\ delta' = [delta EXCEPT ![c] =
                 IF Remaining(c) <= 0 THEN 0 ELSE Min({@, Remaining(c)})]
  /\ Goto(c, "upsert")
  /\ UNCHANGED <<accountVars, cap, dayVars, auditVars, req, limit, wrote, openers>>

\* 5. UpsertDailyStepsHighWaterMark waits for whoever holds or inserts the row.
Upsert(c) ==
  /\ stage[c] = "upsert"
  /\ dayLock[Key(c)] \in {None, c}
  /\ dayLock' = [dayLock EXCEPT ![Key(c)] = c]
  /\ Goto(c, "audit")
  /\ UNCHANGED <<accountVars, cap, opened, daily, auditVars, callVars, openers>>

\* 6. InsertDepositReport ON CONFLICT DO NOTHING waits for an insert of the same
\* report that is not committed; on a conflict the row of the winner is read, and
\* the call goes on with its own delta.
InsertAudit(c) ==
  /\ stage[c] = "audit"
  /\ \A e \in wrote \ {c} :
       <<req[e].user, req[e].report>> # <<req[c].user, req[c].report>>
  /\ wrote' = IF Recorded(c) = {} THEN wrote \cup {c} ELSE wrote
  /\ Goto(c, "apply")
  /\ UNCHANGED <<accountVars, cap, dayVars, auditVars, req, delta, limit, openers>>

\* 7. ApplyDepositToSnapshot.
ApplyDeposit(c) ==
  /\ stage[c] = "apply"
  /\ AddToBalance(c, req[c].user, delta[c])
  /\ Goto(c, "commit")
  /\ UNCHANGED <<balance, deposited, poolVars, faults, cap, dayVars, auditVars, callVars, openers>>

\* GREATEST(max_steps, steps); the row is written by the upsert's lock holder only.
HighWater(c) == Max({daily[Key(c)], req[c].steps})

ReleaseDay(c) ==
  dayLock' = [k \in Users \X Days |-> IF dayLock[k] = c THEN None ELSE dayLock[k]]

\* The commit; if its answer is lost the client sees a failure.
Commit(c) ==
  /\ stage[c] = "commit"
  /\ CommitBalance(c)
  /\ deposited' = [deposited EXCEPT ![req[c].user] = @ + delta[c]]
  /\ opened' = opened \cup {Key(c)}
  /\ daily' = [daily EXCEPT ![Key(c)] = HighWater(c)]
  /\ ReleaseDay(c)
  /\ audit' = IF c \notin wrote THEN audit
              ELSE audit \cup {[user |-> req[c].user, report |-> req[c].report,
                                steps |-> req[c].steps, credited |-> delta[c],
                                day |-> req[c].day]}
  /\ wrote' = wrote \ {c}
  /\ given' = [given EXCEPT ![Key(c)] = @ + delta[c]]
  /\ unaudited' = IF c \in wrote THEN unaudited ELSE unaudited \cup {Key(c)}
  /\ \/ Goto(c, "done") /\ UNCHANGED faults
     \/ Goto(c, "failed") /\ Fault
  /\ UNCHANGED <<cap, req, delta, limit, openers>>

\* Mutant: WithTx without the deferred rollback.
RollbackForgotten(c) == UNCHANGED <<balance, deposited, rowVars, poolVars, dayLock>>

Rollback(c) == RollbackBalance(c) /\ ReleaseDay(c)

\* A statement fails before the commit.
FailReport(c) ==
  /\ InTx(c) \/ stage[c] = "begin"
  /\ Fault
  /\ Rollback(c)
  /\ wrote' = wrote \ {c}
  /\ openers' = openers \ {c}
  /\ Goto(c, "failed")
  /\ UNCHANGED <<cap, opened, daily, auditVars, req, delta, limit>>

\* UserService.UpdateUserSettings.
UpdateSettings(u) ==
  /\ ConnectionFree
  /\ cap' \in {[cap EXCEPT ![u] = n] : n \in Caps}
  /\ UNCHANGED <<accountVars, dayVars, auditVars, stage, callVars, openers>>

-----------------------------------------------------------------------------
DepositsInit ==
  /\ cap = [u \in Users |-> 0]
  /\ opened = {}
  /\ daily = [k \in Users \X Days |-> 0]
  /\ dayLock = [k \in Users \X Days |-> None]
  /\ audit = {}
  /\ stage = [c \in ReportCalls |-> "idle"]
  /\ req = [c \in ReportCalls |-> None]
  /\ delta = [c \in ReportCalls |-> 0]
  /\ limit = [c \in ReportCalls |-> 0]
  /\ wrote = {}
  /\ openers = {}
  /\ given = [k \in Users \X Days |-> 0]
  /\ unaudited = {}

Proceed(c) ==
  \/ Begin(c) \/ FindReport(c) \/ Replay(c) \/ ComputeDelta(c) \/ ReadCap(c)
  \/ ApplyCap(c) \/ Upsert(c) \/ InsertAudit(c) \/ ApplyDeposit(c) \/ Commit(c)

DepositStep(c) == Proceed(c) \/ FailReport(c)

-----------------------------------------------------------------------------
(***************************************************************************)
(* Properties.                                                             *)
(***************************************************************************)

\* At most one report has found any date of the user without a row to lock.
FirstReportsApart(u) ==
  \A d \in Days : Cardinality({c \in openers : Key(c) = <<u, d>>}) <= 1

\* Every step is credited at most once, and exactly once when no cap is in force,
\* however reports and their retries overlap, fail or are booked across midnight:
\* the chips a user was given are the high-water marks of the user's days.  Two
\* reports that both open a date have nothing to lock and break this.
StepsCreditedOnce ==
  \A u \in Users : FirstReportsApart(u) =>
    LET marks == Total([d \in Days |-> daily[<<u, d>>]]) IN
    /\ deposited[u] <= marks
    /\ (\A c \in ReportCalls : limit[c] = 0) => deposited[u] = marks

\* No commit of a report that found the row of its date takes the chips given to the
\* user on that date over the cap it has read, also when settings change, other reports
\* of the date commit while it runs, or it loses the race for its own audit row.  The cap
\* is computed from the audit rows: it does not bind on a date on which such a loser has
\* committed before.
CapRespected ==
  [][\A c \in ReportCalls \ openers :
       stage[c] = "commit" /\ stage'[c] # "commit" /\ limit[c] > 0 /\ Key(c) \notin unaudited =>
         given'[Key(c)] <= Max({limit[c], given[Key(c)]})]_<<stage, given>>

\* InsertDepositReport: "ON CONFLICT DO NOTHING handles the narrow race where two
\* identical report_ids both pass step 1 concurrently."  The loser of the race leaves
\* no audit row, but credits its chips.
AuditCoversDeposits ==
  \A u \in Users :
    deposited[u] = Total([row \in {row \in audit : row.user = u} |-> row.credited])

=============================================================================
