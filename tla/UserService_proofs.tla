------------------------- MODULE UserService_proofs -------------------------
(***************************************************************************)
(* Proofs about UserService, for any number of users, subjects, requests,  *)
(* reports and dates: a subject has one account, every step is credited    *)
(* once and the cap of a date is kept.                                     *)
(***************************************************************************)
EXTENDS UserService, StepDeposits_proofs

(***************************************************************************)
(* The inductive invariant: a request has a subject from its arrival on,   *)
(* a principal only after it, and one when it is let through.              *)
(***************************************************************************)
ProvisioningTypes ==
  /\ owner \in [Users -> Subs \cup {None}]
  /\ cache \in [Subs -> Users \cup {None}]
  /\ auth \in [Requests -> {"new", "resolve", "create", "reread", "ok", "failed"}]
  /\ sub \in [Requests -> Subs \cup {None}]
  /\ principal \in [Requests -> Users \cup {None}]

Identified ==
  \A c \in Requests :
    /\ IF auth[c] = "new" THEN principal[c] = None ELSE sub[c] \in Subs
    /\ auth[c] = "ok" => principal[c] # None

IInv == ProvisioningTypes /\ Identified /\ OneAccount

-----------------------------------------------------------------------------
(***************************************************************************)
(* What a request does between two statements keeps the invariant.         *)
(***************************************************************************)

\* A request that goes on as a user who has its subject (Resolved).
LEMMA ResolvedKeeps ==
  ASSUME IInv, NEW c \in Requests, auth[c] # "new", NEW u \in Users,
         owner[u] = sub[c], Resolved(c, u), UNCHANGED <<owner, sub>>
  PROVE  IInv'
<1>1. sub[c] \in Subs
  BY DEF IInv, Identified
<1>2. ProvisioningTypes'
  BY <1>1 DEF IInv, ProvisioningTypes, Resolved
<1>3. Identified'
  BY AccountsAssumption DEF IInv, ProvisioningTypes, Identified, Resolved
<1>4. OneAccount'
  <2>1. \A r \in Requests : principal'[r] # None => owner'[principal'[r]] = sub'[r]
    BY DEF IInv, ProvisioningTypes, OneAccount, Resolved
  <2>2. \A s \in Subs : cache'[s] # None => owner'[cache'[s]] = s
    BY <1>1 DEF IInv, ProvisioningTypes, OneAccount, Resolved
  <2> QED
    BY <2>1, <2>2 DEF IInv, OneAccount
<1> QED
  BY <1>2, <1>3, <1>4 DEF IInv

\* A request that goes on without a user (Moves).
LEMMA MovesKeeps ==
  ASSUME IInv, NEW c \in Requests, auth[c] # "new",
         NEW a \in {"create", "reread", "failed"}, Moves(c, a), UNCHANGED <<owner, sub>>
  PROVE  IInv'
<1>1. ProvisioningTypes'
  BY DEF IInv, ProvisioningTypes, Moves
<1>2. Identified'
  BY DEF IInv, ProvisioningTypes, Identified, Moves
<1>3. OneAccount'
  BY DEF IInv, OneAccount, Moves
<1> QED
  BY <1>1, <1>2, <1>3 DEF IInv

\* The insert of a users row: a subject that has no account gets a new one, and nothing
\* that was resolved before is touched (users_external_id_uniq).
LEMMA InsertKeeps ==
  ASSUME IInv, NEW s \in Subs, Owned(s) = {}, NEW u \in Users, owner[u] = None,
         owner' = [owner EXCEPT ![u] = s], UNCHANGED <<cache, sub, principal>>
  PROVE  /\ owner' \in [Users -> Subs \cup {None}]
         /\ OneAccount'
         /\ owner'[u] = s
<1>1. owner' \in [Users -> Subs \cup {None}] /\ owner'[u] = s
  BY DEF IInv, ProvisioningTypes
<1>2. s # None
  BY ProvisioningAssumption
<1>3. \A v, w \in Users : owner'[v] = owner'[w] /\ owner'[v] # None => v = w
  BY <1>2 DEF IInv, ProvisioningTypes, OneAccount, Owned
<1>4. \A r \in Requests : principal[r] # None => sub[r] \in Subs
  BY DEF IInv, Identified
<1>5. \A r \in Requests : principal'[r] # None => owner'[principal'[r]] = sub'[r]
  BY <1>2, <1>4, ProvisioningAssumption DEF IInv, ProvisioningTypes, OneAccount
<1>6. \A t \in Subs : cache'[t] # None => owner'[cache'[t]] = t
  BY <1>2, ProvisioningAssumption DEF IInv, ProvisioningTypes, OneAccount
<1> QED
  BY <1>1, <1>3, <1>5, <1>6 DEF OneAccount

-----------------------------------------------------------------------------
(***************************************************************************)
(* One lemma per operation.                                                *)
(***************************************************************************)

\* A request arrives with the subject of its token.
LEMMA ArriveKeeps ==
  ASSUME IInv, NEW c \in Requests, Arrive(c)
  PROVE  IInv'
<1>1. PICK s \in Subs : sub' = [sub EXCEPT ![c] = s]
  BY DEF Arrive
<1>2. principal[c] = None
  BY DEF Arrive, IInv, Identified
<1>3. ProvisioningTypes'
  BY <1>1 DEF IInv, ProvisioningTypes, Arrive
<1>4. Identified'
  BY <1>1 DEF IInv, ProvisioningTypes, Identified, Arrive
<1>5. OneAccount'
  <2>1. \A r \in Requests : principal'[r] # None => owner'[principal'[r]] = sub'[r]
    BY <1>1, <1>2 DEF IInv, ProvisioningTypes, OneAccount, Arrive
  <2> QED
    BY <2>1 DEF IInv, OneAccount, Arrive
<1> QED
  BY <1>3, <1>4, <1>5 DEF IInv

\* cache.Get, then GetUserByExternalID: what is found is the user of the subject.
LEMMA LookupKeeps ==
  ASSUME IInv, NEW c \in Requests, Lookup(c)
  PROVE  IInv'
<1>1. auth[c] # "new" /\ sub[c] \in Subs
  BY DEF Lookup, IInv, Identified
<1>2. CASE cache[sub[c]] # None /\ Resolved(c, cache[sub[c]])
  <2>1. cache[sub[c]] \in Users /\ owner[cache[sub[c]]] = sub[c]
    BY <1>1, <1>2 DEF IInv, ProvisioningTypes, OneAccount
  <2> QED
    BY <1>1, <1>2, <2>1, ResolvedKeeps DEF Lookup
<1>3. CASE \E u \in Owned(sub[c]) : Resolved(c, u)
  BY <1>1, <1>3, ResolvedKeeps DEF Lookup, Owned
<1>4. CASE Moves(c, "create")
  BY <1>1, <1>4, MovesKeeps DEF Lookup
<1> QED
  BY <1>2, <1>3, <1>4 DEF Lookup

\* store.CreateUser, refused when a request of the same subject was faster.
LEMMA ProvisionKeeps ==
  ASSUME IInv, NEW c \in Requests, Provision(c)
  PROVE  IInv'
<1>1. auth[c] # "new" /\ sub[c] \in Subs
  BY DEF Provision, IInv, Identified
<1>2. ASSUME Owned(sub[c]) = {}, NEW u \in Users, owner[u] = None,
             owner' = [owner EXCEPT ![u] = sub[c]], Resolved(c, u)
      PROVE  IInv'
  <2>1. owner' \in [Users -> Subs \cup {None}] /\ owner'[u] = sub[c]
    BY <1>1, <1>2 DEF IInv, ProvisioningTypes
  <2>2. sub[c] # None
    BY <1>1, ProvisioningAssumption
  <2>3. \A v, w \in Users : owner'[v] = owner'[w] /\ owner'[v] # None => v = w
    BY <1>2, <2>2 DEF IInv, ProvisioningTypes, OneAccount, Owned
  <2>4. \A r \in Requests : principal[r] # None => sub[r] \in Subs
    BY DEF IInv, Identified
  <2>5. \A r \in Requests : principal'[r] # None => owner'[principal'[r]] = sub'[r]
    BY <1>2, <2>1, <2>2, <2>4, ProvisioningAssumption
       DEF IInv, ProvisioningTypes, OneAccount, Resolved, Provision
  <2>6. \A t \in Subs : cache'[t] # None => owner'[cache'[t]] = t
    BY <1>1, <1>2, <2>1, <2>2, ProvisioningAssumption
       DEF IInv, ProvisioningTypes, OneAccount, Resolved
  <2>7. ProvisioningTypes'
    BY <1>1, <1>2, <2>1 DEF IInv, ProvisioningTypes, Resolved, Provision
  <2>8. Identified'
    BY <1>1, <1>2, AccountsAssumption
       DEF IInv, ProvisioningTypes, Identified, Resolved, Provision
  <2> QED
    BY <2>3, <2>5, <2>6, <2>7, <2>8 DEF IInv, OneAccount
<1>3. CASE Moves(c, "reread") /\ UNCHANGED owner
  BY <1>1, <1>3, MovesKeeps DEF Provision
<1> QED
  BY <1>2, <1>3 DEF Provision, CreateUser

\* The read after an error of CreateUser.
LEMMA RereadKeeps ==
  ASSUME IInv, NEW c \in Requests, Reread(c)
  PROVE  IInv'
<1>1. auth[c] # "new"
  BY DEF Reread
<1>2. CASE \E u \in Owned(sub[c]) : Resolved(c, u)
  BY <1>1, <1>2, ResolvedKeeps DEF Reread, Owned
<1>3. CASE Moves(c, "failed")
  BY <1>1, <1>3, MovesKeeps DEF Reread
<1> QED
  BY <1>2, <1>3 DEF Reread

\* A call of the store fails; the row it inserted may be there all the same.
LEMMA FailAuthKeeps ==
  ASSUME IInv, NEW c \in Requests, FailAuth(c)
  PROVE  IInv'
<1>1. CASE Moves(c, "failed") /\ UNCHANGED <<owner, sub>> /\ auth[c] # "new"
  BY <1>1, MovesKeeps
<1>2. CASE auth[c] = "create" /\ UNCHANGED owner /\ Moves(c, "reread") /\ UNCHANGED sub
  BY <1>2, MovesKeeps
<1>3. ASSUME auth[c] = "create", Owned(sub[c]) = {}, NEW u \in Users, owner[u] = None,
             owner' = [owner EXCEPT ![u] = sub[c]], Moves(c, "reread"), UNCHANGED sub
      PROVE  IInv'
  <2>1. sub[c] \in Subs
    BY <1>3 DEF IInv, Identified
  <2>2. owner' \in [Users -> Subs \cup {None}] /\ OneAccount'
    BY <1>3, <2>1, InsertKeeps DEF Moves
  <2>3. ProvisioningTypes'
    BY <1>3, <2>2 DEF IInv, ProvisioningTypes, Moves
  <2>4. Identified'
    BY <1>3 DEF IInv, ProvisioningTypes, Identified, Moves
  <2> QED
    BY <2>2, <2>3, <2>4 DEF IInv
<1> QED
  BY <1>1, <1>2, <1>3 DEF FailAuth

\* UserService.CreateUser, the LRU cache, and the end of the process.
LEMMA OthersKeep ==
  ASSUME IInv, \/ \E s \in Subs : Register(s) \/ Evict(s)
               \/ Restart
               \/ UNCHANGED provisioningVars
  PROVE  IInv'
<1>1. ASSUME NEW s \in Subs, Register(s)
      PROVE  IInv'
  <2>1. PICK u \in Users : owner[u] = None /\ owner' = [owner EXCEPT ![u] = s]
    BY <1>1 DEF Register
  <2>2. owner' \in [Users -> Subs \cup {None}] /\ OneAccount'
    BY <1>1, <2>1, InsertKeeps DEF Register
  <2>3. ProvisioningTypes' /\ Identified'
    BY <1>1, <2>2 DEF IInv, ProvisioningTypes, Identified, Register
  <2> QED
    BY <2>2, <2>3 DEF IInv
<1>2. ASSUME NEW s \in Subs, Evict(s)
      PROVE  IInv'
  <2>1. ProvisioningTypes' /\ Identified'
    BY <1>2 DEF IInv, ProvisioningTypes, Identified, Evict
  <2>2. \A t \in Subs : cache'[t] # None => owner'[cache'[t]] = t
    BY <1>2 DEF IInv, ProvisioningTypes, OneAccount, Evict
  <2>3. OneAccount'
    BY <1>2, <2>2 DEF IInv, OneAccount, Evict
  <2> QED
    BY <2>1, <2>3 DEF IInv
<1>3. CASE Restart
  <2>1. ProvisioningTypes'
    BY <1>3 DEF IInv, ProvisioningTypes, Restart
  <2>2. Identified'
    BY <1>3 DEF IInv, ProvisioningTypes, Identified, Restart
  <2>3. OneAccount'
    BY <1>3 DEF IInv, OneAccount, Restart
  <2> QED
    BY <2>1, <2>2, <2>3 DEF IInv
<1>4. CASE UNCHANGED provisioningVars
  BY <1>4 DEF IInv, ProvisioningTypes, Identified, OneAccount, provisioningVars
<1> QED
  BY <1>1, <1>2, <1>3, <1>4

-----------------------------------------------------------------------------
(***************************************************************************)
(* The theorems.                                                           *)
(***************************************************************************)

\* The accounts, at every step of the service.
LEMMA AccountsInvariant == Spec => []IInv
<1>1. Init => IInv
  BY DEF Init, ProvisioningInit, IInv, ProvisioningTypes, Identified, OneAccount
<1>2. IInv /\ [Next]_vars => IInv'
  <2> SUFFICES ASSUME IInv, [Next]_vars
               PROVE  IInv'
    OBVIOUS
  <2>1. ASSUME NEW c \in ReportCalls, Arrive(c)
        PROVE  IInv'
    BY <2>1, ArriveKeeps, UserServiceAssumption
  <2>2. ASSUME NEW c \in ReportCalls, Authenticate(c)
        PROVE  IInv'
    BY <2>2, LookupKeeps, ProvisionKeeps, RereadKeeps, UserServiceAssumption
       DEF Authenticate, Resolve
  <2>3. ASSUME NEW c \in ReportCalls, FailAuth(c)
        PROVE  IInv'
    BY <2>3, FailAuthKeeps, UserServiceAssumption
  <2>4. ASSUME NEW c \in ReportCalls,
               ReportSelf(c) \/ (DepositStep(c) /\ UNCHANGED provisioningVars)
        PROVE  IInv'
    BY <2>4, OthersKeep DEF ReportSelf
  <2>5. ASSUME NEW s \in Subs, Register(s) \/ Evict(s)
        PROVE  IInv'
    BY <2>5, OthersKeep
  <2>6. ASSUME NEW u \in Users, UNCHANGED provisioningVars
        PROVE  IInv'
    BY <2>6, OthersKeep
  <2>7. CASE Restart
    BY <2>7, OthersKeep
  <2>8. CASE UNCHANGED vars
    <3>1. UNCHANGED provisioningVars
      BY <2>8 DEF vars
    <3> QED
      BY <3>1, OthersKeep
  <2> QED
    BY <2>1, <2>2, <2>3, <2>4, <2>5, <2>6, <2>7, <2>8 DEF Next
<1> QED
  BY <1>1, <1>2, PTL DEF Spec

\* A subject has one account, and every request of it acts for that account, however
\* requests race to create it, fail, find a cached id or meet a restart of the server.
THEOREM UserHasOneAccount == Spec => []OneAccount
<1>1. IInv => OneAccount
  BY DEF IInv
<1> QED
  BY <1>1, AccountsInvariant, PTL

\* The deposits, at every step of the service: authentication leaves them alone, a
\* report is booked on an existing user, and a restart rolls transactions back.
LEMMA DepositsNext ==
  ASSUME IInv, DepositInv, [Next]_vars
  PROVE  DepositsKept
<1>1. CASE UNCHANGED <<deposited, depositVars>>
  BY <1>1, DepositsUnchanged
<1>2. ASSUME NEW c \in ReportCalls, ReportSelf(c)
      PROVE  DepositsKept
  <2>1. principal[c] \in Users
    BY <1>2, UserServiceAssumption DEF ReportSelf, IInv, ProvisioningTypes, Identified
  <2> QED
    BY <1>2, <2>1, ReportKeeps DEF ReportSelf
<1>3. ASSUME NEW c \in ReportCalls, DepositStep(c)
      PROVE  DepositsKept
  BY <1>3, DepositStepKeeps
<1>4. ASSUME NEW u \in Users, UpdateSettings(u)
      PROVE  DepositsKept
  BY <1>4, UpdateSettingsKeeps
<1>5. CASE Restart
  <2> DEFINE A == {c \in ReportCalls : InTx(c) \/ stage[c] = "begin"
                                         \/ (stage[c] = "idle" /\ auth[c] = "ok")}
  <2>1. \A c \in A : ~Ended(c) /\ c \notin EndedOpeners
    BY DEF InTx, Ended, EndedOpeners
  <2>2. /\ stage' = [c \in ReportCalls |-> IF c \in A THEN "failed" ELSE stage[c]]
        /\ openers' = {c \in openers : ~InTx(c)}
        /\ dayLock' = [k \in Users \X Days |-> None]
        /\ UNCHANGED <<deposited, cap, opened, daily, audit, req, delta, limit>>
    BY <1>5 DEF Restart, auditVars
  <2>3. A \in SUBSET ReportCalls /\ \A c \in ReportCalls : InTx(c) => c \in A
    OBVIOUS
  <2> HIDE DEF A
  <2> QED
    BY <2>1, <2>2, <2>3, RestartKeepsDeposits
<1>6. CASE UNCHANGED vars
  <2>1. UNCHANGED <<deposited, depositVars>>
    BY <1>6 DEF vars, accountVars
  <2> QED
    BY <2>1, <1>1
<1>7. CASE Next
  BY <1>1, <1>2, <1>3, <1>4, <1>5, <1>7 DEF Next, Authenticate, accountVars
<1> QED
  BY <1>6, <1>7

\* The invariant of the deposits.
LEMMA DepositsInvariant == Spec => [](DepositInv /\ MarksCredited)
<1>1. Init => DepositInv /\ MarksCredited
  BY DepositsInitInv DEF Init, AccountsInit
<1>2. IInv /\ (DepositInv /\ MarksCredited) /\ [Next]_vars => (DepositInv /\ MarksCredited)'
  BY DepositsNext DEF DepositsKept
<1> QED
  BY <1>1, <1>2, AccountsInvariant, PTL DEF Spec

\* Every step is credited at most once, and exactly once when no cap is in force, for
\* the users whose dates were opened by one report each: reports and retries of any
\* number overlap, fail and meet restarts, and the row lock of the date orders them.
THEOREM UserStepsCreditedOnce == Spec => []StepsCreditedOnce
<1>1. DepositInv /\ MarksCredited => StepsCreditedOnce
  BY StepsFromMarks
<1> QED
  BY <1>1, DepositsInvariant, PTL

\* The audit rows, at every step of the service: a restart forgets the rows that are not
\* committed.
LEMMA AuditNext ==
  ASSUME DepositInv, AuditInv, IInv, [Next]_vars
  PROVE  AuditInv'
<1>1. CASE UNCHANGED depositVars
  <2>1. UNCHANGED <<audit, given, unaudited, wrote, req, stage>>
    BY <1>1 DEF depositVars, auditVars, callVars
  <2>2. \A c \in wrote' : stage'[c] \in {"apply", "commit"}
    BY <2>1 DEF AuditInv, RowsApart
  <2> QED
    BY <2>1, <2>2, AuditKept
<1>2. ASSUME NEW c \in ReportCalls, ReportSelf(c)
      PROVE  AuditInv'
  <2>1. principal[c] \in Users
    BY <1>2, UserServiceAssumption DEF ReportSelf, IInv, ProvisioningTypes, Identified
  <2> QED
    BY <1>2, <2>1, ReportKeepsAudit DEF ReportSelf
<1>3. ASSUME NEW c \in ReportCalls, DepositStep(c)
      PROVE  AuditInv'
  BY <1>3, DepositStepKeepsAudit
<1>4. ASSUME NEW u \in Users, UpdateSettings(u)
      PROVE  AuditInv'
  <2>1. UNCHANGED <<audit, given, unaudited, wrote, req, stage>>
    BY <1>4 DEF UpdateSettings, auditVars, callVars
  <2>2. \A c \in wrote' : stage'[c] \in {"apply", "commit"}
    BY <2>1 DEF AuditInv, RowsApart
  <2> QED
    BY <2>1, <2>2, AuditKept
<1>5. CASE Restart
  <2>1. UNCHANGED <<audit, given, unaudited>> /\ wrote' = {}
    BY <1>5 DEF Restart, auditVars
  <2> QED
    BY <2>1, AuditKept
<1>6. CASE UNCHANGED vars
  BY <1>1, <1>6 DEF vars
<1>7. CASE Next
  BY <1>1, <1>2, <1>3, <1>4, <1>5, <1>7 DEF Next, Authenticate
<1> QED
  BY <1>6, <1>7

\* The invariant of the audit rows.
LEMMA AuditInvariant == Spec => []AuditInv
<1>1. Init => AuditInv
  <2> SUFFICES ASSUME Init PROVE AuditInv
    OBVIOUS
  <2>1. given = [k \in Users \X Days |-> 0] /\ wrote = {} /\ audit = {}
    BY DEF Init, DepositsInit
  <2>2. ASSUME NEW u, NEW d PROVE Credited(u, d) = 0
    <3> DEFINE f == [row \in Booked(u, d) |-> row.credited]
    <3>1. Booked(u, d) = {}
      BY <2>1 DEF Booked
    <3>2. IsFiniteSet(Booked(u, d)) /\ f \in [Booked(u, d) -> Int]
            /\ \A row \in Booked(u, d) : f[row] = 0
      BY <3>1, FS_EmptySet
    <3>3. Total(f) = 0
      <4> HIDE DEF f
      <4> QED
        BY <3>2, TotalZero
    <3> QED
      BY <3>3 DEF Credited
  <2> QED
    BY <2>1, <2>2 DEF AuditInv, RowsApart, AuditCovers
<1>2. AuditInv /\ IInv /\ (DepositInv /\ MarksCredited) /\ [Next]_vars => AuditInv'
  BY AuditNext
<1> QED
  BY <1>1, <1>2, AccountsInvariant, DepositsInvariant, PTL DEF Spec

\* The step that gives a date its chips keeps the cap that the report has read.
CapKept ==
  \A c \in ReportCalls \ openers :
    stage[c] = "commit" /\ stage'[c] # "commit" /\ limit[c] > 0 /\ Key(c) \notin unaudited =>
      given'[Key(c)] <= Max({limit[c], given[Key(c)]})

\* A report that found the row of its date never takes the chips given on the date over
\* the cap it has read, although settings change, other reports commit meanwhile and it
\* may leave no audit row itself, unless a report without an audit row came before it.
THEOREM UserCapRespected == Spec => CapRespected
<1>1. DepositInv /\ AuditInv /\ [Next]_vars => [CapKept]_<<stage, given>>
  <2> SUFFICES ASSUME DepositInv, AuditInv, [Next]_vars, NEW c \in ReportCalls \ openers,
                      stage[c] = "commit", stage'[c] # "commit", limit[c] > 0,
                      Key(c) \notin unaudited
               PROVE  given'[Key(c)] <= Max({limit[c], given[Key(c)]})
    BY DEF CapKept
  <2>1. CASE \E e \in ReportCalls : Commit(e)
    <3>1. PICK e \in ReportCalls : Commit(e)
      BY <2>1
    <3>2. e = c
      BY <3>1, CommitElsewhere
    <3> QED
      BY <3>1, <3>2, CommitWithinCap
  <2>2. CASE ~\E e \in ReportCalls : Commit(e)
    <3>1. given' = given
      BY <2>2 DEF Next, Authenticate, ReportSelf, Report, DepositStep, Proceed, Begin, FindReport,
             Replay, ComputeDelta, ReadCap, ApplyCap, Upsert, InsertAudit, ApplyDeposit,
             FailReport, UpdateSettings, Restart, vars, depositVars, auditVars
    <3>2. limit[c] \in Nat /\ given[Key(c)] \in Nat
      BY KeyType DEF DepositInv, DepositTypes, AuditInv, AuditCovers
    <3>3. Max({limit[c], given[Key(c)]})
            = IF limit[c] >= given[Key(c)] THEN limit[c] ELSE given[Key(c)]
      BY <3>2, MaxOfTwo
    <3> QED
      BY <3>1, <3>2, <3>3
  <2> QED
    BY <2>1, <2>2
<1>2. (DepositInv /\ MarksCredited) => DepositInv
  OBVIOUS
<1> QED
  BY <1>1, <1>2, DepositsInvariant, AuditInvariant, PTL DEF Spec, CapRespected, CapKept

=============================================================================
