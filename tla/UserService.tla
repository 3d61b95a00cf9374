----------------------------- MODULE UserService -----------------------------
(***************************************************************************)
(* The path of a step report: the interceptor resolves the user of the     *)
(* request (Provisioning), requireSelf compares it with the user the       *)
(* request names, and the deposit runs (StepDeposits).                     *)
(***************************************************************************)
EXTENDS Provisioning, StepDeposits

\* Every request is a step report.
ASSUME UserServiceAssumption == Requests = ReportCalls

vars == <<provisioningVars, accountVars, depositVars>>

\* requireSelf: only the principal's own account; GetUser finds it.
ReportSelf(c) ==
  /\ auth[c] = "ok"
  /\ Report(c, principal[c])
  /\ UNCHANGED provisioningVars

\* The process dies: calls fail, their transactions are rolled back, the cache is lost.
Restart ==
  /\ Fault
  /\ cache' = [s \in Subs |-> None]
  /\ auth' = [c \in Requests |->
                IF auth[c] \in {"resolve", "create", "reread"} THEN "failed" ELSE auth[c]]
  /\ stage' = [c \in ReportCalls |->
                 IF InTx(c) \/ stage[c] = "begin" \/ (stage[c] = "idle" /\ auth[c] = "ok")
                 THEN "failed" ELSE stage[c]]
  /\ holder' = [u \in Users |-> None] /\ change' = [u \in Users |-> 0]
  /\ inTx' = {} /\ inAppend' = {}
  /\ dayLock' = [k \in Users \X Days |-> None]
  /\ wrote' = {}
  /\ openers' = {c \in openers : ~InTx(c)}
  /\ UNCHANGED <<owner, sub, principal, balance, deposited, cap, opened, daily, auditVars,
                 req, delta, limit>>

Authenticate(c) == Resolve(c) /\ UNCHANGED <<accountVars, depositVars>>

Init == ProvisioningInit /\ AccountsInit([u \in Users |-> 0]) /\ DepositsInit

Next ==
  \/ \E c \in ReportCalls :
       \/ Arrive(c) /\ UNCHANGED <<accountVars, depositVars>>
       \/ Authenticate(c)
       \/ /\ FailAuth(c) /\ Fault
          /\ UNCHANGED <<balance, deposited, rowVars, poolVars, depositVars>>
       \/ ReportSelf(c)
       \/ DepositStep(c) /\ UNCHANGED provisioningVars
  \/ \E s \in Subs : (Register(s) \/ Evict(s)) /\ UNCHANGED <<accountVars, depositVars>>
  \/ \E u \in Users : owner[u] # None /\ UpdateSettings(u) /\ UNCHANGED provisioningVars
  \/ Restart

Spec == Init /\ [][Next]_vars

=============================================================================
