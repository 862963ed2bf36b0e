------------------------------ MODULE AuditLog ------------------------------
(***************************************************************************)
(* The admin operation log of JournalState (raft/state.rs,                 *)
(* RecordOperation): a vector capped at AUDIT_LOG_MAX, oldest dropped.     *)
(***************************************************************************)
EXTENDS Naturals, Sequences

CONSTANTS
    AdminOperation,     \* operations recorded
    AUDIT_LOG_MAX

ASSUME AuditAssumption == AUDIT_LOG_MAX \in Nat \ {0}

VARIABLE audit_log

AuditTypeOK == audit_log \in Seq(AdminOperation)

AuditInit == audit_log = <<>>

\* Vec::drain(..n)
DrainFront(log, n) == SubSeq(log, n + 1, Len(log))

\* Variant for sensitivity checks: a full log is cleared.
RecordOperation_Clears(op) ==
    audit_log' = IF Len(audit_log) >= AUDIT_LOG_MAX THEN <<op>> ELSE Append(audit_log, op)

RecordOperation(op) ==
    LET pushed == Append(audit_log, op)
    IN  audit_log' = IF Len(pushed) > AUDIT_LOG_MAX
                     THEN DrainFront(pushed, Len(pushed) - AUDIT_LOG_MAX)
                     ELSE pushed

AuditNext == \E op \in AdminOperation : RecordOperation(op)

AuditSpec == AuditInit /\ [][AuditNext]_audit_log

-----------------------------------------------------------------------------
\* F22: the replicated state holds at most AUDIT_LOG_MAX operations.
AuditBounded == Len(audit_log) <= AUDIT_LOG_MAX

\* Recording an operation keeps the newest ones in order: the log below the cap
\* loses nothing, the full log loses exactly its oldest operation, and one entry is
\* new.
AuditKeepsNewest ==
    [][LET kept == Len(audit_log') - 1
       IN  /\ kept = IF Len(audit_log) < AUDIT_LOG_MAX THEN Len(audit_log) ELSE AUDIT_LOG_MAX - 1
           /\ \A i \in 1..kept : audit_log'[i] = audit_log[Len(audit_log) - kept + i]]_audit_log
=============================================================================
