------------------------------- MODULE Journal -------------------------------
(***************************************************************************)
(* JournalState, the Raft state machine of pact-journal: its four parts    *)
(* side by side.  Raft (openraft and raft_hpc_core) hands apply() one      *)
(* committed command at a time, so a step is one command of one part.      *)
(***************************************************************************)
EXTENDS ConfigLog, AuditLog, Approvals, Enrollments

journalVars == <<configVars, audit_log, pending_approvals, enrollVars>>

JournalTypeOK ==
    ConfigLogTypeOK /\ AuditTypeOK /\ ApprovalsTypeOK /\ EnrollmentsTypeOK

JournalInit == ConfigLogInit /\ AuditInit /\ ApprovalsInit /\ EnrollmentsInit

JournalNext ==
    \/ ConfigLogNext   /\ UNCHANGED <<audit_log, pending_approvals, enrollVars>>
    \/ AuditNext       /\ UNCHANGED <<configVars, pending_approvals, enrollVars>>
    \/ ApprovalsNext   /\ UNCHANGED <<configVars, audit_log, enrollVars>>
    \/ EnrollmentsNext /\ UNCHANGED <<configVars, audit_log, pending_approvals>>

JournalSpec == JournalInit /\ [][JournalNext]_journalVars

=============================================================================
