-------------------------- MODULE EnrollmentProofs --------------------------
(***************************************************************************)
(* Proofs about the enrollment RPCs for every number of calls, nodes and   *)
(* serials.  The service implements Enrollments, whose invariant it then   *)
(* has.  Serials identify nodes because a serial is drawn once, gets its   *)
(* owner in the step that draws it, and a handler that still holds a       *)
(* signed serial holds it for its owner.  Certificates are covered by      *)
(* activations because every handler about to sign stands for one.         *)
(***************************************************************************)
EXTENDS EnrollmentService, JournalProofs

-----------------------------------------------------------------------------
(* The enrollment RPCs.                                                    *)

\* The handlers' own variables.
HandlerTypeOK ==
    /\ now \in Clock
    /\ drawn \in 0..MaxCerts
    /\ calls \in [Call -> CallRecord]
    /\ scan \subseteq NodeId
    /\ agentCert \in [NodeId -> CertSerial \cup {None}]
    /\ history \in HistoryRecord

\* Past its lookup a handler knows its node, past its signature its serial.
Bound(r) ==
    /\ r.pc \in {"activate", "sign", "update", "audit_ok", "renew_write", "renew_answer", "revoke"}
          => r.node \in NodeId
    /\ r.pc \in {"update", "audit_ok", "renew_write", "renew_answer"} => r.serial \in CertSerial

CallsBound == \A c \in Call : Bound(calls[c])

\* No record and no owner is ahead of the serials drawn, and a certificate that
\* is signed and not yet written belongs to the node its handler works for.
SerialsDrawn ==
    /\ \A n \in NodeId : Enrolled(n) => enrollments[n].cert_serial \in (1..drawn) \cup {None}
    /\ \A s \in CertSerial : s > drawn => history.owner[s] = None
    /\ \A c \in Call : calls[c].pc \in {"update", "renew_write"} =>
          calls[c].serial \in 1..drawn /\ history.owner[calls[c].serial] = calls[c].node

Signers(n) == {c \in Call : calls[c].pc = "sign" /\ calls[c].node = n}

GrantsCover == \A n \in NodeId : history.grants[n] >= Cardinality(Signers(n))

ServiceInv ==
    /\ EnrollmentsInv /\ HandlerTypeOK /\ CallsBound
    /\ SerialsDrawn /\ SerialIdentifiesNode /\ GrantsCover

\* A drawn serial is a new one.
LEMMA DrawIsFresh ==
    ASSUME HandlerTypeOK, Draw
    PROVE  /\ FreshSerial \in CertSerial /\ FreshSerial = drawn + 1 /\ drawn' = drawn + 1
           /\ drawn \in Nat /\ drawn' \in 0..MaxCerts
  BY ServiceAssumption DEF HandlerTypeOK, Draw, FreshSerial

\* Every step of the service is a command of the enrollment state machine or
\* leaves its state alone, and records at most one operation.
LEMMA ServiceStepImplements ==
    ASSUME HandlerTypeOK, CallsBound, [ServiceNext]_serviceVars
    PROVE  [EnrollmentsNext]_enrollVars /\ [AuditNext]_audit_log
<1>1. ASSUME NEW n \in NodeId, NEW hw \in HardwareIdentity, RegisterNodeRpc(n, hw)
      PROVE  EnrollmentsNext /\ UNCHANGED audit_log
  BY <1>1, Zenon DEF RegisterNodeRpc, EnrollmentsNext
<1>2. ASSUME NEW n \in NodeId, AssignmentRpc(n)
      PROVE  EnrollmentsNext /\ UNCHANGED audit_log
  BY <1>2, Zenon DEF AssignmentRpc, EnrollmentsNext
<1>3. ASSUME NEW c \in Call, EnrollActivate(c)
      PROVE  EnrollmentsNext /\ UNCHANGED audit_log
  <2>1. calls[c].node \in NodeId
    BY <1>3 DEF EnrollActivate, CallsBound, Bound
  <2>2. FreshSerial \in CertSerial /\ now \in Clock
    BY <1>3, DrawIsFresh DEF EnrollActivate, HandlerTypeOK
  <2>. QED BY <1>3, <2>1, <2>2, Zenon DEF EnrollActivate, EnrollmentsNext
<1>4. ASSUME NEW c \in Call, EnrollUpdateCert(c) \/ RenewWrite(c)
      PROVE  EnrollmentsNext /\ UNCHANGED audit_log
  <2>1. calls[c].node \in NodeId /\ calls[c].serial \in CertSerial /\ now \in Clock
    BY <1>4 DEF EnrollUpdateCert, RenewWrite, CallsBound, Bound, HandlerTypeOK
  <2>. QED BY <1>4, <2>1, Zenon DEF EnrollUpdateCert, RenewWrite, EnrollmentsNext
<1>5. ASSUME NEW c \in Call, DecommissionWrite(c)
      PROVE  EnrollmentsNext /\ UNCHANGED audit_log
  <2>1. calls[c].node \in NodeId
    BY <1>5 DEF DecommissionWrite, CallsBound, Bound
  <2>. QED BY <1>5, <2>1, Zenon DEF DecommissionWrite, EnrollmentsNext
<1>6. ASSUME NEW n \in NodeId, HeartbeatDeactivate(n)
      PROVE  EnrollmentsNext /\ UNCHANGED audit_log
  BY <1>6, Zenon DEF HeartbeatDeactivate, EnrollmentsNext
<1>7. ASSUME NEW c \in Call, EnrollSuccess(c) \/ EnrollRejected(c)
      PROVE  UNCHANGED enrollVars /\ [AuditNext]_audit_log
  <2>1. calls[c].node \in NodeId \cup {None}
    BY DEF HandlerTypeOK, CallRecord
  <2>2. \A o \in {"SUCCESS", "REJECTED"} :
           [node |-> calls[c].node, outcome |-> o] \in AdminOperation
    BY <2>1, ServiceAssumption
  <2>. QED BY <1>7, <2>2, Zenon DEF EnrollSuccess, EnrollRejected, AuditWrite, AuditNext
<1>8. ASSUME NEW c \in Call,
             \/ EnrollRefused(c) \/ EnrollSign(c) \/ EnrollUpdateLost(c)
             \/ RenewSwap(c) \/ CallEnds(c)
             \/ \E hw \in HardwareIdentity : EnrollLookup(c, hw)
             \/ \E n \in NodeId : RenewSign(c, n) \/ DecommissionRead(c, n)
      PROVE  UNCHANGED <<enrollVars, audit_log>>
  BY <1>8, Zenon DEF EnrollRefused, EnrollSign, EnrollUpdateLost, RenewSwap, CallEnds, EnrollLookup,
              RenewSign, DecommissionRead
<1>9. ASSUME HeartbeatScan \/ Tick \/ \E n \in NodeId : HeartbeatWriteFails(n)
      PROVE  UNCHANGED <<enrollVars, audit_log>>
  BY <1>9 DEF HeartbeatScan, Tick, HeartbeatWriteFails
<1>10. ASSUME UNCHANGED serviceVars
       PROVE  UNCHANGED <<enrollVars, audit_log>>
  BY <1>10 DEF serviceVars
<1>. QED
  BY <1>1, <1>2, <1>3, <1>4, <1>5, <1>6, <1>7, <1>8, <1>9, <1>10, Zenon DEF ServiceNext

\* A call that moves to a well-formed local state, with the serials and the
\* history typed, keeps the handlers' types.
LEMMA CallMoves ==
    ASSUME HandlerTypeOK, CallsBound, NEW c \in Call, NEW r \in CallRecord, Bound(r),
           calls' = [calls EXCEPT ![c] = r],
           drawn' \in 0..MaxCerts, history' \in HistoryRecord,
           agentCert' \in [NodeId -> CertSerial \cup {None}], UNCHANGED <<now, scan>>
    PROVE  HandlerTypeOK' /\ CallsBound'
  BY DEF HandlerTypeOK, CallsBound

\* The enrollment RPCs, step by step: which local state each leaves behind.
LEMMA CallStepType ==
    ASSUME EnrollmentsTypeOK, HandlerTypeOK, CallsBound, NEW c \in Call,
           \/ EnrollActivate(c) \/ EnrollRefused(c) \/ EnrollSign(c)
           \/ EnrollUpdateCert(c) \/ EnrollUpdateLost(c)
           \/ EnrollSuccess(c) \/ EnrollRejected(c)
           \/ RenewWrite(c) \/ RenewSwap(c) \/ DecommissionWrite(c) \/ CallEnds(c)
           \/ \E hw \in HardwareIdentity : EnrollLookup(c, hw)
           \/ \E n \in NodeId : RenewSign(c, n) \/ DecommissionRead(c, n)
    PROVE  HandlerTypeOK' /\ CallsBound'
<1>. DEFINE At(pc) == [calls[c] EXCEPT !.pc = pc]
<1>1. calls[c] \in CallRecord /\ Bound(calls[c])
  BY DEF HandlerTypeOK, CallsBound
<1>2. Idle \in CallRecord /\ Bound(Idle)
  BY DEF Idle, CallRecord, Bound
<1>3. ASSUME NEW pc, Goto(c, pc) PROVE calls' = [calls EXCEPT ![c] = At(pc)]
  BY <1>3 DEF Goto, HandlerTypeOK
<1>4. ASSUME EnrollRefused(c) \/ EnrollRejected(c) \/ DecommissionWrite(c) \/ CallEnds(c)
      PROVE  HandlerTypeOK' /\ CallsBound'
  <2>1. /\ calls' = [calls EXCEPT ![c] = Idle]
        /\ UNCHANGED <<now, drawn, scan, agentCert, history>>
    BY <1>4, Zenon DEF EnrollRefused, EnrollRejected, DecommissionWrite, CallEnds, Return
  <2>. QED BY <2>1, <1>2, CallMoves, Zenon DEF HandlerTypeOK
<1>5. ASSUME EnrollSuccess(c) \/ RenewSwap(c)
      PROVE  HandlerTypeOK' /\ CallsBound'
  <2>1. calls[c].serial \in CertSerial /\ calls[c].node \in NodeId
    BY <1>5, <1>1, Zenon DEF EnrollSuccess, RenewSwap, Bound
  <2>2. /\ calls' = [calls EXCEPT ![c] = Idle]
        /\ agentCert' = [agentCert EXCEPT ![calls[c].node] = calls[c].serial]
        /\ UNCHANGED <<now, drawn, scan, history>>
    BY <1>5, Zenon DEF EnrollSuccess, RenewSwap, Return
  <2>3. agentCert' \in [NodeId -> CertSerial \cup {None}]
    BY <2>1, <2>2, Zenon DEF HandlerTypeOK
  <2>. QED BY <2>2, <2>3, <1>2, CallMoves, Zenon DEF HandlerTypeOK
<1>6. ASSUME EnrollUpdateCert(c) \/ EnrollUpdateLost(c) \/ RenewWrite(c)
      PROVE  HandlerTypeOK' /\ CallsBound'
  <2>1. PICK pc \in {"audit_ok", "renew_answer"} : Goto(c, pc)
    BY <1>6, Zenon DEF EnrollUpdateCert, EnrollUpdateLost, RenewWrite
  <2>2. calls[c].serial \in CertSerial /\ calls[c].node \in NodeId
    BY <1>6, <1>1, Zenon DEF EnrollUpdateCert, EnrollUpdateLost, RenewWrite, Bound
  <2>3. At(pc) \in CallRecord /\ Bound(At(pc))
    BY <1>1, <2>2 DEF CallRecord, Bound
  <2>4. UNCHANGED <<now, drawn, scan, agentCert, history>>
    BY <1>6, Zenon DEF EnrollUpdateCert, EnrollUpdateLost, RenewWrite
  <2>. QED BY <2>1, <2>3, <2>4, <1>3, CallMoves, Zenon DEF HandlerTypeOK
<1>7. ASSUME EnrollActivate(c)
      PROVE  HandlerTypeOK' /\ CallsBound'
  <2>1. calls[c].node \in NodeId
    BY <1>7, <1>1, Zenon DEF EnrollActivate, Bound
  <2>2. At("sign") \in CallRecord /\ Bound(At("sign"))
    BY <1>1, <2>1 DEF CallRecord, Bound
  <2>3. history' = [history EXCEPT !.grants = [history.grants EXCEPT
                                       ![calls[c].node] = history.grants[calls[c].node] + 1]]
    BY <1>7, Zenon DEF EnrollActivate, HandlerTypeOK, HistoryRecord
  <2>4. history' \in HistoryRecord
    BY <2>1, <2>3 DEF HandlerTypeOK, HistoryRecord
  <2>. QED BY <1>7, <2>2, <2>4, <1>3, DrawIsFresh, CallMoves, Zenon DEF EnrollActivate, HandlerTypeOK
<1>8. ASSUME EnrollSign(c)
      PROVE  HandlerTypeOK' /\ CallsBound'
  <2>. DEFINE r == [calls[c] EXCEPT !.pc = "update", !.serial = FreshSerial]
  <2>1. calls[c].node \in NodeId /\ FreshSerial \in CertSerial
    BY <1>8, <1>1, DrawIsFresh, Zenon DEF EnrollSign, Bound
  <2>2. r \in CallRecord /\ Bound(r)
    BY <1>1, <2>1, Zenon DEF CallRecord, Bound
  <2>3. calls' = [calls EXCEPT ![c] = r]
    BY <1>8, Zenon DEF EnrollSign, HandlerTypeOK
  <2>4. history' = [owner |-> [history.owner EXCEPT ![FreshSerial] = calls[c].node],
                    grants |-> [history.grants EXCEPT
                                  ![calls[c].node] = history.grants[calls[c].node] - 1]]
    BY <1>8, Zenon DEF EnrollSign, HandlerTypeOK, HistoryRecord
  <2>5. history' \in HistoryRecord
    BY <2>1, <2>4 DEF HandlerTypeOK, HistoryRecord
  <2>. QED BY <1>8, <2>2, <2>3, <2>5, DrawIsFresh, CallMoves, Zenon DEF EnrollSign, HandlerTypeOK
<1>9. ASSUME NEW n \in NodeId, RenewSign(c, n)
      PROVE  HandlerTypeOK' /\ CallsBound'
  <2>1. PICK m \in NodeId :
           /\ Draw
           /\ calls' = [calls EXCEPT ![c] =
                           [pc |-> "renew_write", node |-> m, serial |-> FreshSerial]]
           /\ history' = [history EXCEPT !.owner[FreshSerial] = m]
           /\ UNCHANGED <<now, scan, agentCert>>
    BY <1>9, Zenon DEF RenewSign
  <2>. DEFINE r == [pc |-> "renew_write", node |-> m, serial |-> FreshSerial]
  <2>2. r \in CallRecord /\ Bound(r)
    BY <2>1, DrawIsFresh DEF CallRecord, Bound
  <2>3. history' = [history EXCEPT !.owner = [history.owner EXCEPT ![FreshSerial] = m]]
    BY <2>1 DEF HandlerTypeOK, HistoryRecord
  <2>4. history' \in HistoryRecord
    BY <2>1, <2>3 DEF HandlerTypeOK, HistoryRecord
  <2>. QED BY <2>1, <2>2, <2>4, DrawIsFresh, CallMoves, Zenon DEF HandlerTypeOK
<1>10. ASSUME NEW n \in NodeId, DecommissionRead(c, n)
       PROVE  HandlerTypeOK' /\ CallsBound'
  <2>1. [pc |-> "revoke", node |-> n, serial |-> None] \in CallRecord
    BY Zenon DEF CallRecord
  <2>2. Bound([pc |-> "revoke", node |-> n, serial |-> None])
    BY Zenon DEF Bound
  <2>. QED BY <1>10, <2>1, <2>2, CallMoves, Zenon DEF DecommissionRead, HandlerTypeOK
<1>11. ASSUME NEW hw \in HardwareIdentity, EnrollLookup(c, hw)
       PROVE  HandlerTypeOK' /\ CallsBound'
  <2>. DEFINE n == hw_index[hw_canonical_key(hw)]
  <2>1. n \in NodeId \cup {None}
    BY KeyType DEF EnrollmentsTypeOK
  <2>2. PICK pc \in {"audit_rejected", "activate"} :
           /\ calls' = [calls EXCEPT ![c] = [pc |-> pc, node |-> n, serial |-> None]]
           /\ n = None => pc = "audit_rejected"
    BY <1>11, Zenon DEF EnrollLookup
  <2>. HIDE DEF n
  <2>3. [pc |-> pc, node |-> n, serial |-> None] \in CallRecord
    BY <2>1 DEF CallRecord
  <2>4. Bound([pc |-> pc, node |-> n, serial |-> None])
    BY <2>1, <2>2, Zenon DEF Bound
  <2>. QED BY <1>11, <2>2, <2>3, <2>4, CallMoves, Zenon DEF EnrollLookup, HandlerTypeOK
<1>. QED BY <1>4, <1>5, <1>6, <1>7, <1>8, <1>9, <1>10, <1>11, Zenon

-----------------------------------------------------------------------------
\* A step that draws no serial, gives no record a serial it did not have and
\* signs for no handler keeps serials and owners apart.
LEMMA SerialsKept ==
    ASSUME HandlerTypeOK, SerialsDrawn, SerialIdentifiesNode,
           drawn' = drawn, history'.owner = history.owner,
           \A m \in NodeId : Enrolled(m)' =>
              \/ enrollments'[m].cert_serial = None
              \/ Enrolled(m) /\ enrollments'[m].cert_serial = enrollments[m].cert_serial,
           \A c \in Call : calls'[c].pc \in {"update", "renew_write"} => calls'[c] = calls[c]
    PROVE  SerialsDrawn' /\ SerialIdentifiesNode'
<1>1. \A n \in NodeId : Enrolled(n)' =>
         enrollments'[n].cert_serial \in (1..drawn') \cup {None}
  BY Zenon DEF SerialsDrawn
<1>2. SerialsDrawn'
  BY <1>1, Zenon DEF SerialsDrawn, Enrolled
<1>3. \A m, n \in NodeId :
         (m # n /\ Enrolled(m)' /\ Enrolled(n)' /\ enrollments'[m].cert_serial # None)
             => enrollments'[m].cert_serial # enrollments'[n].cert_serial
  BY DEF SerialIdentifiesNode
<1>4. \A n \in NodeId : Enrolled(n)' =>
         \A s \in CertSerial : enrollments'[n].cert_serial = s => history'.owner[s] \in {n, None}
  BY ServiceAssumption, NoneAssumption DEF SerialIdentifiesNode
<1>. QED BY <1>2, <1>3, <1>4, Zenon DEF SerialIdentifiesNode, Enrolled

\* Writing a serial nobody else's record holds and that is not another node's.
LEMMA SerialWritten ==
    ASSUME EnrollmentsTypeOK, HandlerTypeOK, SerialsDrawn, SerialIdentifiesNode,
           NEW n \in NodeId, NEW serial \in CertSerial, serial \in 1..drawn',
           drawn' \in Nat, drawn <= drawn', history'.owner = history.owner,
           history.owner[serial] \in {n, None},
           \A m \in NodeId \ {n} : Enrolled(m) => enrollments[m].cert_serial # serial,
           Enrolled(n), enrollments'[n].cert_serial = serial,
           \A m \in NodeId \ {n} : enrollments'[m] = enrollments[m],
           \A c \in Call : calls'[c].pc \in {"update", "renew_write"} => calls'[c] = calls[c]
    PROVE  SerialsDrawn' /\ SerialIdentifiesNode'
<1>. drawn \in Nat
  BY DEF HandlerTypeOK
<1>1. \A m \in NodeId : Enrolled(m)' =>
         enrollments'[m].cert_serial \in (1..drawn') \cup {None}
  BY DEF SerialsDrawn, Enrolled
<1>2. /\ \A s \in CertSerial : s > drawn' => history'.owner[s] = None
      /\ \A c \in Call : calls'[c].pc \in {"update", "renew_write"} =>
            calls'[c].serial \in 1..drawn' /\ history'.owner[calls'[c].serial] = calls'[c].node
  BY ServiceAssumption DEF SerialsDrawn
<1>3. SerialsDrawn'
  BY <1>1, <1>2, Zenon DEF SerialsDrawn, Enrolled
<1>4. \A k, m \in NodeId :
         (k # m /\ Enrolled(k)' /\ Enrolled(m)' /\ enrollments'[k].cert_serial # None)
             => enrollments'[k].cert_serial # enrollments'[m].cert_serial
  BY DEF SerialIdentifiesNode, Enrolled
<1>5. \A m \in NodeId : Enrolled(m)' =>
         \A s \in CertSerial : enrollments'[m].cert_serial = s => history'.owner[s] \in {m, None}
  BY Zenon DEF SerialIdentifiesNode, Enrolled
<1>. QED BY <1>3, <1>4, <1>5, Zenon DEF SerialIdentifiesNode, Enrolled

\* Signing: the new serial is in no record, and its handler holds it for m.
LEMMA SerialSigned ==
    ASSUME EnrollmentsTypeOK, HandlerTypeOK, SerialsDrawn, SerialIdentifiesNode,
           NEW m \in NodeId, NEW c \in Call, Draw, UNCHANGED enrollments,
           history'.owner = [history.owner EXCEPT ![FreshSerial] = m],
           calls'[c].serial = FreshSerial, calls'[c].node = m,
           \A d \in Call \ {c} : calls'[d] = calls[d]
    PROVE  SerialsDrawn' /\ SerialIdentifiesNode'
<1>1. /\ FreshSerial \in CertSerial /\ FreshSerial = drawn + 1 /\ drawn' = drawn + 1
      /\ drawn \in Nat
  BY DrawIsFresh, Zenon
<1>2. history.owner \in [CertSerial -> NodeId \cup {None}]
  BY Zenon DEF HandlerTypeOK, HistoryRecord
<1>3. \A s \in CertSerial : history'.owner[s] = IF s = drawn + 1 THEN m ELSE history.owner[s]
  BY <1>1, <1>2, Zenon
<1>4. \A n \in NodeId : Enrolled(n) => /\ enrollments[n].cert_serial \in (1..drawn) \cup {None}
                                       /\ enrollments[n].cert_serial # drawn + 1
  BY <1>1, NoneAssumption DEF SerialsDrawn
<1>5. \A n \in NodeId : Enrolled(n)' =>
         enrollments'[n].cert_serial \in (1..drawn') \cup {None}
  BY <1>1, <1>4 DEF Enrolled
<1>6. \A s \in CertSerial : s > drawn' => history'.owner[s] = None
  BY <1>1, <1>3, ServiceAssumption DEF SerialsDrawn
<1>7. ASSUME NEW d \in Call, calls'[d].pc \in {"update", "renew_write"}
      PROVE  calls'[d].serial \in 1..drawn' /\ history'.owner[calls'[d].serial] = calls'[d].node
  <2>1. CASE d = c
    BY <2>1, <1>1, <1>3
  <2>2. CASE d # c
    <3>1. /\ calls'[d] = calls[d] /\ calls[d].serial \in 1..drawn
          /\ history.owner[calls[d].serial] = calls[d].node
      BY <1>7, <2>2, Zenon DEF SerialsDrawn
    <3>2. calls[d].serial \in CertSerial
      BY <1>1, <3>1, ServiceAssumption
    <3>. QED BY <1>1, <1>3, <3>1, <3>2
  <2>. QED BY <2>1, <2>2, Zenon
<1>8. SerialsDrawn'
  BY <1>5, <1>6, <1>7, Zenon DEF SerialsDrawn, Enrolled
<1>9. \A n \in NodeId : Enrolled(n)' =>
         \A s \in CertSerial : enrollments'[n].cert_serial = s => history'.owner[s] \in {n, None}
  BY <1>3, <1>4, Zenon DEF SerialIdentifiesNode, Enrolled
<1>. QED BY <1>8, <1>9, Zenon DEF SerialIdentifiesNode, Enrolled

\* Commands that rewrite one record and leave its serial alone.
LEMMA SerialUntouched ==
    ASSUME EnrollmentsTypeOK, NEW n \in NodeId,
           \/ DeactivateNode(n) \/ RevokeNode(n) \/ UnassignNode(n)
           \/ \E v \in VClusterId : AssignNodeToVCluster(n, v) \/ MoveNodeVCluster(n, "", v)
           \/ \E hw \in HardwareIdentity : RegisterNode(n, hw)
    PROVE  \A m \in NodeId : Enrolled(m)' =>
              \/ enrollments'[m].cert_serial = None
              \/ Enrolled(m) /\ enrollments'[m].cert_serial = enrollments[m].cert_serial
<1>1. CASE \E hw \in HardwareIdentity : RegisterNode(n, hw)
  <2>1. PICK hw \in HardwareIdentity : enrollments' = [enrollments EXCEPT ![n] = NewEnrollment(hw)]
    BY <1>1, Zenon DEF RegisterNode
  <2>2. NewEnrollment(hw).cert_serial = None
    BY Zenon DEF NewEnrollment
  <2>. QED BY <2>1, <2>2, Zenon DEF EnrollmentsTypeOK, Enrolled
<1>2. CASE DeactivateNode(n) \/ RevokeNode(n)
  <2>1. Enrolled(n) /\ enrollments[n] \in NodeEnrollment
    BY <1>2, Zenon DEF DeactivateNode, RevokeNode, Enrolled, EnrollmentsTypeOK
  <2>2. PICK st : enrollments' = [enrollments EXCEPT ![n] = [enrollments[n] EXCEPT !.state = st]]
    BY <1>2, Zenon DEF DeactivateNode, RevokeNode, EnrollmentsTypeOK
  <2>. QED BY <2>1, <2>2, Zenon DEF EnrollmentsTypeOK, NodeEnrollment, Enrolled
<1>3. CASE \/ UnassignNode(n)
           \/ \E v \in VClusterId : AssignNodeToVCluster(n, v) \/ MoveNodeVCluster(n, "", v)
  <2>1. Enrolled(n) /\ enrollments[n] \in NodeEnrollment
    BY <1>3, Zenon DEF UnassignNode, AssignNodeToVCluster, MoveNodeVCluster, Enrolled, EnrollmentsTypeOK
  <2>2. PICK v : enrollments' = [enrollments EXCEPT ![n] = [enrollments[n] EXCEPT !.vcluster_id = v]]
    BY <1>3, Zenon DEF UnassignNode, AssignNodeToVCluster, MoveNodeVCluster, EnrollmentsTypeOK
  <2>. QED BY <2>1, <2>2, Zenon DEF EnrollmentsTypeOK, NodeEnrollment, Enrolled
<1>. QED BY <1>1, <1>2, <1>3, Zenon

\* No step gives a record another node's serial.
LEMMA SerialStep ==
    ASSUME ServiceInv, [ServiceNext]_serviceVars
    PROVE  SerialsDrawn' /\ SerialIdentifiesNode'
<1>. USE DEF ServiceInv, EnrollmentsInv
<1>. DEFINE Held(c) == calls'[c].pc \in {"update", "renew_write"} => calls'[c] = calls[c]
<1>1. ASSUME NEW n \in NodeId,
             \/ AssignmentRpc(n) \/ HeartbeatDeactivate(n)
             \/ \E hw \in HardwareIdentity : RegisterNodeRpc(n, hw)
      PROVE  SerialsDrawn' /\ SerialIdentifiesNode'
  <2>1. UNCHANGED <<drawn, calls, history>>
    BY <1>1, Zenon DEF AssignmentRpc, HeartbeatDeactivate, RegisterNodeRpc
  <2>2. \/ DeactivateNode(n) \/ UnassignNode(n)
        \/ \E v \in VClusterId : AssignNodeToVCluster(n, v) \/ MoveNodeVCluster(n, "", v)
        \/ \E hw \in HardwareIdentity : RegisterNode(n, hw)
    BY <1>1, Zenon DEF AssignmentRpc, HeartbeatDeactivate, RegisterNodeRpc
  <2>. QED BY <2>1, <2>2, SerialUntouched, SerialsKept, Zenon
<1>2. ASSUME NEW c \in Call, DecommissionWrite(c)
      PROVE  SerialsDrawn' /\ SerialIdentifiesNode'
  <2>1. RevokeNode(calls[c].node) /\ calls[c].node \in NodeId /\ UNCHANGED <<drawn, history>>
    BY <1>2, Zenon DEF DecommissionWrite, CallsBound, Bound
  <2>2. \A d \in Call : Held(d)
    BY <1>2, Zenon DEF DecommissionWrite, Return, Idle, HandlerTypeOK
  <2>. QED BY <2>1, <2>2, SerialUntouched, SerialsKept, Zenon
<1>3. ASSUME UNCHANGED <<enrollments, drawn, history>>, \A c \in Call : Held(c)
      PROVE  SerialsDrawn' /\ SerialIdentifiesNode'
  BY <1>3, SerialsKept, Zenon DEF Enrolled
<1>4. ASSUME NEW c \in Call,
             EnrollRefused(c) \/ EnrollSuccess(c) \/ EnrollRejected(c) \/ RenewSwap(c) \/ CallEnds(c)
      PROVE  SerialsDrawn' /\ SerialIdentifiesNode'
  <2>1. calls' = [calls EXCEPT ![c] = Idle] /\ UNCHANGED <<enrollVars, drawn, history>>
    BY <1>4, Zenon DEF EnrollRefused, EnrollSuccess, EnrollRejected, RenewSwap, CallEnds, Return
  <2>2. \A d \in Call : Held(d)
    BY <2>1, Zenon DEF Idle, HandlerTypeOK
  <2>. QED BY <2>1, <2>2, <1>3, Zenon DEF enrollVars
<1>5. ASSUME NEW c \in Call,
             \/ \E hw \in HardwareIdentity : EnrollLookup(c, hw)
             \/ \E n \in NodeId : DecommissionRead(c, n)
      PROVE  SerialsDrawn' /\ SerialIdentifiesNode'
  <2>1. /\ UNCHANGED <<enrollVars, drawn, history>>
        /\ \E pc \in {"audit_rejected", "activate", "revoke"} : \E n :
              calls' = [calls EXCEPT ![c] = [pc |-> pc, node |-> n, serial |-> None]]
    BY <1>5, Zenon DEF EnrollLookup, DecommissionRead
  <2>2. \A d \in Call : Held(d)
    BY <2>1 DEF HandlerTypeOK
  <2>. QED BY <2>1, <2>2, <1>3, Zenon DEF enrollVars
<1>6. ASSUME NEW c \in Call, EnrollUpdateLost(c)
      PROVE  SerialsDrawn' /\ SerialIdentifiesNode'
  <2>1. \A d \in Call : Held(d)
    BY <1>6 DEF EnrollUpdateLost, Goto, HandlerTypeOK, CallRecord
  <2>. QED BY <1>6, <2>1, <1>3, Zenon DEF EnrollUpdateLost, enrollVars
<1>7. ASSUME NEW c \in Call, EnrollUpdateCert(c) \/ RenewWrite(c)
      PROVE  SerialsDrawn' /\ SerialIdentifiesNode'
  <2>. DEFINE n == calls[c].node  serial == calls[c].serial
  <2>1. /\ n \in NodeId /\ serial \in CertSerial
        /\ serial \in 1..drawn /\ history.owner[serial] = n
    BY <1>7, Zenon DEF EnrollUpdateCert, RenewWrite, CallsBound, Bound, SerialsDrawn
  <2>2. UpdateNodeCert(n, serial, now) /\ UNCHANGED <<drawn, history>>
    BY <1>7, Zenon DEF EnrollUpdateCert, RenewWrite
  <2>3. PICK pc \in {"audit_ok", "renew_answer"} : calls' = [calls EXCEPT ![c].pc = pc]
    BY <1>7 DEF EnrollUpdateCert, RenewWrite, Goto
  <2>4. \A d \in Call : Held(d)
    BY <2>3 DEF HandlerTypeOK, CallRecord
  <2>5. \A m \in NodeId \ {n} : Enrolled(m) => enrollments[m].cert_serial # serial
    BY <2>1, NoneAssumption, Zenon DEF SerialIdentifiesNode
  <2>6. Enrolled(n) /\ enrollments[n] \in NodeEnrollment
    BY <2>1, <2>2, Zenon DEF UpdateNodeCert, Enrolled, EnrollmentsTypeOK
  <2>7. /\ enrollments'[n].cert_serial = serial
        /\ \A m \in NodeId \ {n} : enrollments'[m] = enrollments[m]
    BY <2>1, <2>2, <2>6, Zenon DEF UpdateNodeCert, EnrollmentsTypeOK, NodeEnrollment
  <2>8. drawn \in Nat
    BY DEF HandlerTypeOK
  <2>9. /\ serial \in 1..drawn' /\ drawn' \in Nat /\ drawn <= drawn'
        /\ history'.owner = history.owner /\ history.owner[serial] \in {n, None}
    BY <2>1, <2>2, <2>8
  <2>. HIDE DEF n, serial
  <2>. QED BY <2>1, <2>4, <2>5, <2>6, <2>7, <2>9, SerialWritten, Zenon
<1>8. ASSUME NEW c \in Call, EnrollActivate(c)
      PROVE  SerialsDrawn' /\ SerialIdentifiesNode'
  <2>. DEFINE n == calls[c].node
  <2>1. n \in NodeId /\ Draw /\ ActivateNode(n, FreshSerial, now)
    BY <1>8 DEF EnrollActivate, CallsBound, Bound
  <2>2. /\ FreshSerial \in CertSerial /\ FreshSerial = drawn + 1 /\ drawn' = drawn + 1
        /\ drawn \in Nat
    BY <2>1, DrawIsFresh
  <2>3. \A d \in Call : Held(d)
    BY <1>8 DEF EnrollActivate, Goto, HandlerTypeOK, CallRecord
  <2>4. history'.owner = history.owner
    BY <1>8 DEF EnrollActivate, HandlerTypeOK, HistoryRecord
  <2>5. history.owner[FreshSerial] = None
    BY <2>2 DEF SerialsDrawn
  <2>6. \A m \in NodeId \ {n} : Enrolled(m) => enrollments[m].cert_serial # FreshSerial
    BY <2>2, NoneAssumption DEF SerialsDrawn
  <2>7. Enrolled(n) /\ enrollments[n] \in NodeEnrollment
    BY <2>1, Zenon DEF ActivateNode, Activatable, Enrolled, EnrollmentsTypeOK
  <2>8. /\ enrollments'[n].cert_serial = FreshSerial
        /\ \A m \in NodeId \ {n} : enrollments'[m] = enrollments[m]
    BY <2>1, <2>7, Zenon DEF ActivateNode, EnrollmentsTypeOK, NodeEnrollment
  <2>9. FreshSerial \in 1..drawn' /\ drawn' \in Nat /\ drawn <= drawn'
    BY <2>2
  <2>10. n \in NodeId /\ FreshSerial \in CertSerial /\ history.owner[FreshSerial] \in {n, None}
    BY <2>1, <2>2, <2>5, Zenon
  <2>. HIDE DEF n
  <2>. QED BY <2>3, <2>4, <2>6, <2>7, <2>8, <2>9, <2>10, SerialWritten, Zenon
<1>9. ASSUME NEW c \in Call, EnrollSign(c)
      PROVE  SerialsDrawn' /\ SerialIdentifiesNode'
  <2>1. calls[c].node \in NodeId
    BY <1>9 DEF EnrollSign, CallsBound, Bound
  <2>2. history'.owner = [history.owner EXCEPT ![FreshSerial] = calls[c].node]
    BY <1>9 DEF EnrollSign, HandlerTypeOK, HistoryRecord
  <2>3. /\ calls'[c].serial = FreshSerial /\ calls'[c].node = calls[c].node
        /\ \A d \in Call \ {c} : calls'[d] = calls[d]
    BY <1>9 DEF EnrollSign, HandlerTypeOK, CallRecord
  <2>. QED BY <1>9, <2>1, <2>2, <2>3, SerialSigned, Zenon DEF EnrollSign, enrollVars
<1>10. ASSUME NEW c \in Call, NEW k \in NodeId, RenewSign(c, k)
       PROVE  SerialsDrawn' /\ SerialIdentifiesNode'
  <2>1. PICK m \in NodeId :
           /\ Draw
           /\ calls' = [calls EXCEPT ![c] =
                           [pc |-> "renew_write", node |-> m, serial |-> FreshSerial]]
           /\ history' = [history EXCEPT !.owner[FreshSerial] = m]
           /\ UNCHANGED enrollVars
    BY <1>10, Zenon DEF RenewSign
  <2>2. history'.owner = [history.owner EXCEPT ![FreshSerial] = m]
    BY <2>1 DEF HandlerTypeOK, HistoryRecord
  <2>3. /\ calls'[c].serial = FreshSerial /\ calls'[c].node = m
        /\ \A d \in Call \ {c} : calls'[d] = calls[d]
    BY <2>1 DEF HandlerTypeOK
  <2>. QED BY <2>1, <2>2, <2>3, SerialSigned DEF enrollVars
<1>11. ASSUME HeartbeatScan \/ Tick \/ UNCHANGED serviceVars \/ \E n \in NodeId : HeartbeatWriteFails(n)
       PROVE  SerialsDrawn' /\ SerialIdentifiesNode'
  BY <1>11, <1>3, Zenon DEF HeartbeatScan, Tick, serviceVars, HeartbeatWriteFails, enrollVars
<1>. QED
  BY <1>1, <1>2, <1>4, <1>5, <1>6, <1>7, <1>8, <1>9, <1>10, <1>11, Zenon DEF ServiceNext

-----------------------------------------------------------------------------
INSTANCE FiniteSetTheorems

\* A step after which no other handler is about to sign, and no grant is lost.
LEMMA GrantsKept ==
    ASSUME HandlerTypeOK, GrantsCover, history'.grants = history.grants,
           \A c \in Call : calls'[c].pc = "sign" => calls'[c] = calls[c]
    PROVE  GrantsCover'
<1>. SUFFICES ASSUME NEW n \in NodeId
              PROVE  history'.grants[n] >= Cardinality(Signers(n)')
  BY Zenon DEF GrantsCover
<1>1. Signers(n)' \subseteq Signers(n) /\ IsFiniteSet(Signers(n))
  BY ServiceAssumption, FS_Subset, Zenon DEF Signers
<1>2. Cardinality(Signers(n)') <= Cardinality(Signers(n))
  BY <1>1, FS_Subset, Zenon
<1>3. Cardinality(Signers(n)) \in Nat /\ Cardinality(Signers(n)') \in Nat
  BY <1>1, FS_Subset, FS_CardinalityType, Zenon
<1>. QED BY <1>2, <1>3 DEF GrantsCover, HandlerTypeOK, HistoryRecord

\* An accepted activation adds a grant and a signer, a signature uses both up.
LEMMA GrantStep ==
    ASSUME ServiceInv, [ServiceNext]_serviceVars
    PROVE  GrantsCover'
<1>. USE DEF ServiceInv
<1>. DEFINE Held(c) == calls'[c].pc = "sign" => calls'[c] = calls[c]
<1>1. history.grants \in [NodeId -> Int] /\ calls \in [Call -> CallRecord]
  BY Zenon DEF HandlerTypeOK, HistoryRecord
<1>2. \A n : IsFiniteSet(Signers(n)) /\ Cardinality(Signers(n)) \in Nat
  BY ServiceAssumption, FS_Subset, FS_CardinalityType, Zenon DEF Signers
<1>3. ASSUME NEW c \in Call, EnrollActivate(c)
      PROVE  GrantsCover'
  <2>. PICK n \in NodeId : n = calls[c].node
    BY <1>3, Zenon DEF EnrollActivate, CallsBound, Bound
  <2>1. c \notin Signers(n)
    BY <1>3, Zenon DEF EnrollActivate, Signers
  <2>2. history'.grants = [history.grants EXCEPT ![n] = history.grants[n] + 1]
    BY <1>3 DEF EnrollActivate, HandlerTypeOK, HistoryRecord
  <2>3. calls' = [calls EXCEPT ![c].pc = "sign"]
    BY <1>3, Zenon DEF EnrollActivate, Goto
  <2>4. Signers(n)' = Signers(n) \cup {c} /\ \A m \in NodeId \ {n} : Signers(m)' = Signers(m)
    BY <1>1, <2>3, ZenonT(30) DEF Signers, CallRecord
  <2>5. Cardinality(Signers(n)') = Cardinality(Signers(n)) + 1
    BY <2>1, <2>4, <1>2, FS_AddElement, ZenonT(30)
  <2>6. ASSUME NEW m \in NodeId PROVE history'.grants[m] >= Cardinality(Signers(m)')
    <3>1. history.grants[m] >= Cardinality(Signers(m)) /\ Cardinality(Signers(m)) \in Nat
      BY <1>2, Zenon DEF GrantsCover
    <3>2. CASE m = n
      BY <1>1, <2>2, <2>5, <3>1, <3>2
    <3>3. CASE m # n
      BY <1>1, <2>2, <2>4, <3>1, <3>3, Zenon
    <3>. QED BY <3>2, <3>3, Zenon
  <2>. QED BY <2>6, Zenon DEF GrantsCover
<1>4. ASSUME NEW c \in Call, EnrollSign(c)
      PROVE  GrantsCover'
  <2>. PICK n \in NodeId : n = calls[c].node
    BY <1>4, Zenon DEF EnrollSign, CallsBound, Bound
  <2>1. c \in Signers(n)
    BY <1>4 DEF EnrollSign, Signers
  <2>2. history'.grants = [history.grants EXCEPT ![n] = history.grants[n] - 1]
    BY <1>4 DEF EnrollSign, HandlerTypeOK, HistoryRecord
  <2>3. calls' = [calls EXCEPT ![c].pc = "update", ![c].serial = FreshSerial]
    BY <1>4 DEF EnrollSign
  <2>4. Signers(n)' = Signers(n) \ {c} /\ \A m \in NodeId \ {n} : Signers(m)' = Signers(m)
    BY <1>1, <2>3, ZenonT(30) DEF Signers, CallRecord
  <2>5. Cardinality(Signers(n)') = Cardinality(Signers(n)) - 1
    BY <2>1, <2>4, <1>2, FS_RemoveElement, ZenonT(30)
  <2>6. ASSUME NEW m \in NodeId PROVE history'.grants[m] >= Cardinality(Signers(m)')
    <3>1. history.grants[m] >= Cardinality(Signers(m)) /\ Cardinality(Signers(m)) \in Nat
      BY <1>2 DEF GrantsCover
    <3>2. CASE m = n
      BY <1>1, <2>2, <2>5, <3>1, <3>2
    <3>3. CASE m # n
      BY <1>1, <2>2, <2>4, <3>1, <3>3, Zenon
    <3>. QED BY <3>2, <3>3
  <2>. QED BY <2>6 DEF GrantsCover
<1>5. ASSUME NEW c \in Call,
             \/ EnrollRefused(c) \/ EnrollUpdateCert(c) \/ EnrollUpdateLost(c)
             \/ EnrollSuccess(c) \/ EnrollRejected(c)
             \/ RenewWrite(c) \/ RenewSwap(c) \/ DecommissionWrite(c) \/ CallEnds(c)
             \/ \E hw \in HardwareIdentity : EnrollLookup(c, hw)
             \/ \E n \in NodeId : DecommissionRead(c, n)
      PROVE  GrantsCover'
  <2>1. UNCHANGED history
    BY <1>5, Zenon DEF EnrollRefused, EnrollUpdateCert, EnrollUpdateLost, EnrollSuccess, EnrollRejected,
                RenewWrite, RenewSwap, DecommissionWrite, CallEnds, EnrollLookup, DecommissionRead
  <2>2. \/ calls' = [calls EXCEPT ![c] = Idle]
        \/ \E pc \in {"audit_ok", "renew_answer"} : calls' = [calls EXCEPT ![c].pc = pc]
        \/ \E pc \in {"audit_rejected", "activate", "revoke"} : \E n :
              calls' = [calls EXCEPT ![c] = [pc |-> pc, node |-> n, serial |-> None]]
    BY <1>5, Zenon DEF EnrollRefused, EnrollUpdateCert, EnrollUpdateLost, EnrollSuccess, EnrollRejected,
                RenewWrite, RenewSwap, DecommissionWrite, CallEnds, EnrollLookup, DecommissionRead,
                Goto, Return
  <2>3. \A d \in Call : Held(d)
    BY <1>1, <2>2 DEF Idle, CallRecord
  <2>. QED BY <2>1, <2>3, GrantsKept, Zenon
<1>6. ASSUME NEW c \in Call, NEW k \in NodeId, RenewSign(c, k)
      PROVE  GrantsCover'
  <2>1. PICK m \in NodeId :
           /\ calls' = [calls EXCEPT ![c] =
                           [pc |-> "renew_write", node |-> m, serial |-> FreshSerial]]
           /\ history' = [history EXCEPT !.owner[FreshSerial] = m]
    BY <1>6, Zenon DEF RenewSign
  <2>2. history'.grants = history.grants
    BY <2>1 DEF HandlerTypeOK, HistoryRecord
  <2>3. \A d \in Call : Held(d)
    BY <1>1, <2>1, Zenon
  <2>. QED BY <2>2, <2>3, GrantsKept, Zenon
<1>7. ASSUME UNCHANGED <<calls, history>>
      PROVE  GrantsCover'
  BY <1>7, GrantsKept, Zenon
<1>8. ASSUME \/ \E n \in NodeId, hw \in HardwareIdentity : RegisterNodeRpc(n, hw)
             \/ \E n \in NodeId : \/ AssignmentRpc(n) \/ HeartbeatDeactivate(n)
                                   \/ HeartbeatWriteFails(n)
             \/ HeartbeatScan \/ Tick \/ UNCHANGED serviceVars
      PROVE  UNCHANGED <<calls, history>>
  BY <1>8, Zenon DEF RegisterNodeRpc, AssignmentRpc, HeartbeatDeactivate, HeartbeatWriteFails,
              HeartbeatScan, Tick, serviceVars
<1>. QED BY <1>3, <1>4, <1>5, <1>6, <1>7, <1>8, Zenon DEF ServiceNext

-----------------------------------------------------------------------------
\* A fresh service has nothing drawn, no handler and no record.
LEMMA ServiceInvInit == ServiceInit => ServiceInv
<1>. SUFFICES ASSUME ServiceInit PROVE ServiceInv
  OBVIOUS
<1>1. EnrollmentsInv
  BY Zenon DEF ServiceInit, EnrollmentsInit, EnrollmentsInv, EnrollmentsTypeOK, HardwareUnique, Enrolled
<1>2. HandlerTypeOK /\ CallsBound
  BY ServiceAssumption, MaxClockAssumption
     DEF ServiceInit, HandlerTypeOK, CallsBound, Bound, Idle, CallRecord, HistoryRecord, Clock
<1>3. SerialsDrawn /\ SerialIdentifiesNode
  BY Zenon DEF ServiceInit, EnrollmentsInit, SerialsDrawn, SerialIdentifiesNode, Enrolled, Idle
<1>4. GrantsCover
  <2>. SUFFICES ASSUME NEW n \in NodeId PROVE history.grants[n] >= Cardinality(Signers(n))
    BY Zenon DEF GrantsCover
  <2>1. Signers(n) = {}
    BY Zenon DEF ServiceInit, Idle, Signers
  <2>2. history.grants[n] = 0 /\ Cardinality(Signers(n)) = 0
    BY <2>1, FS_EmptySet, Zenon DEF ServiceInit
  <2>. QED BY <2>2
<1>. QED BY <1>1, <1>2, <1>3, <1>4 DEF ServiceInv

\* Every step of the service keeps the invariant.
LEMMA ServiceInvNext == ServiceInv /\ [ServiceNext]_serviceVars => ServiceInv'
<1>. SUFFICES ASSUME ServiceInv, [ServiceNext]_serviceVars PROVE ServiceInv'
  OBVIOUS
<1>1. EnrollmentsInv'
  BY ServiceStepImplements, EnrollmentsStep DEF ServiceInv
<1>2. HandlerTypeOK' /\ CallsBound'
  <2>. USE DEF ServiceInv
  <2>1. CASE \/ \E n \in NodeId, hw \in HardwareIdentity : RegisterNodeRpc(n, hw)
             \/ \E n \in NodeId : \/ AssignmentRpc(n) \/ HeartbeatDeactivate(n)
                                   \/ HeartbeatWriteFails(n)
             \/ HeartbeatScan \/ UNCHANGED serviceVars
    <3>1. UNCHANGED <<now, drawn, calls, agentCert, history>> /\ scan' \subseteq NodeId
      BY <2>1, Zenon DEF RegisterNodeRpc, AssignmentRpc, HeartbeatDeactivate, HeartbeatWriteFails,
                  HeartbeatScan, serviceVars, HandlerTypeOK
    <3>. QED BY <3>1, Zenon DEF HandlerTypeOK, CallsBound
  <2>2. CASE Tick
    <3>1. now' \in Clock
      BY <2>2, MaxClockAssumption DEF Tick, HandlerTypeOK, Clock
    <3>. QED BY <2>2, <3>1, Zenon DEF Tick, HandlerTypeOK, CallsBound
  <2>. QED BY <2>1, <2>2, CallStepType, Zenon DEF ServiceNext, EnrollmentsInv
<1>. QED BY <1>1, <1>2, SerialStep, GrantStep, Zenon DEF ServiceInv

\* A command on another node's record, and one that writes other fields than the state,
\* leave a revoked node revoked.
LEMMA RevokedKept ==
    ASSUME EnrollmentsTypeOK, NEW n \in NodeId, Enrolled(n), enrollments[n].state = "Revoked",
           NEW m \in NodeId,
           \/ m # n /\ \E r : enrollments' = [enrollments EXCEPT ![m] = r]
           \/ \E r \in NodeEnrollment :
                 r.state = enrollments[m].state /\ enrollments' = [enrollments EXCEPT ![m] = r]
    PROVE  Enrolled(n)' /\ enrollments'[n].state = "Revoked"
<1>1. CASE m # n
  BY <1>1, Zenon DEF EnrollmentsTypeOK, Enrolled
<1>2. CASE m = n
  <2>1. PICK r \in NodeEnrollment :
           r.state = enrollments[n].state /\ enrollments' = [enrollments EXCEPT ![n] = r]
    BY <1>2, Zenon
  <2>. QED BY <2>1, EnrollmentNoneAssumption, Zenon DEF EnrollmentsTypeOK, Enrolled
<1>. QED BY <1>1, <1>2, Zenon

\* One case per write of the state machine.
LEMMA RevokedStays ==
    ASSUME ServiceInv, [ServiceNext]_serviceVars,
           NEW n \in NodeId, Enrolled(n), enrollments[n].state = "Revoked", n \notin scan
    PROVE  Enrolled(n)' /\ enrollments'[n].state = "Revoked"
<1>. USE DEF ServiceInv, EnrollmentsInv
<1>1. ASSUME NEW m \in NodeId, NEW hw \in HardwareIdentity, RegisterNodeRpc(m, hw)
      PROVE  Enrolled(n)' /\ enrollments'[n].state = "Revoked"
  BY <1>1, RevokedKept, Zenon DEF RegisterNodeRpc, RegisterNode, Registrable
<1>2. ASSUME NEW m \in NodeId, AssignmentRpc(m)
      PROVE  Enrolled(n)' /\ enrollments'[n].state = "Revoked"
  <2>1. PICK v \in VClusterId \cup {None} :
           Enrolled(m) /\ enrollments' = [enrollments EXCEPT ![m].vcluster_id = v]
    BY <1>2, Zenon DEF AssignmentRpc, AssignNodeToVCluster, MoveNodeVCluster, UnassignNode
  <2>2. enrollments[m] \in NodeEnrollment
    BY <2>1, Zenon DEF EnrollmentsTypeOK, Enrolled
  <2>3. [enrollments[m] EXCEPT !.vcluster_id = v] \in NodeEnrollment
    BY <2>2, Zenon DEF NodeEnrollment
  <2>4. [enrollments[m] EXCEPT !.vcluster_id = v].state = enrollments[m].state
    BY <2>2, Zenon DEF NodeEnrollment
  <2>. QED BY <2>1, <2>3, <2>4, RevokedKept, Zenon DEF EnrollmentsTypeOK
<1>3. ASSUME NEW c \in Call, EnrollActivate(c)
      PROVE  Enrolled(n)' /\ enrollments'[n].state = "Revoked"
  <2>1. calls[c].node \in NodeId /\ ActivateNode(calls[c].node, FreshSerial, now)
    BY <1>3, Zenon DEF EnrollActivate, CallsBound, Bound
  <2>2. calls[c].node # n
    BY <2>1, Zenon DEF ActivateNode, Activatable
  <2>. DEFINE r == [enrollments[calls[c].node] EXCEPT !.state = "Active",
                            !.cert_serial = FreshSerial, !.last_seen = now]
  <2>3. enrollments' = [enrollments EXCEPT ![calls[c].node] = r]
    BY <2>1, Zenon DEF ActivateNode, EnrollmentsTypeOK
  <2>. QED BY <2>1, <2>2, <2>3, RevokedKept, Zenon
<1>4. ASSUME NEW c \in Call, EnrollUpdateCert(c) \/ RenewWrite(c)
      PROVE  Enrolled(n)' /\ enrollments'[n].state = "Revoked"
  <2>. DEFINE m == calls[c].node
              r == [enrollments[m] EXCEPT !.cert_serial = calls[c].serial, !.last_seen = now]
  <2>1. /\ m \in NodeId /\ calls[c].serial \in CertSerial /\ now \in Clock
        /\ UpdateNodeCert(m, calls[c].serial, now)
    BY <1>4, Zenon DEF EnrollUpdateCert, RenewWrite, CallsBound, Bound, HandlerTypeOK
  <2>2. enrollments[m] \in NodeEnrollment /\ enrollments' = [enrollments EXCEPT ![m] = r]
    BY <2>1, Zenon DEF UpdateNodeCert, EnrollmentsTypeOK, Enrolled
  <2>3. now \in Nat
    BY <2>1, MaxClockAssumption DEF Clock
  <2>4. r \in NodeEnrollment /\ r.state = enrollments[m].state
    BY <2>1, <2>2, <2>3, Zenon DEF NodeEnrollment
  <2>. QED BY <2>1, <2>2, <2>4, RevokedKept, Zenon
<1>5. ASSUME NEW c \in Call, DecommissionWrite(c)
      PROVE  Enrolled(n)' /\ enrollments'[n].state = "Revoked"
  <2>. DEFINE m == calls[c].node
              r == [enrollments[m] EXCEPT !.state = "Revoked"]
  <2>1. m \in NodeId /\ RevokeNode(m)
    BY <1>5, Zenon DEF DecommissionWrite, CallsBound, Bound
  <2>2. enrollments[m] \in NodeEnrollment /\ enrollments' = [enrollments EXCEPT ![m] = r]
    BY <2>1, Zenon DEF RevokeNode, EnrollmentsTypeOK, Enrolled
  <2>3. CASE m = n
    <3>1. r \in NodeEnrollment /\ r.state = enrollments[m].state
      BY <2>2, <2>3, Zenon DEF NodeEnrollment, EnrollmentState
    <3>. QED BY <2>1, <2>2, <3>1, RevokedKept, Zenon
  <2>4. CASE m # n
    BY <2>1, <2>2, <2>4, RevokedKept, Zenon
  <2>. QED BY <2>3, <2>4, Zenon
<1>6. ASSUME NEW m \in NodeId, HeartbeatDeactivate(m)
      PROVE  Enrolled(n)' /\ enrollments'[n].state = "Revoked"
  <2>1. m # n /\ DeactivateNode(m)
    BY <1>6, Zenon DEF HeartbeatDeactivate
  <2>. QED BY <2>1, RevokedKept, Zenon DEF DeactivateNode, EnrollmentsTypeOK
<1>7. ASSUME UNCHANGED enrollments
      PROVE  Enrolled(n)' /\ enrollments'[n].state = "Revoked"
  BY <1>7, Zenon DEF Enrolled
<1>8. ASSUME NEW c \in Call,
             \/ EnrollRefused(c) \/ EnrollSign(c) \/ EnrollUpdateLost(c)
             \/ EnrollSuccess(c) \/ EnrollRejected(c) \/ RenewSwap(c) \/ CallEnds(c)
             \/ \E hw \in HardwareIdentity : EnrollLookup(c, hw)
             \/ \E m \in NodeId : RenewSign(c, m) \/ DecommissionRead(c, m)
      PROVE  UNCHANGED enrollments
  BY <1>8, Zenon DEF EnrollRefused, EnrollSign, EnrollUpdateLost, EnrollSuccess, EnrollRejected,
              RenewSwap, CallEnds, EnrollLookup, RenewSign, DecommissionRead, enrollVars
<1>9. ASSUME \/ HeartbeatScan \/ Tick \/ UNCHANGED serviceVars
             \/ \E m \in NodeId : HeartbeatWriteFails(m)
      PROVE  UNCHANGED enrollments
  BY <1>9, Zenon DEF HeartbeatScan, Tick, serviceVars, HeartbeatWriteFails, enrollVars
<1>. QED
  BY <1>1, <1>2, <1>3, <1>4, <1>5, <1>6, <1>7, <1>8, <1>9, Zenon DEF ServiceNext

\* In every reachable state of the service the records are typed and agree with the
\* hardware index, handlers know what they work on, serials are drawn before they
\* are used and every handler about to sign is covered by an activation.
THEOREM ServiceInvariant == ServiceSpec => []ServiceInv
  BY ServiceInvInit, ServiceInvNext, PTL DEF ServiceSpec

\* enroll: only the winners of the ActivateNode write get a signed certificate,
\* however many calls race for however many nodes.
THEOREM OnlyWinnersSign == ServiceSpec => []OneCertPerActivation
<1>1. ServiceInv => OneCertPerActivation
  <2>. SUFFICES ASSUME ServiceInv, NEW n \in NodeId PROVE history.grants[n] >= 0
    BY Zenon DEF OneCertPerActivation
  <2>1. Cardinality(Signers(n)) \in Nat
    BY ServiceAssumption, FS_Subset, FS_CardinalityType, Zenon DEF Signers
  <2>. QED BY <2>1 DEF ServiceInv, GrantsCover, HandlerTypeOK, HistoryRecord
<1>. QED BY <1>1, ServiceInvariant, PTL

\* renew_cert: the serial an agent presents is in one record at most, that of the
\* node it was signed for.
THEOREM SerialsFindTheirNode == ServiceSpec => []SerialIdentifiesNode
<1>1. ServiceInv => SerialIdentifiesNode
  BY DEF ServiceInv
<1>. QED BY <1>1, ServiceInvariant, PTL

\* Decommissioning is permanent, whatever handlers checked before it, but for a node the
\* monitor had collected.
THEOREM RevocationsHold == ServiceSpec => RevocationHolds
<1>1. ServiceInv /\ [ServiceNext]_serviceVars =>
         [\A n \in NodeId :
             (Enrolled(n) /\ enrollments[n].state = "Revoked" /\ n \notin scan) =>
                 Enrolled(n)' /\ enrollments'[n].state = "Revoked"]_serviceVars
  BY RevokedStays, Zenon
<1>. QED BY <1>1, ServiceInvariant, PTL DEF ServiceSpec, RevocationHolds

\* The handlers move the replicated state only by commands of the enrollment state
\* machine, and the audit log by RecordOperation.
THEOREM ServiceRefinement == ServiceSpec => ImplementsEnrollments /\ AuditSpec
<1>1. ServiceInit => EnrollmentsInit /\ AuditInit
  BY Zenon DEF ServiceInit
<1>2. ServiceInv /\ [ServiceNext]_serviceVars => [EnrollmentsNext]_enrollVars /\ [AuditNext]_audit_log
  BY ServiceStepImplements DEF ServiceInv
<1>. QED
  BY <1>1, <1>2, ServiceInvariant, PTL
     DEF ServiceSpec, ImplementsEnrollments, EnrollmentsSpec, AuditSpec

\* E2 under concurrent handlers: one node per hardware key.
THEOREM ServiceHardwareUnique == ServiceSpec => []HardwareUnique
  BY ServiceRefinement, OneNodePerHardware, PTL DEF ImplementsEnrollments
=============================================================================
