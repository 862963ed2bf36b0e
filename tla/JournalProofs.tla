--------------------------- MODULE JournalProofs ----------------------------
(***************************************************************************)
(* Proofs about the journal's replicated state, for every set of nodes,    *)
(* vClusters, principals, requests, identities and serials and every       *)
(* bound: the configuration log, the approvals, the enrollments and the    *)
(* capped audit log, and the whole state machine.  It implements each of   *)
(* its parts, so what is proved of a part holds of the journal: a command  *)
(* of another part is a stutter.                                           *)
(***************************************************************************)
EXTENDS Journal, TLAPS

-----------------------------------------------------------------------------
(* The configuration log.  The inductive invariant is the type invariant   *)
(* with EntriesContiguous; ParentsPrecede and EntriesValid need it because *)
(* apply compares a parent with next_sequence and never looks it up.       *)

LogInv ==
    /\ ConfigLogTypeOK
    /\ EntriesContiguous
    /\ ParentsPrecede
    /\ EntriesValid

\* The empty log of JournalState::default satisfies the invariant.
LEMMA LogInvInit == ConfigLogInit => LogInv
  BY DEF ConfigLogInit, LogInv, ConfigLogTypeOK, EntriesContiguous, ParentsPrecede, EntriesValid

\* What AppendEntry stores is a ConfigEntry.
LEMMA SequencedType ==
    ASSUME NEW e \in EntryInput, NEW seq \in Nat
    PROVE  Sequenced(e, seq) \in ConfigEntry
  BY DEF EntryInput, Sequenced, ConfigEntry

\* AppendEntry keeps the log contiguous, typed, parented and validated.
LEMMA AppendPreserves ==
    ASSUME LogInv, NEW e \in EntryInput, AppendEntry(e)
    PROVE  LogInv'
<1>1. Sequenced(e, next_sequence) \in ConfigEntry
  BY SequencedType DEF LogInv, ConfigLogTypeOK
<1>2. next_sequence \in Nat /\ next_sequence' \in Nat /\ next_sequence' = next_sequence + 1
  BY DEF LogInv, ConfigLogTypeOK, AppendEntry
<1>3. DOMAIN entries' = DOMAIN entries \cup {next_sequence}
  BY DEF AppendEntry
<1>4. \A s \in DOMAIN entries' :
         entries'[s] = IF s = next_sequence THEN Sequenced(e, next_sequence) ELSE entries[s]
  BY <1>3 DEF AppendEntry
<1>5. ConfigLogTypeOK'
  BY <1>1, <1>2, <1>3, <1>4 DEF LogInv, ConfigLogTypeOK, AppendEntry
<1>6. EntriesContiguous'
  <2>1. DOMAIN entries' = 0..(next_sequence' - 1)
    BY <1>2, <1>3 DEF LogInv, EntriesContiguous
  <2>2. \A s \in DOMAIN entries' : entries'[s].sequence = s
    BY <1>3, <1>4 DEF LogInv, EntriesContiguous, Sequenced
  <2>. QED BY <2>1, <2>2 DEF EntriesContiguous
<1>7. ParentsPrecede'
  <2>. SUFFICES ASSUME NEW s \in DOMAIN entries', entries'[s].parent # None
                PROVE  entries'[s].parent \in DOMAIN entries' /\ entries'[s].parent < s
    BY DEF ParentsPrecede
  <2>1. CASE s = next_sequence
    <3>1. entries'[s].parent = e.parent
      BY <2>1, <1>4 DEF Sequenced
    <3>2. e.parent # None
      BY <3>1
    <3>3. e.parent \in 0..MaxEntries
      BY <3>2 DEF EntryInput
    <3>4. e.parent < next_sequence
      BY <3>2, Zenon DEF AppendEntry, EntryValid
    <3>5. e.parent \in Nat
      BY <3>3
    <3>. QED BY <2>1, <3>1, <3>4, <3>5, <1>2, <1>3 DEF LogInv, EntriesContiguous
  <2>2. CASE s # next_sequence
    BY <2>2, <1>3, <1>4 DEF LogInv, ParentsPrecede
  <2>. QED BY <2>1, <2>2
<1>8. EntriesValid'
  <2>. SUFFICES ASSUME NEW s \in DOMAIN entries'
                PROVE  /\ entries'[s].author.principal # "" /\ entries'[s].author.role # ""
                       /\ entries'[s].ttl_seconds # None =>
                             entries'[s].ttl_seconds = 0
                               \/ entries'[s].ttl_seconds \in TTL_MIN_SECONDS..TTL_MAX_SECONDS
    BY Zenon DEF EntriesValid
  <2>1. CASE s = next_sequence
    <3>1. /\ entries'[s].author = e.author
          /\ entries'[s].ttl_seconds = e.ttl_seconds
      BY <2>1, <1>4 DEF Sequenced
    <3>2. e.ttl_seconds # None => e.ttl_seconds \in Nat
      <4>1. e.ttl_seconds \in Ttl \cup {None}
        BY DEF EntryInput
      <4>. QED BY <4>1, TtlAssumption, Zenon
    <3>3. EntryValid(e)
      BY DEF AppendEntry
    <3>4. e.author.principal # "" /\ e.author.role # ""
      BY <3>3, Zenon DEF EntryValid
    <3>5. ASSUME e.ttl_seconds # None
          PROVE  e.ttl_seconds = 0 \/ e.ttl_seconds \in TTL_MIN_SECONDS..TTL_MAX_SECONDS
      <4>1. /\ ~(e.ttl_seconds > 0 /\ e.ttl_seconds < TTL_MIN_SECONDS)
            /\ e.ttl_seconds <= TTL_MAX_SECONDS
        BY <3>3, <3>5, Zenon DEF EntryValid
      <4>2. e.ttl_seconds \in Nat
        BY <3>2, <3>5
      <4>. QED BY <4>1, <4>2, TtlAssumption
    <3>. QED BY <3>1, <3>4, <3>5, Zenon
  <2>2. CASE s # next_sequence
    BY <2>2, <1>3, <1>4, Zenon DEF LogInv, EntriesValid
  <2>. QED BY <2>1, <2>2, Zenon
<1>. QED BY <1>5, <1>6, <1>7, <1>8 DEF LogInv

\* No command breaks the invariant: the others leave the log alone.
LEMMA LogInvStep == LogInv /\ [ConfigLogNext]_configVars => LogInv'
<1>. SUFFICES ASSUME LogInv, [ConfigLogNext]_configVars PROVE LogInv'
  OBVIOUS
<1>. USE DEF LogInv, EntriesContiguous, ParentsPrecede, EntriesValid
<1>1. ASSUME NEW e \in EntryInput, AppendEntry(e) PROVE LogInv'
  BY <1>1, AppendPreserves, Zenon
<1>2. ASSUME NEW n \in NodeId, NEW st \in ConfigState, UpdateNodeState(n, st) PROVE LogInv'
  BY <1>2, Zenon DEF UpdateNodeState, ConfigLogTypeOK
<1>3. ASSUME NEW v \in VClusterId, NEW p \in Policy, SetPolicy(v, p) PROVE LogInv'
  BY <1>3, Zenon DEF SetPolicy, ConfigLogTypeOK
<1>4. ASSUME NEW v \in VClusterId, NEW o \in BootOverlay, SetOverlay(v, o) PROVE LogInv'
  BY <1>4, Zenon DEF SetOverlay, ConfigLogTypeOK
<1>5. ASSUME UNCHANGED configVars PROVE LogInv'
  BY <1>5, Zenon DEF configVars, ConfigLogTypeOK
<1>. QED
  BY <1>1, <1>2, <1>3, <1>4, <1>5, Zenon DEF ConfigLogNext, AppendEntryRefused, SetOverlayRefused

\* J1, J3, J4: in every reachable state the log is contiguous, parented, validated.
THEOREM LogInvariant == ConfigLogSpec => []LogInv
  BY LogInvInit, LogInvStep, PTL DEF ConfigLogSpec

\* J1 on its own, as the runs check it.
THEOREM Contiguity == ConfigLogSpec => []EntriesContiguous
<1>1. LogInv => EntriesContiguous
  BY DEF LogInv
<1>. QED BY <1>1, LogInvariant, PTL

\* J4 on its own, as the runs check it.
THEOREM ParentChain == ConfigLogSpec => []ParentsPrecede
<1>1. LogInv => ParentsPrecede
  BY DEF LogInv
<1>. QED BY <1>1, LogInvariant, PTL

\* J2: no command rewrites or removes an entry, because a new one goes under a
\* sequence number that is not in use.
THEOREM Immutability == ConfigLogSpec => EntriesImmutable
<1>1. ASSUME LogInv, [ConfigLogNext]_configVars
      PROVE  [\A s \in DOMAIN entries :
                 s \in DOMAIN entries' /\ entries'[s] = entries[s]]_configVars
  <2>1. ASSUME NEW e \in EntryInput, AppendEntry(e), NEW s \in DOMAIN entries
        PROVE  s \in DOMAIN entries' /\ entries'[s] = entries[s]
    <3>1. s # next_sequence
      BY <1>1 DEF LogInv, EntriesContiguous, ConfigLogTypeOK
    <3>. QED BY <2>1, <3>1 DEF AppendEntry
  <2>2. ASSUME entries' = entries
        PROVE  \A s \in DOMAIN entries : s \in DOMAIN entries' /\ entries'[s] = entries[s]
    BY <2>2
  <2>. QED
    BY <1>1, <2>1, <2>2 DEF ConfigLogNext, AppendEntryRefused, UpdateNodeState, SetPolicy,
       SetOverlay, SetOverlayRefused, configVars
<1>. QED BY <1>1, LogInvariant, PTL DEF ConfigLogSpec, EntriesImmutable

\* Readers of EntryLog see an append-only log: the refinement ImplementsLog.
THEOREM Refinement == ConfigLogSpec => ImplementsLog
<1>1. ConfigLogInit => Log!Init
  BY DEF ConfigLogInit, Log!Init, EntryLog
<1>2. ASSUME LogInv, [ConfigLogNext]_configVars
      PROVE  [Log!Append1]_EntryLog
  <2>0. next_sequence \in Nat /\ DOMAIN entries = 0..(next_sequence - 1)
    BY <1>2 DEF LogInv, ConfigLogTypeOK, EntriesContiguous
  <2>1. ASSUME NEW e \in EntryInput, AppendEntry(e) PROVE Log!Append1
    <3>1. next_sequence' = next_sequence + 1
      BY <2>1 DEF AppendEntry
    <3>2. Len(EntryLog) = next_sequence /\ Len(EntryLog') = next_sequence + 1
      BY <2>0, <3>1 DEF EntryLog
    <3>3. EntryLog'[next_sequence + 1] \in ConfigEntry
      <4>1. EntryLog'[next_sequence + 1] = entries'[next_sequence]
        BY <2>0, <3>1 DEF EntryLog
      <4>2. entries'[next_sequence] = Sequenced(e, next_sequence)
        BY <2>1 DEF AppendEntry
      <4>. QED BY <4>1, <4>2, <2>0, SequencedType
    <3>4. ASSUME NEW i \in 1..Len(EntryLog) PROVE EntryLog'[i] = EntryLog[i]
      <4>1. i \in 1..next_sequence /\ i \in 1..next_sequence'
        BY <3>1, <3>2, <2>0
      <4>2. i - 1 \in DOMAIN entries /\ i - 1 # next_sequence
        BY <4>1, <2>0
      <4>3. entries'[i - 1] = entries[i - 1]
        BY <4>2, <2>1 DEF AppendEntry
      <4>. QED BY <4>1, <4>3 DEF EntryLog
    <3>. QED BY <3>2, <3>3, <3>4 DEF Log!Append1
  <2>2. ASSUME entries' = entries, next_sequence' = next_sequence
        PROVE  EntryLog' = EntryLog
    BY <2>2 DEF EntryLog
  <2>. QED
    BY <1>2, <2>1, <2>2 DEF ConfigLogNext, AppendEntryRefused, UpdateNodeState, SetPolicy,
       SetOverlay, SetOverlayRefused, configVars
<1>. QED BY <1>1, <1>2, LogInvariant, PTL DEF ConfigLogSpec, ImplementsLog, Log!Spec

-----------------------------------------------------------------------------
(* Approvals.  TwoPersons is inductive with the type invariant: an         *)
(* undecided request has no approver, so a decision can only write an      *)
(* approver that Decidable compared with the requester.                    *)

ApprovalsInv == ApprovalsTypeOK /\ TwoPersons

\* A new request is a PendingApproval.
LEMMA NewApprovalType ==
    ASSUME NEW p \in Principal, NEW t \in Nat
    PROVE  NewApproval(p, t) \in PendingApproval
  BY DEF NewApproval, PendingApproval

\* Creating a request keeps the invariant: it is pending and has no approver.
LEMMA CreatePreserves ==
    ASSUME ApprovalsInv, NEW a \in ApprovalId, NEW p \in Principal, NEW t \in Nat,
           CreateApproval(a, NewApproval(p, t))
    PROVE  ApprovalsInv'
<1>1. NewApproval(p, t) \in PendingApproval
  BY NewApprovalType
<1>2. ApprovalsTypeOK'
  BY <1>1 DEF ApprovalsInv, ApprovalsTypeOK, CreateApproval
<1>3. TwoPersons'
  <2>. SUFFICES ASSUME NEW b \in ApprovalId, pending_approvals'[b] # None
                PROVE  /\ pending_approvals'[b].status = "Pending"
                            <=> pending_approvals'[b].approver = None
                       /\ pending_approvals'[b].approver # pending_approvals'[b].requester
    BY DEF TwoPersons
  <2>1. CASE b = a
    <3>1. pending_approvals'[b] = NewApproval(p, t)
      BY <2>1 DEF CreateApproval, ApprovalsInv, ApprovalsTypeOK
    <3>2. None # p
      BY NoneAssumption
    <3>. QED BY <3>1, <3>2 DEF NewApproval
  <2>2. CASE b # a
    <3>1. pending_approvals'[b] = pending_approvals[b]
      BY <2>2 DEF CreateApproval, ApprovalsInv, ApprovalsTypeOK
    <3>. QED BY <3>1, Zenon DEF ApprovalsInv, TwoPersons
  <2>. QED BY <2>1, <2>2
<1>. QED BY <1>2, <1>3 DEF ApprovalsInv

\* Deciding keeps the invariant: the approver is not the requester.
LEMMA DecidePreserves ==
    ASSUME ApprovalsInv, NEW a \in ApprovalId, NEW p \in Principal, NEW d \in Decision,
           DecideApproval(a, p, d)
    PROVE  ApprovalsInv'
<1>1. /\ pending_approvals[a] \in PendingApproval
      /\ pending_approvals[a].requester # p
  BY DEF ApprovalsInv, ApprovalsTypeOK, DecideApproval, Decidable
<1>2. pending_approvals' =
        [pending_approvals EXCEPT ![a] = [pending_approvals[a] EXCEPT !.status = d, !.approver = p]]
  BY Zenon DEF DecideApproval, ApprovalsInv, ApprovalsTypeOK
<1>3. [pending_approvals[a] EXCEPT !.status = d, !.approver = p] \in PendingApproval
  BY <1>1, Zenon DEF PendingApproval
<1>4. ApprovalsTypeOK'
  BY <1>2, <1>3 DEF ApprovalsInv, ApprovalsTypeOK
<1>5. TwoPersons'
  <2>. SUFFICES ASSUME NEW b \in ApprovalId, pending_approvals'[b] # None
                PROVE  /\ pending_approvals'[b].status = "Pending"
                            <=> pending_approvals'[b].approver = None
                       /\ pending_approvals'[b].approver # pending_approvals'[b].requester
    BY DEF TwoPersons
  <2>1. CASE b = a
    <3>1. pending_approvals'[b] = [pending_approvals[a] EXCEPT !.status = d, !.approver = p]
      BY <2>1, <1>2 DEF ApprovalsInv, ApprovalsTypeOK
    <3>2. /\ pending_approvals'[b].status = d
          /\ pending_approvals'[b].approver = p
          /\ pending_approvals'[b].requester = pending_approvals[a].requester
      BY <3>1, <1>1 DEF PendingApproval
    <3>3. p # None /\ d # "Pending"
      BY NoneAssumption DEF Decision
    <3>. QED BY <3>2, <3>3, <1>1
  <2>2. CASE b # a
    <3>1. pending_approvals'[b] = pending_approvals[b]
      BY <2>2, <1>2 DEF ApprovalsInv, ApprovalsTypeOK
    <3>. QED BY <3>1, Zenon DEF ApprovalsInv, TwoPersons
  <2>. QED BY <2>1, <2>2, Zenon
<1>. QED BY <1>4, <1>5 DEF ApprovalsInv

\* P4 in every reachable state, for every set of principals and requests.
THEOREM ApprovalsInvariant == ApprovalsSpec => []ApprovalsInv
<1>1. ApprovalsInit => ApprovalsInv
  BY DEF ApprovalsInit, ApprovalsInv, ApprovalsTypeOK, TwoPersons
<1>2. ApprovalsInv /\ [ApprovalsNext]_pending_approvals => ApprovalsInv'
  <2>1. ASSUME ApprovalsInv, UNCHANGED pending_approvals PROVE ApprovalsInv'
    BY <2>1, Zenon DEF ApprovalsInv, ApprovalsTypeOK, TwoPersons
  <2>2. Time \subseteq Nat
    BY MaxTimeAssumption DEF Time
  <2>. QED BY <2>1, <2>2, CreatePreserves, DecidePreserves DEF ApprovalsNext, DecideApprovalRefused
<1>. QED BY <1>1, <1>2, PTL DEF ApprovalsSpec

\* P4 alone, as the runs check it.
THEOREM TwoPersonRule == ApprovalsSpec => []TwoPersons
<1>1. ApprovalsInv => TwoPersons
  BY DEF ApprovalsInv
<1>. QED BY <1>1, ApprovalsInvariant, PTL

\* The first decision applied to a request is the last one.
THEOREM FirstDecisionStands == ApprovalsSpec => DecisionsFinal
<1>. DEFINE Final(a) ==
       pending_approvals[a] # None =>
          /\ pending_approvals'[a] # None
          /\ pending_approvals[a].status # "Pending" =>
                 pending_approvals'[a] = pending_approvals[a]
          /\ pending_approvals'[a].requester = pending_approvals[a].requester
          /\ pending_approvals'[a].expires_at = pending_approvals[a].expires_at
<1>1. ASSUME ApprovalsInv, [ApprovalsNext]_pending_approvals
      PROVE  [\A a \in ApprovalId : Final(a)]_pending_approvals
  <2>1. ASSUME NEW b \in ApprovalId, NEW p \in Principal, NEW t \in Time,
               pending_approvals[b] = None, CreateApproval(b, NewApproval(p, t)),
               NEW a \in ApprovalId
        PROVE  Final(a)
    <3>1. CASE a = b
      BY <3>1, <2>1, Zenon
    <3>2. CASE a # b
      BY <3>2, <2>1, <1>1, Zenon DEF CreateApproval, ApprovalsInv, ApprovalsTypeOK
    <3>. QED BY <3>1, <3>2, Zenon
  <2>2. ASSUME NEW b \in ApprovalId, NEW p \in Principal, NEW d \in Decision,
               DecideApproval(b, p, d), NEW a \in ApprovalId
        PROVE  Final(a)
    <3>1. CASE a = b
      <4>1. /\ pending_approvals[a] \in PendingApproval
            /\ pending_approvals[a].status = "Pending"
        BY <3>1, <2>2, <1>1 DEF DecideApproval, Decidable, ApprovalsInv, ApprovalsTypeOK
      <4>2. pending_approvals'[a] = [pending_approvals[a] EXCEPT !.status = d, !.approver = p]
        BY <3>1, <2>2, <1>1 DEF DecideApproval, ApprovalsInv, ApprovalsTypeOK
      <4>3. pending_approvals'[a] \in PendingApproval
        BY <4>1, <4>2, Zenon DEF PendingApproval
      <4>. QED BY <4>1, <4>2, <4>3, ApprovalNoneAssumption, Zenon DEF PendingApproval
    <3>2. CASE a # b
      BY <3>2, <2>2, <1>1 DEF DecideApproval, ApprovalsInv, ApprovalsTypeOK
    <3>. QED BY <3>1, <3>2
  <2>. QED
    BY <1>1, <2>1, <2>2, Zenon DEF ApprovalsNext, DecideApprovalRefused
<1>. QED BY <1>1, ApprovalsInvariant, PTL DEF ApprovalsSpec, DecisionsFinal

-----------------------------------------------------------------------------
(* Enrollments.  HardwareUnique is inductive with the type invariant: only *)
(* RegisterNode writes the index or a hardware identity, and it checks the *)
(* node and the key in the step that adds both.                            *)

EnrollmentsInv == EnrollmentsTypeOK /\ HardwareUnique

\* The canonical key of a hardware identity is a key of the index.
LEMMA KeyType ==
    ASSUME NEW hw \in HardwareIdentity
    PROVE  hw_canonical_key(hw) \in HwKey
<1>1. hw.mac_address \in Mac /\ hw.bmc_serial \in Bmc \cup {None}
  BY DEF HardwareIdentity
<1>2. Lower[hw.mac_address] \in Mac \cup Bmc
  BY <1>1, LowerAssumption
<1>3. CASE hw.bmc_serial \in {None, ""}
  BY <1>2, <1>3, Zenon DEF hw_canonical_key, HwKey
<1>4. CASE hw.bmc_serial \notin {None, ""}
  <2>1. Lower[hw.bmc_serial] \in Mac \cup Bmc
    BY <1>1, <1>4, LowerAssumption, Zenon
  <2>. QED BY <1>2, <1>4, <2>1, Zenon DEF hw_canonical_key, HwKey
<1>. QED BY <1>3, <1>4, Zenon

\* A step that rewrites one record and keeps its hardware identity, the index and
\* the registry keeps the invariant: every command but RegisterNode is one.
LEMMA RewritePreserves ==
    ASSUME EnrollmentsInv, NEW n \in NodeId, Enrolled(n), NEW r \in NodeEnrollment,
           r.hardware_identity = enrollments[n].hardware_identity,
           enrollments' = [enrollments EXCEPT ![n] = r],
           hw_index' = hw_index,
           node_assignments' \in [NodeId -> VClusterId \cup {None}],
           revoked_serials' = revoked_serials
    PROVE  EnrollmentsInv'
<1>1. EnrollmentsTypeOK'
  BY Zenon DEF EnrollmentsInv, EnrollmentsTypeOK
<1>2. \A m \in NodeId : /\ Enrolled(m)' <=> Enrolled(m)
                        /\ Enrolled(m) => enrollments'[m].hardware_identity
                                            = enrollments[m].hardware_identity
  BY EnrollmentNoneAssumption DEF EnrollmentsInv, EnrollmentsTypeOK, Enrolled
<1>3. HardwareUnique'
  <2>1. ASSUME NEW m \in NodeId, Enrolled(m)'
        PROVE  hw_index'[hw_canonical_key(enrollments'[m].hardware_identity)] = m
    BY <2>1, <1>2, ZenonT(30) DEF EnrollmentsInv, HardwareUnique, hw_canonical_key
  <2>2. ASSUME NEW k \in HwKey, hw_index'[k] # None
        PROVE  /\ Enrolled(hw_index[k])'
               /\ hw_canonical_key(enrollments'[hw_index'[k]].hardware_identity) = k
    <3>1. hw_index[k] \in NodeId
      BY <2>2 DEF EnrollmentsInv, EnrollmentsTypeOK
    <3>2. /\ Enrolled(hw_index[k])
          /\ hw_canonical_key(enrollments[hw_index[k]].hardware_identity) = k
      BY <2>2 DEF EnrollmentsInv, HardwareUnique
    <3>3. enrollments'[hw_index[k]].hardware_identity = enrollments[hw_index[k]].hardware_identity
      BY <3>1, <3>2, <1>2, Zenon
    <3>4. enrollments'[hw_index[k]] # None
      BY <3>1, <3>2, <1>2, Zenon DEF Enrolled
    <3>. QED BY <3>2, <3>3, <3>4, Zenon DEF Enrolled
  <2>. QED BY <2>1, <2>2, Zenon DEF HardwareUnique, Enrolled
<1>. QED BY <1>1, <1>3 DEF EnrollmentsInv

\* RegisterNode adds a node and its key together, both unused.
LEMMA RegisterPreserves ==
    ASSUME EnrollmentsInv, NEW n \in NodeId, NEW hw \in HardwareIdentity, RegisterNode(n, hw)
    PROVE  EnrollmentsInv'
<1>. DEFINE key == hw_canonical_key(hw)
<1>1. key \in HwKey
  BY KeyType
<1>2. enrollments[n] = None /\ hw_index[key] = None
  BY DEF RegisterNode, Registrable, Enrolled
<1>3. NewEnrollment(hw) \in NodeEnrollment
  BY DEF NewEnrollment, NodeEnrollment, EnrollmentState
<1>4. NewEnrollment(hw).hardware_identity = hw
  BY DEF NewEnrollment
<1>5. /\ enrollments' = [enrollments EXCEPT ![n] = NewEnrollment(hw)]
      /\ hw_index' = [hw_index EXCEPT ![key] = n]
      /\ UNCHANGED <<node_assignments, revoked_serials>>
  BY DEF RegisterNode
<1>. HIDE DEF key
<1>6. EnrollmentsTypeOK'
  BY <1>1, <1>3, <1>5 DEF EnrollmentsInv, EnrollmentsTypeOK
<1>7. HardwareUnique'
  <2>1. ASSUME NEW m \in NodeId, enrollments'[m] # None
        PROVE  hw_index'[hw_canonical_key(enrollments'[m].hardware_identity)] = m
    <3>1. CASE m = n
      <4>1. enrollments'[m].hardware_identity = hw
        BY <3>1, <1>4, <1>5 DEF EnrollmentsInv, EnrollmentsTypeOK
      <4>. QED BY <4>1, <3>1, <1>1, <1>5 DEF key, EnrollmentsInv, EnrollmentsTypeOK
    <3>2. CASE m # n
      <4>1. enrollments'[m] = enrollments[m]
        BY <3>2, <1>5 DEF EnrollmentsInv, EnrollmentsTypeOK
      <4>2. hw_index[hw_canonical_key(enrollments[m].hardware_identity)] = m
        BY <2>1, <4>1, Zenon DEF EnrollmentsInv, HardwareUnique, Enrolled
      <4>3. enrollments[m].hardware_identity \in HardwareIdentity
        BY <2>1, <4>1, Zenon DEF EnrollmentsInv, EnrollmentsTypeOK, NodeEnrollment
      <4>4. hw_canonical_key(enrollments[m].hardware_identity) \in HwKey
        BY <4>3, KeyType
      <4>5. hw_canonical_key(enrollments[m].hardware_identity) # key
        BY <4>2, <1>2, NoneAssumption
      <4>. QED BY <4>1, <4>2, <4>4, <4>5, <1>5, Zenon DEF EnrollmentsInv, EnrollmentsTypeOK
    <3>. QED BY <3>1, <3>2, Zenon
  <2>2. ASSUME NEW k \in HwKey, hw_index'[k] # None
        PROVE  /\ enrollments'[hw_index'[k]] # None
               /\ hw_canonical_key(enrollments'[hw_index'[k]].hardware_identity) = k
    <3>1. CASE k = key
      <4>1. hw_index'[k] = n
        BY <3>1, <1>1, <1>5 DEF EnrollmentsInv, EnrollmentsTypeOK
      <4>2. enrollments'[n] = NewEnrollment(hw)
        BY <1>5 DEF EnrollmentsInv, EnrollmentsTypeOK
      <4>. QED BY <4>1, <4>2, <3>1, <1>3, <1>4, EnrollmentNoneAssumption, Zenon DEF key
    <3>2. CASE k # key
      <4>1. hw_index'[k] = hw_index[k]
        BY <3>2, <1>5 DEF EnrollmentsInv, EnrollmentsTypeOK
      <4>2. /\ enrollments[hw_index[k]] # None
            /\ hw_canonical_key(enrollments[hw_index[k]].hardware_identity) = k
        BY <2>2, <4>1, Zenon DEF EnrollmentsInv, HardwareUnique, Enrolled
      <4>3. hw_index[k] # n
        BY <4>2, <1>2, Zenon
      <4>4. hw_index[k] \in NodeId
        BY <2>2, <4>1 DEF EnrollmentsInv, EnrollmentsTypeOK
      <4>5. enrollments'[hw_index[k]] = enrollments[hw_index[k]]
        BY <4>3, <4>4, <1>5, Zenon DEF EnrollmentsInv, EnrollmentsTypeOK
      <4>. QED BY <4>1, <4>2, <4>5, Zenon
    <3>. QED BY <3>1, <3>2, Zenon
  <2>. QED BY <2>1, <2>2, Zenon DEF HardwareUnique, Enrolled
<1>. QED BY <1>6, <1>7 DEF EnrollmentsInv

\* Every command preserves the invariant.
LEMMA EnrollmentsStep ==
    ASSUME EnrollmentsInv, [EnrollmentsNext]_enrollVars
    PROVE  EnrollmentsInv'
<1>1. ASSUME UNCHANGED enrollVars PROVE EnrollmentsInv'
  BY <1>1, Zenon DEF enrollVars, EnrollmentsInv, EnrollmentsTypeOK, HardwareUnique, Enrolled
<1>2. ASSUME NEW n \in NodeId, Enrolled(n)
      PROVE  enrollments[n] \in NodeEnrollment
  BY <1>2 DEF EnrollmentsInv, EnrollmentsTypeOK, Enrolled
<1>. USE DEF EnrollmentState
<1>3. ASSUME NEW n \in NodeId, NEW serial \in CertSerial, NEW t \in Clock,
             ActivateNode(n, serial, t)
      PROVE  EnrollmentsInv'
  <2>. DEFINE r == [enrollments[n] EXCEPT !.state = "Active", !.cert_serial = serial,
                                          !.last_seen = t]
  <2>1. Enrolled(n) /\ t \in Nat
    BY <1>3, MaxClockAssumption DEF ActivateNode, Activatable, Clock
  <2>2. r \in NodeEnrollment
    BY <2>1, <1>2, Zenon DEF NodeEnrollment
  <2>3. r.hardware_identity = enrollments[n].hardware_identity
    BY <2>1, <1>2 DEF NodeEnrollment
  <2>4. enrollments' = [enrollments EXCEPT ![n] = r]
    BY <1>3, Zenon DEF ActivateNode, EnrollmentsInv, EnrollmentsTypeOK
  <2>. QED
    BY <1>3, <2>1, <2>2, <2>3, <2>4, RewritePreserves, Zenon
       DEF ActivateNode, EnrollmentsInv, EnrollmentsTypeOK
<1>4. ASSUME NEW n \in NodeId, NEW serial \in CertSerial, NEW t \in Clock,
             UpdateNodeCert(n, serial, t)
      PROVE  EnrollmentsInv'
  <2>. DEFINE r == [enrollments[n] EXCEPT !.cert_serial = serial, !.last_seen = t]
  <2>1. Enrolled(n) /\ t \in Nat
    BY <1>4, MaxClockAssumption DEF UpdateNodeCert, Clock
  <2>2. r \in NodeEnrollment
    BY <2>1, <1>2, Zenon DEF NodeEnrollment
  <2>3. r.hardware_identity = enrollments[n].hardware_identity
    BY <2>1, <1>2 DEF NodeEnrollment
  <2>4. enrollments' = [enrollments EXCEPT ![n] = r]
    BY <1>4, Zenon DEF UpdateNodeCert, EnrollmentsInv, EnrollmentsTypeOK
  <2>. QED
    BY <1>4, <2>1, <2>2, <2>3, <2>4, RewritePreserves, Zenon
       DEF UpdateNodeCert, EnrollmentsInv, EnrollmentsTypeOK
<1>5. ASSUME NEW n \in NodeId, DeactivateNode(n) \/ RevokeNode(n)
      PROVE  EnrollmentsInv'
  <2>1. Enrolled(n) /\ enrollments[n] \in NodeEnrollment
    BY <1>5, <1>2 DEF DeactivateNode, RevokeNode
  <2>2. PICK st \in EnrollmentState :
          enrollments' = [enrollments EXCEPT ![n] = [enrollments[n] EXCEPT !.state = st]]
    BY <1>5 DEF DeactivateNode, RevokeNode, EnrollmentsInv, EnrollmentsTypeOK
  <2>3. [enrollments[n] EXCEPT !.state = st] \in NodeEnrollment
    BY <2>1 DEF NodeEnrollment
  <2>4. [enrollments[n] EXCEPT !.state = st].hardware_identity = enrollments[n].hardware_identity
    BY <2>1 DEF NodeEnrollment
  <2>. QED
    BY <1>5, <2>1, <2>2, <2>3, <2>4, RewritePreserves, Zenon
       DEF DeactivateNode, RevokeNode, EnrollmentsInv, EnrollmentsTypeOK
<1>6. ASSUME NEW n \in NodeId, NEW v \in VClusterId \cup {None}, Enrolled(n),
             enrollments' = [enrollments EXCEPT ![n].vcluster_id = v],
             node_assignments' = [node_assignments EXCEPT ![n] = v],
             UNCHANGED <<hw_index, revoked_serials>>
      PROVE  EnrollmentsInv'
  <2>. DEFINE r == [enrollments[n] EXCEPT !.vcluster_id = v]
  <2>1. r \in NodeEnrollment /\ r.hardware_identity = enrollments[n].hardware_identity
    BY <1>6, <1>2 DEF NodeEnrollment
  <2>2. enrollments' = [enrollments EXCEPT ![n] = r]
    BY <1>6 DEF EnrollmentsInv, EnrollmentsTypeOK
  <2>3. node_assignments' \in [NodeId -> VClusterId \cup {None}]
    BY <1>6 DEF EnrollmentsInv, EnrollmentsTypeOK
  <2>. QED BY <1>6, <2>1, <2>2, <2>3, RewritePreserves, Zenon
<1>7. ASSUME NEW n \in NodeId, NEW t \in Clock \cup {None}, UpdateNodeLastSeen(n, t)
      PROVE  EnrollmentsInv'
  <2>. DEFINE r == [enrollments[n] EXCEPT !.last_seen = t]
  <2>1. Enrolled(n) /\ t \in Nat \cup {None}
    BY <1>7, MaxClockAssumption DEF UpdateNodeLastSeen, Clock
  <2>2. r \in NodeEnrollment /\ r.hardware_identity = enrollments[n].hardware_identity
    BY <2>1, <1>2 DEF NodeEnrollment
  <2>3. enrollments' = [enrollments EXCEPT ![n] = r]
    BY <1>7 DEF UpdateNodeLastSeen, EnrollmentsInv, EnrollmentsTypeOK
  <2>. QED
    BY <1>7, <2>1, <2>2, <2>3, RewritePreserves, Zenon
       DEF UpdateNodeLastSeen, EnrollmentsInv, EnrollmentsTypeOK
<1>8. ASSUME NEW n \in NodeId, NEW v \in VClusterId, AssignNode(n, v)
      PROVE  EnrollmentsInv'
  BY <1>8, Zenon DEF AssignNode, EnrollmentsInv, EnrollmentsTypeOK, HardwareUnique, Enrolled
<1>. QED
  BY <1>1, <1>3, <1>4, <1>5, <1>6, <1>7, <1>8, RegisterPreserves, Zenon
     DEF EnrollmentsNext, AssignNodeToVCluster, UnassignNode, MoveNodeVCluster, EnrollmentRefused

\* E2 with the type invariant, in every reachable state of the state machine.
THEOREM EnrollmentsInvariant == EnrollmentsSpec => []EnrollmentsInv
<1>1. EnrollmentsInit => EnrollmentsInv
  BY Zenon DEF EnrollmentsInit, EnrollmentsInv, EnrollmentsTypeOK, HardwareUnique, Enrolled
<1>. QED BY <1>1, EnrollmentsStep, PTL DEF EnrollmentsSpec

\* E2 alone, as the runs check it: the index and the records agree.
THEOREM OneNodePerHardware == EnrollmentsSpec => []HardwareUnique
<1>1. EnrollmentsInv => HardwareUnique
  BY DEF EnrollmentsInv
<1>. QED BY <1>1, EnrollmentsInvariant, PTL

-----------------------------------------------------------------------------
(* The audit log and the state machine.                                    *)

\* The capped audit log keeps its type; Len and SubSeq stay within AdminOperation.
LEMMA AuditStep ==
    ASSUME AuditTypeOK, AuditBounded, [AuditNext]_audit_log
    PROVE  AuditTypeOK' /\ AuditBounded'
<1>1. ASSUME NEW op \in AdminOperation, RecordOperation(op)
      PROVE  AuditTypeOK' /\ AuditBounded'
  <2>. DEFINE pushed == Append(audit_log, op)
  <2>1. pushed \in Seq(AdminOperation) /\ Len(pushed) = Len(audit_log) + 1
    BY DEF AuditTypeOK
  <2>2. Len(audit_log) \in Nat
    BY DEF AuditTypeOK
  <2>. HIDE DEF pushed
  <2>3. CASE Len(pushed) > AUDIT_LOG_MAX
    <3>1. Len(pushed) = AUDIT_LOG_MAX + 1
      BY <2>1, <2>2, <2>3, AuditAssumption DEF AuditBounded
    <3>2. audit_log' = SubSeq(pushed, 2, Len(pushed))
      BY <1>1, <2>3, <3>1, AuditAssumption DEF RecordOperation, DrainFront, pushed
    <3>3. SubSeq(pushed, 2, Len(pushed)) \in Seq(AdminOperation)
      BY <2>1, <3>1, AuditAssumption
    <3>4. Len(SubSeq(pushed, 2, Len(pushed))) = AUDIT_LOG_MAX
      BY <2>1, <3>1, AuditAssumption
    <3>. QED BY <3>2, <3>3, <3>4, AuditAssumption DEF AuditTypeOK, AuditBounded
  <2>4. CASE ~(Len(pushed) > AUDIT_LOG_MAX)
    <3>1. audit_log' = pushed
      BY <1>1, <2>4 DEF RecordOperation, pushed
    <3>. QED BY <3>1, <2>1, <2>2, <2>4, AuditAssumption DEF AuditTypeOK, AuditBounded
  <2>. QED BY <2>3, <2>4
<1>. QED BY <1>1 DEF AuditNext, AuditTypeOK, AuditBounded

\* F22: the audit log never holds more than AUDIT_LOG_MAX operations.
THEOREM AuditCap == AuditSpec => []AuditBounded
<1>1. AuditInit => AuditTypeOK /\ AuditBounded
  BY AuditAssumption DEF AuditInit, AuditTypeOK, AuditBounded
<1>. QED BY <1>1, AuditStep, PTL DEF AuditSpec

\* RecordOperation drops exactly the oldest operation of a full log, whatever the cap.
THEOREM AuditKeepsOrder == AuditSpec => AuditKeepsNewest
<1>1. ASSUME AuditTypeOK, AuditBounded, NEW op \in AdminOperation, RecordOperation(op)
      PROVE  LET kept == Len(audit_log') - 1
             IN  /\ kept = IF Len(audit_log) < AUDIT_LOG_MAX THEN Len(audit_log)
                           ELSE AUDIT_LOG_MAX - 1
                 /\ \A i \in 1..kept : audit_log'[i] = audit_log[Len(audit_log) - kept + i]
  <2>1. PICK n \in Nat : n = Len(audit_log)
    BY <1>1 DEF AuditTypeOK
  <2>a. Append(audit_log, op) \in Seq(AdminOperation)
    BY <1>1 DEF AuditTypeOK
  <2>2. PICK pushed \in Seq(AdminOperation) : pushed = Append(audit_log, op)
    BY <2>a, Zenon
  <2>3. /\ Len(pushed) = n + 1 /\ n <= AUDIT_LOG_MAX
        /\ \A i \in 1..n : pushed[i] = audit_log[i]
    BY <1>1, <2>1, <2>2 DEF AuditTypeOK, AuditBounded
  <2>4. CASE n < AUDIT_LOG_MAX
    <3>1. audit_log' = pushed
      BY <1>1, <2>2, <2>3, <2>4, AuditAssumption DEF RecordOperation
    <3>2. Len(audit_log') - 1 = n
      BY <3>1, <2>3
    <3>3. \A i \in 1..n : audit_log'[i] = audit_log[n - n + i]
      BY <3>1, <2>3
    <3>. QED BY <3>2, <3>3, <2>1, <2>4
  <2>5. CASE n = AUDIT_LOG_MAX
    <3>1. audit_log' = SubSeq(pushed, 2, n + 1)
      BY <1>1, <2>2, <2>3, <2>5, AuditAssumption DEF RecordOperation, DrainFront
    <3>2. Len(audit_log') = n /\ \A i \in 1..n : audit_log'[i] = pushed[i + 1]
      BY <3>1, <2>3, <2>5, AuditAssumption
    <3>3. \A i \in 1..(n - 1) : audit_log'[i] = audit_log[n - (n - 1) + i]
      <4>1. ASSUME NEW i \in 1..(n - 1) PROVE audit_log'[i] = audit_log[i + 1]
        BY <3>2, <2>3
      <4>. QED BY <4>1
    <3>. QED BY <3>2, <3>3, <2>1, <2>5, AuditAssumption
  <2>. QED BY <2>3, <2>4, <2>5, AuditAssumption
<1>2. ASSUME AuditTypeOK, AuditBounded, [AuditNext]_audit_log
      PROVE  [LET kept == Len(audit_log') - 1
              IN  /\ kept = IF Len(audit_log) < AUDIT_LOG_MAX THEN Len(audit_log)
                            ELSE AUDIT_LOG_MAX - 1
                  /\ \A i \in 1..kept :
                        audit_log'[i] = audit_log[Len(audit_log) - kept + i]]_audit_log
  BY <1>1, <1>2 DEF AuditNext
<1>3. AuditInit => AuditTypeOK /\ AuditBounded
  BY AuditAssumption DEF AuditInit, AuditTypeOK, AuditBounded
<1>. QED BY <1>2, <1>3, AuditStep, PTL DEF AuditSpec, AuditKeepsNewest

\* Every behaviour of the state machine is one of each of its parts.
THEOREM JournalImplementsParts ==
    JournalSpec => ConfigLogSpec /\ AuditSpec /\ ApprovalsSpec /\ EnrollmentsSpec
<1>1. JournalInit => ConfigLogInit /\ AuditInit /\ ApprovalsInit /\ EnrollmentsInit
  BY DEF JournalInit
<1>2. [JournalNext]_journalVars =>
         /\ [ConfigLogNext]_configVars
         /\ [AuditNext]_audit_log
         /\ [ApprovalsNext]_pending_approvals
         /\ [EnrollmentsNext]_enrollVars
  BY DEF JournalNext, journalVars
<1>. QED
  BY <1>1, <1>2, PTL DEF JournalSpec, ConfigLogSpec, AuditSpec, ApprovalsSpec, EnrollmentsSpec

\* Type correctness of the journal's replicated state.
THEOREM JournalTypeCorrect == JournalSpec => []JournalTypeOK
<1>1. LogInv /\ AuditTypeOK /\ ApprovalsInv /\ EnrollmentsInv => JournalTypeOK
  BY DEF LogInv, ApprovalsInv, EnrollmentsInv, JournalTypeOK
<1>2. AuditInit => AuditTypeOK /\ AuditBounded
  BY AuditAssumption DEF AuditInit, AuditTypeOK, AuditBounded
<1>3. AuditSpec => []AuditTypeOK
  BY <1>2, AuditStep, PTL DEF AuditSpec
<1>. QED
  BY <1>1, <1>3, JournalImplementsParts, LogInvariant, ApprovalsInvariant,
     EnrollmentsInvariant, PTL

\* The journal's main guarantees together: J1-J4, the audit log, P4, E2.
THEOREM JournalSafety ==
    JournalSpec => /\ [](EntriesContiguous /\ ParentsPrecede /\ AuditBounded
                           /\ TwoPersons /\ HardwareUnique)
                   /\ EntriesImmutable /\ ImplementsLog /\ DecisionsFinal
                   /\ AuditKeepsNewest
  BY JournalImplementsParts, Contiguity, ParentChain, AuditCap, TwoPersonRule,
     OneNodePerHardware, Immutability, Refinement, FirstDecisionStands, AuditKeepsOrder, PTL

=============================================================================
