----------------------------- MODULE IdentityMap -----------------------------
(***************************************************************************)
(* POSIX identities: the UidMap (pact-common/src/types.rs) that gives the  *)
(* subjects of federated organisations user ids, the IdentityManager of    *)
(* the agent (pact-agent/src/identity.rs) that writes each map it receives *)
(* into passwd.db and group.db, and the NSS module (pact-nss/src/lib.rs)   *)
(* that answers a process from the file as it first read it.  A user is    *)
(* its id; group ids are computed like user ids.                           *)
(***************************************************************************)
EXTENDS Integers, FiniteSets

CONSTANTS
    Org,
    Subject,
    OrgOf,          \* Subject -> its organisation
    OrgIndexes,     \* indexes given on joining the federation
    base_uid,
    stride,
    UID_WIDTH       \* 2^32: an id is a u32

ASSUME IdentityAssumption ==
    /\ OrgOf \in [Subject -> Org] /\ OrgIndexes \subseteq Nat
    /\ base_uid \in Nat /\ stride \in Nat \ {0} /\ UID_WIDTH \in Nat \ {0}
    /\ \A i \in OrgIndexes : base_uid + (i + 1) * stride <= UID_WIDTH

VARIABLES
    uid_map,        \* [users, org_indices, next_uid_offset]
    manager,        \* [pc, users]: the agent's copy while it writes it
    passwd_db,      \* the users of the file; nobody when there is none
    PASSWD_CACHE,   \* of one process: <<>>, or <<users>>
    departed        \* organisations that have left; each leaves at most once

identityVars == <<uid_map, manager, passwd_db, PASSWD_CACHE, departed>>

NoId == -1
NoUsers == [s \in Subject |-> NoId]

UserEntries == [Subject -> 0..(UID_WIDTH - 1) \cup {NoId}]

IdentityTypeOK ==
    /\ uid_map \in [users : UserEntries, org_indices : [Org -> OrgIndexes \cup {NoId}],
                    next_uid_offset : [Org -> 0..stride]]
    /\ manager \in [pc : {"idle", "passwd", "group"}, users : UserEntries]
    /\ passwd_db \in UserEntries
    /\ PASSWD_CACHE \in {<<>>} \cup {<<users>> : users \in UserEntries}
    /\ departed \subseteq Org

IdentityInit ==
    /\ uid_map = [users |-> NoUsers, org_indices |-> [o \in Org |-> NoId],
                  next_uid_offset |-> [o \in Org |-> 0]]
    /\ manager = [pc |-> "idle", users |-> NoUsers]
    /\ passwd_db = NoUsers
    /\ PASSWD_CACHE = <<>>
    /\ departed = {}

uid_precursor(i) == (base_uid + i * stride) % UID_WIDTH

-----------------------------------------------------------------------------
\* Joining the federation takes an index that no member has.
OrgJoins(o, i) ==
    /\ uid_map.org_indices[o] = NoId /\ \A p \in Org : uid_map.org_indices[p] # i
    /\ uid_map' = [uid_map EXCEPT !.org_indices[o] = i]
    /\ UNCHANGED <<manager, passwd_db, PASSWD_CACHE, departed>>

\* Variant for sensitivity checks: one id more than the range has.
RangeExhausted_OffByOne(offset) == offset > stride

RangeExhausted(offset) == offset >= stride

\* A subject that has an id keeps it; an unknown organisation and an exhausted range
\* are errors.
assign_uid(s) ==
    LET o == OrgOf[s]
        offset == uid_map.next_uid_offset[o]
    IN  /\ uid_map.users[s] = NoId
        /\ uid_map.org_indices[o] # NoId /\ ~RangeExhausted(offset)
        /\ uid_map' = [uid_map EXCEPT
               !.users[s] = (uid_precursor(uid_map.org_indices[o]) + offset) % UID_WIDTH,
               !.next_uid_offset[o] = offset + 1]
        /\ UNCHANGED <<manager, passwd_db, PASSWD_CACHE, departed>>

\* The members of groups are compared with the users that are left, none of whom is of
\* the organisation, so the groups stay as they are.
gc_org(o) ==
    /\ uid_map.org_indices[o] # NoId /\ o \notin departed
    /\ uid_map' = [users |-> [s \in Subject |-> IF OrgOf[s] = o THEN NoId ELSE uid_map.users[s]],
                   org_indices |-> [uid_map.org_indices EXCEPT ![o] = NoId],
                   next_uid_offset |-> [uid_map.next_uid_offset EXCEPT ![o] = 0]]
    /\ departed' = departed \cup {o}
    /\ UNCHANGED <<manager, passwd_db, PASSWD_CACHE>>

-----------------------------------------------------------------------------
\* update_map takes a copy and starts write_db_files.
update_map ==
    /\ manager.pc = "idle"
    /\ manager' = [pc |-> "passwd", users |-> uid_map.users]
    /\ UNCHANGED <<uid_map, passwd_db, PASSWD_CACHE, departed>>

\* write_db_files: passwd.db, then group.db; the rename at the end of write_atomic is
\* the step that readers see.
write_db_files ==
    \/ /\ manager.pc = "passwd"
       /\ passwd_db' = manager.users
       /\ manager' = [pc |-> "group", users |-> NoUsers]
       /\ UNCHANGED <<uid_map, PASSWD_CACHE, departed>>
    \/ /\ manager.pc = "group"
       /\ manager' = [manager EXCEPT !.pc = "idle"]
       /\ UNCHANGED <<uid_map, passwd_db, PASSWD_CACHE, departed>>

\* write_atomic fails, which is only logged, or the agent is killed: the file keeps its
\* contents until the next update.
DbWriteFails ==
    /\ manager.pc # "idle"
    /\ manager' = [pc |-> "idle", users |-> NoUsers]
    /\ UNCHANGED <<uid_map, passwd_db, PASSWD_CACHE, departed>>

\* A process reads the file once; a missing file counts as empty from then on.
get_passwd_entries ==
    /\ PASSWD_CACHE = <<>>
    /\ PASSWD_CACHE' = <<passwd_db>>
    /\ UNCHANGED <<uid_map, manager, passwd_db, departed>>

IdentityNext ==
    \/ \E o \in Org : gc_org(o) \/ \E i \in OrgIndexes : OrgJoins(o, i)
    \/ \E s \in Subject : assign_uid(s)
    \/ update_map \/ write_db_files \/ DbWriteFails
    \/ get_passwd_entries

IdentitySpec == IdentityInit /\ [][IdentityNext]_identityVars

-----------------------------------------------------------------------------
\* The copies of the map that exist: being written, in the file, in a process.
Copies == {manager.users, passwd_db} \cup {PASSWD_CACHE[k] : k \in DOMAIN PASSWD_CACHE}

\* IM1 and IM2, for the map and for every stale copy of it: two subjects never have the
\* same id; and, until its organisation leaves, the id by which a file or a process
\* knows a subject is that subject's in the map, and in the copy at most those of
\* organisations that have left since share it.
IdentitiesSound ==
    /\ \A s, t \in Subject :
          s # t /\ uid_map.users[s] # NoId => uid_map.users[s] # uid_map.users[t]
    /\ \A users \in Copies, s \in Subject :
          users[s] # NoId /\ OrgOf[s] \notin departed =>
              /\ uid_map.users[s] = users[s]
              /\ \A t \in Subject \ {s} : users[t] # users[s] \/ OrgOf[t] \in departed
=============================================================================
