------------------------------ MODULE Conflicts ------------------------------
(***************************************************************************)
(* ConflictManager (pact-agent/src/conflict/mod.rs): after a partition the *)
(* journal's conflict manifest (detect_conflicts of                        *)
(* pact-journal/src/raft/state.rs) pauses convergence for the conflicting  *)
(* keys until an administrator resolves each, or its grace period expires  *)
(* and the journal wins.                                                   *)
(***************************************************************************)
EXTENDS Integers

CONSTANTS
    ConfigKey,
    ConfigValue,
    grace_period,
    ConflictHorizon     \* bound on the clock

ASSUME ConflictAssumption == grace_period \in Nat /\ ConflictHorizon \in Nat

VARIABLES
    conflicts,      \* ConfigKey -> [state, detected_at]
    paused_keys,
    conflictNow

conflictVars == <<conflicts, paused_keys, conflictNow>>

NoConflict == [state |-> "none", detected_at |-> 0]
ResolvedStates == {"AcceptLocal", "AcceptJournal"}
PendingKeys == {k \in ConfigKey : conflicts[k].state = "Pending"}

ConflictTypeOK ==
    /\ conflicts \in [ConfigKey -> [state : {"none", "Pending", "GraceExpired"} \cup ResolvedStates,
                                     detected_at : Nat]]
    /\ paused_keys \subseteq ConfigKey
    /\ conflictNow \in 0..ConflictHorizon

ConflictInit ==
    /\ conflicts = [k \in ConfigKey |-> NoConflict]
    /\ paused_keys = {}
    /\ conflictNow = 0

\* The kernel deltas of a node's local entries against those of every journal entry,
\* old and new: the keys that any of them set to another value.
Delta == ConfigKey \X ConfigValue

detect_conflicts(entries, local_entries) ==
    {d[1] : d \in {l \in local_entries : \E e \in entries : e[1] = l[1] /\ e[2] # l[2]}}

\* Variant for sensitivity checks: a key with an entry is taken to be paused already.
register_conflicts_Known(keys, t) ==
    /\ paused_keys' = paused_keys \cup {k \in keys : conflicts[k] = NoConflict}
    /\ conflicts' = [k \in ConfigKey |->
           IF k \in keys THEN [state |-> "Pending", detected_at |-> t] ELSE conflicts[k]]
    /\ UNCHANGED conflictNow

\* A manifest detected at t; a key that already has an entry is Pending again.
register_conflicts(keys, t) ==
    /\ paused_keys' = paused_keys \cup keys
    /\ conflicts' = [k \in ConfigKey |->
           IF k \in keys THEN [state |-> "Pending", detected_at |-> t] ELSE conflicts[k]]
    /\ UNCHANGED conflictNow

\* An unknown or settled key is refused.
resolve(k, resolution) ==
    /\ conflicts[k].state = "Pending"
    /\ conflicts' = [conflicts EXCEPT ![k].state = resolution]
    /\ paused_keys' = paused_keys \ {k}
    /\ UNCHANGED conflictNow

check_grace_periods ==
    LET expired == {k \in PendingKeys : conflictNow >= conflicts[k].detected_at + grace_period}
    IN  /\ expired # {}
        /\ conflicts' = [k \in ConfigKey |->
               IF k \in expired THEN [conflicts[k] EXCEPT !.state = "GraceExpired"] ELSE conflicts[k]]
        /\ paused_keys' = paused_keys \ expired
        /\ UNCHANGED conflictNow

clear_resolved ==
    /\ conflicts' = [k \in ConfigKey |-> IF k \in PendingKeys THEN conflicts[k] ELSE NoConflict]
    /\ UNCHANGED <<paused_keys, conflictNow>>

ConflictTick ==
    /\ conflictNow < ConflictHorizon
    /\ conflictNow' = conflictNow + 1
    /\ UNCHANGED <<conflicts, paused_keys>>

ConflictNext ==
    \/ \E entries, local_entries \in SUBSET Delta, t \in 0..conflictNow :
          /\ detect_conflicts(entries, local_entries) # {}
          /\ register_conflicts(detect_conflicts(entries, local_entries), t)
    \/ \E k \in ConfigKey, r \in ResolvedStates : resolve(k, r)
    \/ check_grace_periods
    \/ clear_resolved
    \/ ConflictTick

ConflictSpec == ConflictInit /\ [][ConflictNext]_conflictVars

-----------------------------------------------------------------------------
\* CR2 and CR3: exactly the keys with a pending conflict are paused, whatever
\* manifests, resolutions, expiries and cleanups came before; and the journal wins by
\* expiry only over a conflict still pending when its grace period is over.
PausedArePending ==
    /\ [](paused_keys = PendingKeys)
    /\ [][\A k \in ConfigKey :
             (conflicts'[k].state = "GraceExpired" /\ conflicts[k].state # "GraceExpired")
                 => /\ conflicts[k].state = "Pending"
                    /\ conflictNow - conflicts[k].detected_at >= grace_period]_conflictVars
=============================================================================
