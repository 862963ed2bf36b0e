------------------------------- MODULE Handoff -------------------------------
(***************************************************************************)
(* The agent's side of a workload allocation (pact-agent/src/handoff): the *)
(* map of allocations with namespaces (mod.rs) and the reference-counted   *)
(* mounts of uenv images with their hold timers (mounts.rs, where the      *)
(* mount calls themselves are still comments).  The workload manager calls *)
(* create_namespaces and acquire when an allocation begins and reports its *)
(* end; the calls of different allocations interleave.  An agent that      *)
(* restarts forgets both maps, while allocations and kernel mounts live    *)
(* on, and rebuilds the counts from them.                                  *)
(***************************************************************************)
EXTENDS Integers, FiniteSets

CONSTANTS
    Allocation,
    Image,
    hold_duration,
    HandoffHorizon      \* bound on the clock

ASSUME HandoffAssumption ==
    IsFiniteSet(Allocation) /\ hold_duration \in Nat /\ HandoffHorizon \in Nat

VARIABLES
    ready,          \* HandoffServer.ready
    allocations,    \* allocations in the map
    writer,         \* allocations whose end waits with the map's lock in hand
    mounts,         \* Image -> [refcount, hold_start]; refcount -1: no entry
    mounted,        \* images the kernel has mounted
    uses,           \* Allocation -> [pc, image]: what the workload manager has done
    ended,          \* allocations whose end has been reported
    forced,         \* images that were force-unmounted under their users
    idleSince,      \* Image -> when its last user let go
    handoffNow

handoffVars ==
    <<ready, allocations, writer, mounts, mounted, uses, ended, forced, idleSince, handoffNow>>

NoMount == [refcount |-> -1, hold_start |-> -1]

HandoffTypeOK ==
    /\ ready \in BOOLEAN
    /\ allocations \subseteq Allocation /\ writer \subseteq Allocation
    /\ mounts \in [Image -> [refcount : Nat \cup {-1}, hold_start : Nat \cup {-1}]]
    /\ mounted \subseteq Image
    /\ uses \in [Allocation -> [pc : {"new", "created", "running", "released"},
                                image : {{}} \cup {{i} : i \in Image}]]
    /\ ended \subseteq Allocation /\ forced \subseteq Image
    /\ idleSince \in [Image -> Nat]
    /\ handoffNow \in 0..HandoffHorizon

HandoffInit ==
    /\ ready = FALSE
    /\ allocations = {} /\ writer = {}
    /\ mounts = [i \in Image |-> NoMount]
    /\ mounted = {} /\ forced = {} /\ ended = {}
    /\ uses = [a \in Allocation |-> [pc |-> "new", image |-> {}]]
    /\ idleSince = [i \in Image |-> 0]
    /\ handoffNow = 0

Users(i) == {a \in Allocation : uses[a] = [pc |-> "running", image |-> {i}]}
Begun(a) == uses[a].pc \in {"running", "released"}
UseAt(a, pc) == uses' = [uses EXCEPT ![a].pc = pc]

-----------------------------------------------------------------------------
set_ready ==
    /\ ready' = TRUE
    /\ UNCHANGED <<allocations, writer, mounts, mounted, uses, ended, forced, idleSince, handoffNow>>

\* create_namespaces: refused until ready; entered in the map only when try_write
\* gets the lock, and answered all the same when it does not.
create_namespaces(a, i) ==
    /\ uses[a].pc = "new" /\ ready
    /\ uses' = [uses EXCEPT ![a] = [pc |-> "created", image |-> {i}]]
    /\ allocations' = IF writer = {} THEN allocations \cup {a} ELSE allocations
    /\ UNCHANGED <<ready, writer, mounts, mounted, ended, forced, idleSince, handoffNow>>

\* Variant for sensitivity checks: the first reference is counted by the caller.
acquire_FromZero(a, i) ==
    /\ uses[a] = [pc |-> "created", image |-> {i}]
    /\ mounts' = [mounts EXCEPT ![i] =
                     [refcount |-> IF @.refcount = -1 THEN 0 ELSE @.refcount + 1,
                      hold_start |-> -1]]
    /\ mounted' = mounted \cup {i}
    /\ UseAt(a, "running")
    /\ UNCHANGED <<ready, allocations, writer, ended, forced, idleSince, handoffNow>>

\* MountRefManager::acquire: one more user, or the first, who mounts the image.
acquire(a, i) ==
    /\ uses[a] = [pc |-> "created", image |-> {i}]
    /\ mounts' = [mounts EXCEPT ![i] =
                     [refcount |-> IF @.refcount = -1 THEN 1 ELSE @.refcount + 1,
                      hold_start |-> -1]]
    /\ mounted' = mounted \cup {i}
    /\ UseAt(a, "running")
    /\ UNCHANGED <<ready, allocations, writer, ended, forced, idleSince, handoffNow>>

\* MountRefManager::release; the caller has a reference unless the image was
\* force-unmounted meanwhile: then there is no entry, or one that counts others, and
\* the assertion on a count of zero unwinds the caller before anything changes.
release(a, i) ==
    LET m == mounts[i]
    IN  /\ uses[a] = [pc |-> "running", image |-> {i}]
        /\ mounts' = [mounts EXCEPT ![i] =
               IF m.refcount <= 0 THEN m
               ELSE [refcount |-> m.refcount - 1,
                     hold_start |-> IF m.refcount = 1 THEN handoffNow ELSE m.hold_start]]
        /\ UseAt(a, "released")
        /\ idleSince' = [idleSince EXCEPT ![i] = handoffNow]
        /\ UNCHANGED <<ready, allocations, writer, mounted, ended, forced, handoffNow>>

\* on_allocation_ended: the map's lock is awaited, then the entry goes.
AllocationEnds(a) ==
    /\ Begun(a) /\ a \notin ended /\ writer = {}
    /\ writer' = {a}
    /\ UNCHANGED <<ready, allocations, mounts, mounted, uses, ended, forced, idleSince, handoffNow>>

on_allocation_ended(a) ==
    /\ writer = {a}
    /\ allocations' = allocations \ {a}
    /\ writer' = {}
    /\ ended' = ended \cup {a}
    /\ UNCHANGED <<ready, mounts, mounted, uses, forced, idleSince, handoffNow>>

\* release_namespaces gives up when the lock is taken, and says nothing.
release_namespaces(a) ==
    /\ Begun(a) /\ a \notin ended /\ writer # {a}
    /\ allocations' = IF writer = {} THEN allocations \ {a} ELSE allocations
    /\ ended' = ended \cup {a}
    /\ UNCHANGED <<ready, writer, mounts, mounted, uses, forced, idleSince, handoffNow>>

\* force_unmount, in an emergency.
force_unmount(i) ==
    /\ mounts[i] # NoMount
    /\ mounts' = [mounts EXCEPT ![i] = NoMount]
    /\ mounted' = mounted \ {i}
    /\ forced' = IF Users(i) # {} THEN forced \cup {i} ELSE forced
    /\ UNCHANGED <<ready, allocations, writer, uses, ended, idleSince, handoffNow>>

HoldExpired(i) ==
    mounts[i].refcount = 0 /\ mounts[i].hold_start # -1
        /\ handoffNow - mounts[i].hold_start >= hold_duration

check_expired_holds ==
    LET expired == {i \in Image : HoldExpired(i)}
    IN  /\ expired # {}
        /\ mounts' = [i \in Image |-> IF i \in expired THEN NoMount ELSE mounts[i]]
        /\ mounted' = mounted \ expired
        /\ UNCHANGED <<ready, allocations, writer, uses, ended, forced, idleSince, handoffNow>>

\* The agent restarts, and reconstruct enters what the kernel has mounted with the
\* number of its users; a mount without users starts its hold anew.
reconstruct ==
    /\ mounts' = [i \in Image |->
           IF i \notin mounted THEN NoMount
           ELSE [refcount |-> Cardinality(Users(i)),
                 hold_start |-> IF Users(i) = {} THEN handoffNow ELSE -1]]
    /\ ready' = FALSE /\ allocations' = {} /\ writer' = {}
    /\ UNCHANGED <<mounted, uses, ended, forced, idleSince, handoffNow>>

HandoffTick ==
    /\ handoffNow < HandoffHorizon
    /\ handoffNow' = handoffNow + 1
    /\ UNCHANGED <<ready, allocations, writer, mounts, mounted, uses, ended, forced, idleSince>>

HandoffNext ==
    \/ set_ready
    \/ \E a \in Allocation, i \in Image :
          create_namespaces(a, i) \/ acquire(a, i) \/ release(a, i)
    \/ \E a \in Allocation :
          AllocationEnds(a) \/ on_allocation_ended(a) \/ release_namespaces(a)
    \/ \E i \in Image : force_unmount(i)
    \/ check_expired_holds
    \/ reconstruct
    \/ HandoffTick

HandoffSpec == HandoffInit /\ [][HandoffNext]_handoffVars

-----------------------------------------------------------------------------
CountsExact(i) ==
    /\ Users(i) # {} => i \in mounted
    /\ i \in mounted <=> mounts[i] # NoMount
    /\ i \in mounted =>
          /\ mounts[i].refcount = Cardinality(Users(i))
          /\ (mounts[i].refcount = 0) <=> (mounts[i].hold_start >= idleSince[i])

\* WI2, WI3 and WI6: for every image no emergency has taken from its users, through
\* restarts, the count is the number of allocations using it, a mount in use stays,
\* one nobody uses has its hold timer running from its last release or later (so the
\* next check finds it), and only an emergency unmounts it before the hold is over.
MountsAccounted ==
    /\ [](\A i \in Image \ forced : CountsExact(i))
    /\ [][\A i \in (mounted \ mounted') \ forced :
              force_unmount(i) \/ handoffNow - idleSince[i] >= hold_duration]_handoffVars
=============================================================================
