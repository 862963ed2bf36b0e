------------------------------- MODULE Cgroups -------------------------------
(***************************************************************************)
(* LinuxCgroupManager (pact-agent/src/isolation/linux.rs) on the cgroup v2 *)
(* filesystem: the slices, and the scope of a service from create_scope to *)
(* destroy_scope.  Processes enter a scope and fork in it at any moment,   *)
(* also while destroy_scope kills them one by one from a list it has read. *)
(* The kernel removes only a directory without processes.                  *)
(***************************************************************************)
EXTENDS Integers, FiniteSets

CONSTANTS
    Scope,
    ForeignScope,   \* scopes whose parent slice belongs to the workload manager
    Process

VARIABLES
    hasKill,        \* the kernel has cgroup.kill
    hierarchy,      \* slices created: the root, five of pact, the workload slice
    dirs,           \* scope directories
    handles,        \* scopes a caller has a handle for
    proc,           \* Process -> [in, life]: the scope it is in, if any
    destroying,     \* [pc, scope, todo]: the destroy_scope call in progress
    answer          \* Scope -> the last answer of destroy_scope since its creation

cgroupVars == <<hasKill, hierarchy, dirs, handles, proc, destroying, answer>>

Slices == 7
Idle == [pc |-> "idle", scope |-> {}, todo |-> {}]
Free == [in |-> {}, life |-> "none"]
Members(s) == {p \in Process : proc[p].in = {s}}

CgroupTypeOK ==
    /\ hasKill \in BOOLEAN
    /\ hierarchy \in 0..Slices
    /\ dirs \subseteq Scope /\ handles \subseteq Scope
    /\ proc \in [Process -> [in : {{}} \cup {{s} : s \in Scope}, life : {"none", "live", "killed"}]]
    /\ destroying \in [pc : {"idle", "kill", "remove"}, scope : {{}} \cup {{s} : s \in Scope},
                       todo : SUBSET Process]
    /\ answer \in [Scope -> {"none", "Ok", "Io", "KillFailed"}]

CgroupInit ==
    /\ hasKill \in BOOLEAN
    /\ hierarchy = 0 /\ dirs = {} /\ handles = {}
    /\ proc = [p \in Process |-> Free]
    /\ destroying = Idle
    /\ answer = [s \in Scope |-> "none"]

-----------------------------------------------------------------------------
\* create_hierarchy stops at the first slice it cannot make or enable; the earlier
\* ones stay, and the next call finds them.
create_hierarchy ==
    /\ hierarchy < Slices
    /\ hierarchy' \in (hierarchy + 1)..Slices
    /\ UNCHANGED <<hasKill, dirs, handles, proc, destroying, answer>>

\* create_scope makes the directory and writes the limits; when a limit cannot be
\* written the caller gets no handle and the directory stays.  A foreign parent slice
\* is refused before anything is made (RI1).  The supervisor calls create_scope and
\* destroy_scope with its table locked.
create_scope(s, limitsWritten) ==
    /\ s \notin ForeignScope /\ destroying = Idle
    /\ dirs' = dirs \cup {s}
    /\ handles' = IF limitsWritten THEN handles \cup {s} ELSE handles
    /\ answer' = [answer EXCEPT ![s] = "none"]
    /\ UNCHANGED <<hasKill, hierarchy, proc, destroying>>

\* destroy_scope, to its kill: nothing left to do without a directory; cgroup.kill
\* reaches every member at once; without it, or when it fails, the members are
\* listed, and a list that cannot be read ends the call.
destroy_scope(s) ==
    /\ destroying = Idle /\ s \in handles
    /\ handles' = handles \ {s}
    /\ \/ s \notin dirs
          /\ answer' = [answer EXCEPT ![s] = "Ok"]
          /\ UNCHANGED <<proc, destroying>>
       \/ s \in dirs /\ hasKill
          /\ proc' = [p \in Process |->
                 IF p \in Members(s) THEN [proc[p] EXCEPT !.life = "killed"] ELSE proc[p]]
          /\ destroying' = [pc |-> "remove", scope |-> {s}, todo |-> {}]
          /\ UNCHANGED answer
       \/ s \in dirs
          /\ destroying' = [pc |-> "kill", scope |-> {s}, todo |-> Members(s)]
          /\ UNCHANGED <<proc, answer>>
       \/ s \in dirs
          /\ answer' = [answer EXCEPT ![s] = "Io"]
          /\ UNCHANGED <<proc, destroying>>
    /\ UNCHANGED <<hasKill, hierarchy, dirs>>

\* kill_processes_fallback: SIGKILL to the next of the list; an error is ignored.
kill_processes_fallback ==
    /\ destroying.pc = "kill"
    /\ IF destroying.todo = {}
       THEN destroying' = [destroying EXCEPT !.pc = "remove"] /\ UNCHANGED proc
       ELSE \E p \in destroying.todo :
               /\ destroying' = [destroying EXCEPT !.todo = @ \ {p}]
               /\ proc' = IF proc[p].life = "live"
                          THEN [proc EXCEPT ![p].life = "killed"] ELSE proc
    /\ UNCHANGED <<hasKill, hierarchy, dirs, handles, answer>>

\* Variant for sensitivity checks: a zombie scope is only logged.
RemoveScope_Logged ==
    /\ destroying.pc = "remove"
    /\ \E s \in destroying.scope :
          /\ dirs' = IF Members(s) = {} THEN dirs \ {s} ELSE dirs
          /\ answer' = [answer EXCEPT ![s] = "Ok"]
    /\ destroying' = Idle
    /\ UNCHANGED <<hasKill, hierarchy, handles, proc>>

\* destroy_scope, after its pause: rmdir fails while the scope has members.
RemoveScope ==
    /\ destroying.pc = "remove"
    /\ \E s \in destroying.scope :
          /\ dirs' = IF Members(s) = {} THEN dirs \ {s} ELSE dirs
          /\ answer' = [answer EXCEPT ![s] = IF Members(s) = {} THEN "Ok" ELSE "KillFailed"]
    /\ destroying' = Idle
    /\ UNCHANGED <<hasKill, hierarchy, handles, proc>>

\* The kernel: a process enters a scope, forks in it, or dies of its signal.
Enter(p, s) ==
    /\ proc[p] = Free /\ s \in dirs
    /\ proc' = [proc EXCEPT ![p] = [in |-> {s}, life |-> "live"]]
    /\ UNCHANGED <<hasKill, hierarchy, dirs, handles, destroying, answer>>

Fork(p, q) ==
    /\ proc[p].life = "live" /\ proc[q] = Free
    /\ proc' = [proc EXCEPT ![q] = proc[p]]
    /\ UNCHANGED <<hasKill, hierarchy, dirs, handles, destroying, answer>>

Die(p) ==
    /\ proc[p].life # "none"
    /\ proc' = [proc EXCEPT ![p] = Free]
    /\ UNCHANGED <<hasKill, hierarchy, dirs, handles, destroying, answer>>

CgroupNext ==
    \/ create_hierarchy
    \/ \E s \in Scope, ok \in BOOLEAN : create_scope(s, ok)
    \/ \E s \in Scope : destroy_scope(s)
    \/ kill_processes_fallback
    \/ RemoveScope
    \/ \E p \in Process, s \in Scope : Enter(p, s)
    \/ \E p, q \in Process : Fork(p, q)
    \/ \E p \in Process : Die(p)

CgroupSpec == CgroupInit /\ [][CgroupNext]_cgroupVars

-----------------------------------------------------------------------------
\* PS3 and F30: when destroy_scope says a scope is destroyed, nothing that ran in it
\* runs any more, however its members forked while they were being killed; a scope that
\* still has members is reported.
DestroyedIsEmpty == \A s \in Scope : answer[s] = "Ok" => Members(s) = {} /\ s \notin dirs
=============================================================================
