---------------------------- MODULE DriftPipeline ---------------------------
(***************************************************************************)
(* From changes of the node to drift: the inotify and netlink observers    *)
(* (pact-agent/src/observer/mod.rs), each start of which spawns a task     *)
(* with a descriptor of its own, the channel they send into, and the       *)
(* DriftEvaluator (pact-agent/src/drift/mod.rs) at its other end.  A       *)
(* change is a number and a path.                                          *)
(***************************************************************************)
EXTENDS Integers, Sequences, FiniteSets

CONSTANTS
    WatchedPath,
    Blacklist,          \* possible blacklists, each the set of paths it matches
    ReadLimit,          \* Kind -> events one read returns: a buffer of them, or one datagram
    ChannelCapacity,
    MaxObserverStarts,  \* bound on the tasks
    MaxChanges          \* bound on the changes

Kind == {"file", "network"}
PathsOf(kind) == IF kind = "file" THEN WatchedPath ELSE {"netlink"}
TaskId == 1..MaxObserverStarts

ASSUME DriftAssumption ==
    /\ ReadLimit \in [Kind -> Nat \ {0}]
    /\ ChannelCapacity \in Nat \ {0} /\ MaxObserverStarts \in Nat /\ MaxChanges \in Nat

VARIABLES
    running,        \* Kind -> the flag that the tasks of a kind share
    watchers,       \* the tasks: [kind, pc, unread, ready, fresh, batch]
    channel,
    receiver,       \* whether the other end is open
    blacklist,
    current_drift,  \* Kind -> Nat
    changes,        \* changes so far
    trace           \* while the receiver is open, for the properties: the changes that each
                    \* task's descriptor was told of, and what has been evaluated

driftVars == <<running, watchers, channel, receiver, blacklist, current_drift, changes, trace>>

NoDrift == [k \in Kind |-> 0]

Event == [category : Kind, path : WatchedPath \cup {"netlink"}, change : Nat]
Message == [by : TaskId, event : Event]
Task == [kind : Kind, pc : {"loop", "wait", "read", "send", "ended"}, unread : Seq(Event),
         ready : BOOLEAN, fresh : BOOLEAN, batch : Seq(Event)]

DriftTypeOK ==
    /\ running \in [Kind -> BOOLEAN] /\ watchers \in Seq(Task) /\ Len(watchers) <= MaxObserverStarts
    /\ channel \in Seq(Message) /\ Len(channel) <= ChannelCapacity /\ receiver \in BOOLEAN
    /\ current_drift \in [Kind -> Nat] /\ changes \in 0..MaxChanges
    /\ trace \in [occurred : Seq(SUBSET Event), processed : Seq(Message)]
    /\ Len(trace.occurred) = Len(watchers)

DriftInit ==
    /\ running = [k \in Kind |-> FALSE] /\ watchers = <<>>
    /\ channel = <<>> /\ receiver = TRUE
    /\ blacklist = {} /\ current_drift = NoDrift
    /\ changes = 0 /\ trace = [occurred |-> <<>>, processed |-> <<>>]

At(t, pc) == t \in DOMAIN watchers /\ watchers[t].pc = pc

-----------------------------------------------------------------------------
NewTask(kind) ==
    [kind |-> kind, pc |-> "loop", unread |-> <<>>, ready |-> FALSE, fresh |-> FALSE, batch |-> <<>>]

\* A watch that cannot be added or a socket that cannot be bound is an error that
\* changes nothing.
start(kind) ==
    /\ Len(watchers) < MaxObserverStarts
    /\ running' = [running EXCEPT ![kind] = TRUE]
    /\ watchers' = Append(watchers, NewTask(kind))
    /\ trace' = [trace EXCEPT !.occurred = Append(@, {})]
    /\ UNCHANGED <<channel, receiver, blacklist, current_drift, changes>>

stop(kind) ==
    /\ running' = [running EXCEPT ![kind] = FALSE]
    /\ UNCHANGED <<watchers, channel, receiver, blacklist, current_drift, changes, trace>>

\* The kernel queues a change at every open descriptor of its kind, and tokio notes
\* that there is something to read.
Change(kind, path) ==
    LET event == [category |-> kind, path |-> path, change |-> changes + 1]
        told == {t \in DOMAIN watchers : watchers[t].kind = kind /\ watchers[t].pc # "ended"}
    IN  /\ changes < MaxChanges /\ path \in PathsOf(kind)
        /\ changes' = changes + 1
        /\ watchers' = [t \in DOMAIN watchers |->
               IF t \notin told THEN watchers[t]
               ELSE [watchers[t] EXCEPT !.unread = Append(watchers[t].unread, event),
                                        !.ready = TRUE, !.fresh = TRUE]]
        /\ trace' = [trace EXCEPT !.occurred = [t \in DOMAIN watchers |->
               IF t \in told /\ receiver THEN trace.occurred[t] \cup {event} ELSE trace.occurred[t]]]
        /\ UNCHANGED <<running, channel, receiver, blacklist, current_drift>>

\* The flag is looked at only between two reads.
LoopCheck(t) ==
    /\ At(t, "loop")
    /\ watchers' = [watchers EXCEPT ![t] =
           [watchers[t] EXCEPT !.pc = IF running[watchers[t].kind] THEN "wait" ELSE "ended"]]
    /\ UNCHANGED <<running, channel, receiver, blacklist, current_drift, changes, trace>>

Readable(t) ==
    /\ At(t, "wait") /\ watchers[t].ready
    /\ watchers' = [watchers EXCEPT ![t] = [watchers[t] EXCEPT !.pc = "read", !.fresh = FALSE]]
    /\ UNCHANGED <<running, channel, receiver, blacklist, current_drift, changes, trace>>

\* One read, of nothing when an earlier one got it (EAGAIN).
read_events(t) ==
    LET unread == watchers[t].unread
        limit == ReadLimit[watchers[t].kind]
        n == IF Len(unread) < limit THEN Len(unread) ELSE limit
    IN  /\ At(t, "read")
        /\ watchers' = [watchers EXCEPT ![t] =
               [watchers[t] EXCEPT !.pc = "send", !.batch = SubSeq(unread, 1, n),
                                   !.unread = SubSeq(unread, n + 1, Len(unread))]]
        /\ UNCHANGED <<running, channel, receiver, blacklist, current_drift, changes, trace>>

ReadError(t) ==
    /\ At(t, "read")
    /\ watchers' = [watchers EXCEPT ![t] = [watchers[t] EXCEPT !.pc = "ended"]]
    /\ UNCHANGED <<running, channel, receiver, blacklist, current_drift, changes, trace>>

\* Variant for sensitivity checks: an event that finds the channel full is dropped.
Send_Try(t) ==
    /\ At(t, "send") /\ watchers[t].batch # <<>> /\ receiver
    /\ channel' = IF Len(channel) < ChannelCapacity
                  THEN Append(channel, [by |-> t, event |-> Head(watchers[t].batch)]) ELSE channel
    /\ watchers' = [watchers EXCEPT ![t] = [watchers[t] EXCEPT !.batch = Tail(watchers[t].batch)]]
    /\ UNCHANGED <<running, receiver, blacklist, current_drift, changes, trace>>

\* The events of a read are sent one by one, waiting for room.
Send(t) ==
    /\ At(t, "send") /\ watchers[t].batch # <<>>
    /\ receiver /\ Len(channel) < ChannelCapacity
    /\ channel' = Append(channel, [by |-> t, event |-> Head(watchers[t].batch)])
    /\ watchers' = [watchers EXCEPT ![t] = [watchers[t] EXCEPT !.batch = Tail(watchers[t].batch)]]
    /\ UNCHANGED <<running, receiver, blacklist, current_drift, changes, trace>>

SendFails(t) ==
    /\ At(t, "send") /\ watchers[t].batch # <<>> /\ ~receiver
    /\ running' = [running EXCEPT ![watchers[t].kind] = FALSE]
    /\ watchers' = [watchers EXCEPT ![t] = [watchers[t] EXCEPT !.pc = "ended"]]
    /\ UNCHANGED <<channel, receiver, blacklist, current_drift, changes, trace>>

\* Readiness noted since readable() returned is kept; with none the task sleeps until
\* the next change, even when the read left something behind.
clear_ready(t) ==
    /\ At(t, "send") /\ watchers[t].batch = <<>>
    /\ watchers' = [watchers EXCEPT ![t] =
           [watchers[t] EXCEPT !.pc = "loop", !.ready = watchers[t].fresh]]
    /\ UNCHANGED <<running, channel, receiver, blacklist, current_drift, changes, trace>>

-----------------------------------------------------------------------------
is_blacklisted(path) == path \in blacklist

process_event ==
    /\ receiver /\ channel # <<>>
    /\ LET event == Head(channel).event
       IN  current_drift' = IF is_blacklisted(event.path) THEN current_drift
                            ELSE [current_drift EXCEPT ![event.category] = @ + 1]
    /\ channel' = Tail(channel)
    /\ trace' = [trace EXCEPT !.processed = Append(@, Head(channel))]
    /\ UNCHANGED <<running, watchers, receiver, blacklist, changes>>

reset ==
    /\ current_drift' = NoDrift
    /\ UNCHANGED <<running, watchers, channel, receiver, blacklist, changes, trace>>

\* A new blacklist comes with a new evaluator, which has seen nothing.
BlacklistChanged(b) ==
    /\ blacklist' = b /\ current_drift' = NoDrift
    /\ UNCHANGED <<running, watchers, channel, receiver, changes, trace>>

\* The task that hands the events to the evaluator ends.
ReceiverDropped ==
    /\ receiver
    /\ receiver' = FALSE /\ channel' = <<>>
    /\ trace' = [occurred |-> [t \in DOMAIN watchers |-> {}], processed |-> <<>>]
    /\ UNCHANGED <<running, watchers, blacklist, current_drift, changes>>

DriftNext ==
    \/ \E k \in Kind : start(k) \/ stop(k) \/ \E p \in PathsOf(k) : Change(k, p)
    \/ \E t \in TaskId :
          \/ LoopCheck(t) \/ Readable(t) \/ read_events(t) \/ ReadError(t)
          \/ Send(t) \/ SendFails(t) \/ clear_ready(t)
    \/ process_event \/ reset \/ \E b \in Blacklist : BlacklistChanged(b)
    \/ ReceiverDropped

DriftSpec == DriftInit /\ [][DriftNext]_driftVars

-----------------------------------------------------------------------------
\* The changes told to task t are those of its messages sent and those it has pending,
\* and each of them is later than those before it.
Conserved(told, sent, pending, t) ==
    LET By(i) == sent[i].by = t
    IN  /\ told = {sent[i].event : i \in {j \in DOMAIN sent : By(j)}}
                      \cup {pending[i] : i \in DOMAIN pending}
        /\ \A i, j \in DOMAIN sent : By(i) /\ By(j) /\ i < j => sent[i].event.change < sent[j].event.change
        /\ \A i, j \in DOMAIN pending : i < j => pending[i].change < pending[j].change
        /\ \A i \in DOMAIN sent, j \in DOMAIN pending : By(i) => sent[i].event.change < pending[j].change

OfCategory(processed, k) == {i \in DOMAIN processed : processed[i].event.category = k}

\* While the evaluator listens, what a task's descriptor was told of is, in this order
\* and each change once, what has been evaluated, what is in the channel, what is being
\* sent and what is still unread: however starts, stops, full channels and bursts
\* interleave, a task neither loses nor repeats nor swaps changes.  Drift is never more
\* than the changes that were evaluated.
ChangesConserved ==
    receiver =>
        /\ \A t \in DOMAIN watchers :
              Conserved(trace.occurred[t], trace.processed \o channel,
                        watchers[t].batch \o watchers[t].unread, t)
        /\ \A k \in Kind :
              current_drift[k] <= Cardinality(OfCategory(trace.processed, k))
=============================================================================
