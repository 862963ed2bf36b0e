---------------------------- MODULE DriftProofs -----------------------------
(***************************************************************************)
(* Proofs about three counts that interleaved calls and tasks keep: the    *)
(* changes on their way to drift, where what is counted, on its way and    *)
(* lost adds up to what occurred; the slots of the shell; and the tokens   *)
(* of the rate limiter.  They hold for every number of observers, tasks,   *)
(* changes, sessions and sources and for every limit.                      *)
(***************************************************************************)
EXTENDS DriftPipeline, ShellSessions, RateLimiter, FiniteSetTheorems, TLAPS

-----------------------------------------------------------------------------
(* The way from changes to drift.                                          *)

\* The inductive invariant of the pipeline: a task holds a batch only while it sends it,
\* and no change is numbered later than the last.
DriftInv ==
    /\ DriftTypeOK /\ ChangesConserved
    /\ \A t \in DOMAIN watchers :
          /\ watchers[t].pc \in {"loop", "wait", "read"} => watchers[t].batch = <<>>
          /\ \A e \in trace.occurred[t] : e.change <= changes
    /\ \A i \in DOMAIN channel : channel[i].by <= Len(watchers)
    /\ \A i \in DOMAIN trace.processed : trace.processed[i].by <= Len(watchers)

\* Sequences of one length with the same elements are equal.
LEMMA SameElements ==
    ASSUME NEW S, NEW s \in Seq(S), NEW t \in Seq(S), Len(s) = Len(t),
           \A i \in 1..Len(s) : s[i] = t[i]
    PROVE  s = t
<1>1. s = [i \in 1..Len(s) |-> s[i]] /\ t = [i \in 1..Len(t) |-> t[i]]
  OBVIOUS
<1> QED BY <1>1

\* The elements of two sequences together.
LEMMA ConcatAt ==
    ASSUME NEW S, NEW s \in Seq(S), NEW t \in Seq(S)
    PROVE  /\ s \o t \in Seq(S) /\ Len(s \o t) = Len(s) + Len(t)
           /\ \A i \in 1..(Len(s) + Len(t)) :
                 (s \o t)[i] = IF i <= Len(s) THEN s[i] ELSE t[i - Len(s)]
  OBVIOUS

\* A new change is later than all before it and goes last.
LEMMA ConservedOnChange ==
    ASSUME NEW told \in SUBSET Event, NEW sent \in Seq(Message), NEW pending \in Seq(Event),
           NEW t, NEW e \in Event, Conserved(told, sent, pending, t),
           \A x \in told : x.change < e.change
    PROVE  Conserved(told \cup {e}, sent, Append(pending, e), t)
<1> DEFINE p == Append(pending, e)
           n == Len(pending)
<1>1. /\ n \in Nat /\ DOMAIN pending = 1..n /\ DOMAIN p = 1..(n + 1)
      /\ p[n + 1] = e /\ \A i \in 1..n : p[i] = pending[i]
  OBVIOUS
<1> HIDE DEF p, n
<1>2. \A i \in 1..n : pending[i] \in told
  BY <1>1 DEF Conserved
<1>3. \A i \in DOMAIN sent : sent[i].by = t => sent[i].event \in told
  BY DEF Conserved
<1>4. {p[i] : i \in DOMAIN p} = {pending[i] : i \in DOMAIN pending} \cup {e}
  BY <1>1
<1>5. \A i, j \in DOMAIN p : i < j => p[i].change < p[j].change
  <2> SUFFICES ASSUME NEW i \in 1..(n + 1), NEW j \in 1..(n + 1), i < j
               PROVE  p[i].change < p[j].change
    BY <1>1
  <2>1. CASE j = n + 1
    <3>1. i \in 1..n
      BY <2>1, <1>1
    <3> QED BY <2>1, <3>1, <1>1, <1>2
  <2>2. CASE j # n + 1
    <3>1. i \in 1..n /\ j \in 1..n
      BY <2>2, <1>1
    <3> QED BY <3>1, <1>1 DEF Conserved
  <2> QED BY <2>1, <2>2
<1>6. \A i \in DOMAIN sent, j \in DOMAIN p : sent[i].by = t => sent[i].event.change < p[j].change
  <2> SUFFICES ASSUME NEW i \in DOMAIN sent, NEW j \in 1..(n + 1), sent[i].by = t
               PROVE  sent[i].event.change < p[j].change
    BY <1>1
  <2>1. CASE j = n + 1
    BY <2>1, <1>1, <1>3
  <2>2. CASE j # n + 1
    <3>1. j \in 1..n
      BY <2>2, <1>1
    <3> QED BY <3>1, <1>1, Zenon DEF Conserved
  <2> QED BY <2>1, <2>2
<1>7. Conserved(told \cup {e}, sent, p, t)
  BY <1>4, <1>5, <1>6, Zenon DEF Conserved
<1> QED BY <1>7 DEF p

\* The first pending change of t becomes its last message.
LEMMA ConservedOnSend ==
    ASSUME NEW told \in SUBSET Event, NEW sent \in Seq(Message), NEW pending \in Seq(Event),
           NEW t, Conserved(told, sent, pending, t), pending # <<>>
    PROVE  Conserved(told, Append(sent, [by |-> t, event |-> Head(pending)]), Tail(pending), t)
<1> DEFINE m == [by |-> t, event |-> Head(pending)]
           s == Append(sent, m)
           q == Tail(pending)
           n == Len(sent)
           k == Len(pending)
<1>1. /\ n \in Nat /\ DOMAIN sent = 1..n /\ DOMAIN s = 1..(n + 1)
      /\ s[n + 1] = m /\ \A i \in 1..n : s[i] = sent[i]
  OBVIOUS
<1>2. /\ k \in Nat \ {0} /\ DOMAIN pending = 1..k /\ DOMAIN q = 1..(k - 1)
      /\ \A i \in 1..(k - 1) : q[i] = pending[i + 1]
      /\ m.event = pending[1] /\ m.by = t
  OBVIOUS
<1> HIDE DEF m, s, q, n, k
<1>3. told = {s[i].event : i \in {j \in DOMAIN s : s[j].by = t}} \cup {q[i] : i \in DOMAIN q}
  <2>1. ASSUME NEW x \in told
        PROVE  (\E i \in 1..(n + 1) : s[i].by = t /\ x = s[i].event) \/ \E i \in 1..(k - 1) : x = q[i]
    <3>1. (\E i \in 1..n : sent[i].by = t /\ x = sent[i].event) \/ \E i \in 1..k : x = pending[i]
      BY <2>1, <1>1, <1>2 DEF Conserved
    <3>2. CASE \E i \in 1..n : sent[i].by = t /\ x = sent[i].event
      BY <3>2, <1>1
    <3>3. ASSUME NEW i \in 1..k, x = pending[i]
          PROVE  x = m.event \/ \E j \in 1..(k - 1) : x = q[j]
      <4>1. CASE i = 1
        BY <4>1, <3>3, <1>2
      <4>2. CASE i # 1
        <5>1. i - 1 \in 1..(k - 1) /\ (i - 1) + 1 = i
          BY <4>2, <1>2
        <5> QED BY <5>1, <3>3, <1>2, Zenon
      <4> QED BY <4>1, <4>2
    <3>4. n + 1 \in 1..(n + 1)
      BY <1>1
    <3> QED BY <3>1, <3>2, <3>3, <3>4, <1>1, <1>2
  <2>2. ASSUME NEW i \in 1..(n + 1), s[i].by = t
        PROVE  s[i].event \in told
    <3>1. CASE i = n + 1
      <4>1. 1 \in DOMAIN pending
        BY <1>2
      <4> QED BY <3>1, <4>1, <1>1, <1>2, Zenon DEF Conserved
    <3>2. CASE i # n + 1
      <4>1. i \in 1..n
        BY <3>2, <1>1
      <4> QED BY <2>2, <4>1, <1>1 DEF Conserved
    <3> QED BY <3>1, <3>2
  <2>3. ASSUME NEW i \in 1..(k - 1)
        PROVE  q[i] \in told
    <3>1. i + 1 \in 1..k
      BY <1>2
    <3> QED BY <3>1, <1>2, Zenon DEF Conserved
  <2> QED BY <2>1, <2>2, <2>3, <1>1, <1>2, ZenonT(30)
<1>4. \A i, j \in DOMAIN s : s[i].by = t /\ s[j].by = t /\ i < j => s[i].event.change < s[j].event.change
  <2> SUFFICES ASSUME NEW i \in 1..(n + 1), NEW j \in 1..(n + 1), s[i].by = t, s[j].by = t, i < j
               PROVE  s[i].event.change < s[j].event.change
    BY <1>1
  <2>1. i \in 1..n /\ 1 \in 1..k
    BY <1>1, <1>2
  <2>2. CASE j = n + 1
    BY <2>1, <2>2, <1>1, <1>2, ZenonT(30) DEF Conserved
  <2>3. CASE j # n + 1
    <3>1. j \in 1..n
      BY <2>3, <1>1
    <3> QED BY <2>1, <3>1, <1>1, SMTT(30) DEF Conserved
  <2> QED BY <2>2, <2>3, Zenon
<1>5. \A i, j \in DOMAIN q : i < j => q[i].change < q[j].change
  <2> SUFFICES ASSUME NEW i \in 1..(k - 1), NEW j \in 1..(k - 1), i < j
               PROVE  q[i].change < q[j].change
    BY <1>2, Zenon
  <2>1. i + 1 \in 1..k /\ j + 1 \in 1..k /\ i + 1 < j + 1
    BY <1>2
  <2>2. q[i] = pending[i + 1] /\ q[j] = pending[j + 1]
    BY <1>2
  <2> QED BY <2>1, <2>2, <1>2, Zenon DEF Conserved
<1>6. \A i \in DOMAIN s, j \in DOMAIN q : s[i].by = t => s[i].event.change < q[j].change
  <2> SUFFICES ASSUME NEW i \in 1..(n + 1), NEW j \in 1..(k - 1), s[i].by = t
               PROVE  s[i].event.change < pending[j + 1].change
    BY <1>1, <1>2
  <2>1. 1 \in 1..k /\ j + 1 \in 1..k /\ 1 < j + 1
    BY <1>2
  <2>2. CASE i = n + 1
    BY <2>1, <2>2, <1>1, <1>2, Zenon DEF Conserved
  <2>3. CASE i # n + 1
    <3>1. i \in 1..n
      BY <2>3, <1>1
    <3> QED BY <2>1, <3>1, <1>1, <1>2, SMTT(30) DEF Conserved
  <2> QED BY <2>2, <2>3
<1>7. Conserved(told, s, q, t)
  BY <1>3, <1>4, <1>5, <1>6, Zenon DEF Conserved
<1> QED BY <1>7 DEF s, q, m

\* A message of another task changes nothing for t.
LEMMA ConservedOnOther ==
    ASSUME NEW told \in SUBSET Event, NEW sent \in Seq(Message), NEW pending \in Seq(Event),
           NEW t, NEW m, m.by # t, Conserved(told, sent, pending, t)
    PROVE  Conserved(told, Append(sent, m), pending, t)
<1> DEFINE s == Append(sent, m)
           n == Len(sent)
<1>1. /\ n \in Nat /\ DOMAIN sent = 1..n /\ DOMAIN s = 1..(n + 1)
      /\ s[n + 1] = m /\ \A i \in 1..n : s[i] = sent[i]
  OBVIOUS
<1> HIDE DEF s, n
<1>2. \A i \in DOMAIN s : s[i].by = t => i \in DOMAIN sent /\ s[i] = sent[i]
  BY <1>1
<1>3. \A i \in DOMAIN sent : i \in DOMAIN s /\ s[i] = sent[i]
  BY <1>1
<1>4. {s[i].event : i \in {j \in DOMAIN s : s[j].by = t}}
        = {sent[i].event : i \in {j \in DOMAIN sent : sent[j].by = t}}
  BY <1>2, <1>3
<1>5. Conserved(told, s, pending, t)
  BY <1>2, <1>3, <1>4, Zenon DEF Conserved
<1> QED BY <1>5 DEF s

\* The evaluated events of a category can be counted.
LEMMA CategoryFinite ==
    ASSUME NEW p \in Seq(Message), NEW k
    PROVE  IsFiniteSet(OfCategory(p, k)) /\ Cardinality(OfCategory(p, k)) \in Nat
<1>1. DOMAIN p = 1..Len(p) /\ Len(p) \in Int /\ 1 \in Int
  OBVIOUS
<1>2. IsFiniteSet(1..Len(p))
  BY <1>1, FS_Interval
<1>3. OfCategory(p, k) \in SUBSET (1..Len(p))
  BY <1>1 DEF OfCategory
<1>4. IsFiniteSet(OfCategory(p, k))
  BY <1>2, <1>3, FS_Subset
<1> QED BY <1>4, FS_CardinalityType

\* One more event counts once, in its category.
LEMMA CategoryAppend ==
    ASSUME NEW p \in Seq(Message), NEW m \in Message, NEW k
    PROVE  Cardinality(OfCategory(Append(p, m), k)) =
             Cardinality(OfCategory(p, k)) + IF m.event.category = k THEN 1 ELSE 0
<1> DEFINE q == Append(p, m)
           n == Len(p)
<1>1. /\ n \in Nat /\ DOMAIN p = 1..n /\ DOMAIN q = 1..(n + 1)
      /\ q[n + 1] = m /\ \A i \in 1..n : q[i] = p[i]
  OBVIOUS
<1> HIDE DEF q, n
<1>2. n + 1 \notin OfCategory(p, k)
  BY <1>1 DEF OfCategory
<1>3. CASE m.event.category = k
  <2>1. OfCategory(q, k) = OfCategory(p, k) \cup {n + 1}
    BY <1>1, <1>3 DEF OfCategory
  <2> QED BY <1>2, <1>3, <2>1, CategoryFinite, FS_AddElement, ZenonT(30) DEF q
<1>4. CASE m.event.category # k
  <2>1. OfCategory(q, k) = OfCategory(p, k)
    BY <1>1, <1>4 DEF OfCategory
  <2> QED BY <1>4, <2>1, CategoryFinite DEF q
<1> QED BY <1>3, <1>4

Pending(t) == watchers[t].batch \o watchers[t].unread

\* What the invariant says of the tasks' sequences.
LEMMA PipelineTypes ==
    ASSUME DriftInv
    PROVE  /\ DOMAIN watchers = 1..Len(watchers) /\ Len(watchers) \in Nat
           /\ DOMAIN trace.occurred = 1..Len(watchers)
           /\ trace.processed \o channel \in Seq(Message)
           /\ \A t \in DOMAIN watchers :
                 /\ watchers[t] \in Task /\ Pending(t) \in Seq(Event)
                 /\ watchers[t].batch \in Seq(Event) /\ watchers[t].unread \in Seq(Event)
                 /\ trace.occurred[t] \in SUBSET Event
<1>1. /\ watchers \in Seq(Task) /\ channel \in Seq(Message)
      /\ trace.processed \in Seq(Message) /\ trace.occurred \in Seq(SUBSET Event)
      /\ Len(trace.occurred) = Len(watchers)
  BY DEF DriftInv, DriftTypeOK
<1>2. DOMAIN watchers = 1..Len(watchers) /\ Len(watchers) \in Nat /\ DOMAIN trace.occurred = 1..Len(watchers)
  BY <1>1
<1>3. trace.processed \o channel \in Seq(Message)
  BY <1>1
<1>4. \A t \in DOMAIN watchers : watchers[t] \in Task /\ trace.occurred[t] \in SUBSET Event
  BY <1>1, <1>2
<1>5. \A w \in Task : w.batch \in Seq(Event) /\ w.unread \in Seq(Event)
  BY DEF Task
<1>6. \A t \in DOMAIN watchers :
          /\ watchers[t].batch \in Seq(Event) /\ watchers[t].unread \in Seq(Event)
          /\ Pending(t) \in Seq(Event)
  BY <1>4, <1>5 DEF Pending
<1> QED BY <1>2, <1>3, <1>4, <1>6, Zenon

\* Steps that keep what every task has pending and what was sent, and add no drift.
LEMMA TasksKeep ==
    ASSUME DriftInv, UNCHANGED <<channel, trace, changes, receiver>>,
           running' \in [Kind -> BOOLEAN],
           watchers' \in Seq(Task), Len(watchers') = Len(watchers),
           \A t \in DOMAIN watchers :
              /\ watchers'[t].batch \o watchers'[t].unread = Pending(t)
              /\ watchers'[t].pc \in {"loop", "wait", "read"} => watchers'[t].batch = <<>>,
           current_drift' \in [Kind -> Nat], \A k \in Kind : current_drift'[k] <= current_drift[k]
    PROVE  DriftInv'
<1>1. DriftTypeOK'
  BY Zenon DEF DriftInv, DriftTypeOK
<1>2. DOMAIN watchers' = DOMAIN watchers
  BY DEF DriftInv, DriftTypeOK
<1>3. ChangesConserved'
  <2> SUFFICES ASSUME receiver
               PROVE  /\ \A t \in DOMAIN watchers :
                           Conserved(trace.occurred[t], trace.processed \o channel,
                                     watchers'[t].batch \o watchers'[t].unread, t)
                      /\ \A k \in Kind :
                           current_drift'[k] <= Cardinality(OfCategory(trace.processed, k))
    BY <1>2, Zenon DEF ChangesConserved
  <2>1. \A t \in DOMAIN watchers :
            Conserved(trace.occurred[t], trace.processed \o channel,
                      watchers'[t].batch \o watchers'[t].unread, t)
    BY Zenon DEF DriftInv, ChangesConserved, Pending
  <2>2. ASSUME NEW k \in Kind
        PROVE  current_drift'[k] <= Cardinality(OfCategory(trace.processed, k))
    <3> DEFINE c == Cardinality(OfCategory(trace.processed, k))
    <3>1. current_drift[k] <= c
      BY Zenon DEF DriftInv, ChangesConserved
    <3>2. c \in Nat
      BY CategoryFinite, Zenon DEF DriftInv, DriftTypeOK
    <3>3. current_drift[k] \in Nat /\ current_drift'[k] \in Nat /\ current_drift'[k] <= current_drift[k]
      BY Zenon DEF DriftInv, DriftTypeOK
    <3> HIDE DEF c
    <3>4. current_drift'[k] <= c
      BY <3>1, <3>2, <3>3
    <3> QED BY <3>4, Zenon DEF c
  <2> QED BY <2>1, <2>2, Zenon
<1> QED BY <1>1, <1>2, <1>3, Zenon DEF DriftInv

\* A task moves by itself.
LEMMA TaskMoves ==
    ASSUME DriftInv, NEW t \in DOMAIN watchers, NEW w \in Task,
           watchers' = [watchers EXCEPT ![t] = w],
           w.batch \o w.unread = Pending(t),
           w.pc \in {"loop", "wait", "read"} => w.batch = <<>>,
           running' \in [Kind -> BOOLEAN],
           UNCHANGED <<channel, receiver, current_drift, changes, trace>>
    PROVE  DriftInv'
<1>1. watchers \in Seq(Task)
  BY Zenon DEF DriftInv, DriftTypeOK
<1>2. /\ watchers' \in Seq(Task) /\ Len(watchers') = Len(watchers)
      /\ \A u \in DOMAIN watchers : watchers'[u] = IF u = t THEN w ELSE watchers[u]
  BY <1>1
<1>3. \A u \in DOMAIN watchers :
          /\ watchers'[u].batch \o watchers'[u].unread = Pending(u)
          /\ watchers'[u].pc \in {"loop", "wait", "read"} => watchers'[u].batch = <<>>
  BY <1>2, Zenon DEF DriftInv, Pending
<1>4. current_drift \in [Kind -> Nat]
  BY Zenon DEF DriftInv, DriftTypeOK
<1>5. current_drift' \in [Kind -> Nat] /\ \A k \in Kind : current_drift'[k] <= current_drift[k]
  BY <1>4
<1> QED BY <1>2, <1>3, <1>5, TasksKeep, Zenon

\* Reading splits what is unread, and nothing is in between.
LEMMA ReadSplits ==
    ASSUME NEW u \in Seq(Event), NEW n \in 0..Len(u)
    PROVE  /\ SubSeq(u, 1, n) \in Seq(Event) /\ SubSeq(u, n + 1, Len(u)) \in Seq(Event)
           /\ SubSeq(u, 1, n) \o SubSeq(u, n + 1, Len(u)) = <<>> \o u
<1> DEFINE a == SubSeq(u, 1, n)
           b == SubSeq(u, n + 1, Len(u))
<1>1. a \in Seq(Event) /\ Len(a) = n /\ \A i \in 1..n : a[i] = u[i]
  OBVIOUS
<1>2. b \in Seq(Event) /\ Len(b) = Len(u) - n /\ \A i \in 1..(Len(u) - n) : b[i] = u[n + i]
  <2>1. CASE n < Len(u)
    BY <2>1
  <2>2. CASE n = Len(u)
    BY <2>2
  <2> QED BY <2>1, <2>2
<1> HIDE DEF a, b
<1>3. Len(u) \in Nat /\ n \in Nat /\ n <= Len(u)
  OBVIOUS
<1>4. a \o b \in Seq(Event) /\ Len(a \o b) = Len(u)
  BY <1>1, <1>2, <1>3
<1>5. ASSUME NEW i \in 1..Len(u)
      PROVE  (a \o b)[i] = u[i]
  <2>1. CASE i <= n
    <3>1. i \in 1..n /\ (a \o b)[i] = a[i]
      BY <2>1, <1>1, <1>2, <1>3
    <3> QED BY <3>1, <1>1
  <2>2. CASE i > n
    <3>1. i - n \in 1..(Len(u) - n) /\ (a \o b)[i] = b[i - n] /\ n + (i - n) = i
      BY <2>2, <1>1, <1>2, <1>3
    <3> QED BY <3>1, <1>2
  <2>3. i <= n \/ i > n
    BY <1>3
  <2> QED BY <2>1, <2>2, <2>3, Zenon
<1>6. a \o b = u
  BY <1>4, <1>5, SameElements, Zenon
<1>7. <<>> \o u = u
  OBVIOUS
<1> QED BY <1>1, <1>2, <1>6, <1>7, Zenon DEF a, b

\* The loop of a task, but for the sending of an event.
LEMMA TaskKeepsInv ==
    ASSUME DriftInv, NEW t \in TaskId,
           LoopCheck(t) \/ Readable(t) \/ read_events(t) \/ ReadError(t) \/ SendFails(t) \/ clear_ready(t)
    PROVE  DriftInv'
<1> DEFINE w == watchers[t]
<1>1. t \in DOMAIN watchers
  BY Zenon DEF LoopCheck, Readable, read_events, ReadError, SendFails, clear_ready, At
<1>2. w \in Task /\ w.batch \in Seq(Event) /\ w.unread \in Seq(Event) /\ running \in [Kind -> BOOLEAN]
  BY <1>1, PipelineTypes, Zenon DEF DriftInv, DriftTypeOK
<1>3. w.pc \in {"loop", "wait", "read"} => w.batch = <<>>
  BY <1>1, Zenon DEF DriftInv
<1>4. Pending(t) = w.batch \o w.unread
  BY DEF Pending
<1> HIDE DEF w
<1>5. CASE LoopCheck(t)
  <2>1. PICK x \in Task : x = [w EXCEPT !.pc = IF running[w.kind] THEN "wait" ELSE "ended"]
    BY <1>2, Zenon DEF Task
  <2>2. watchers' = [watchers EXCEPT ![t] = x] /\ w.pc = "loop"
    BY <1>5, <2>1 DEF LoopCheck, At, w
  <2>3. x.batch = w.batch /\ x.unread = w.unread
    BY <1>2, <2>1 DEF Task
  <2>4. running' \in [Kind -> BOOLEAN] /\ UNCHANGED <<channel, receiver, current_drift, changes, trace>>
    BY <1>2, <1>5 DEF LoopCheck
  <2> QED BY <1>1, <1>3, <1>4, <2>2, <2>3, <2>4, TaskMoves, Zenon
<1>6. CASE Readable(t)
  <2>1. PICK x \in Task : x = [w EXCEPT !.pc = "read", !.fresh = FALSE]
    BY <1>2, Zenon DEF Task
  <2>2. watchers' = [watchers EXCEPT ![t] = x] /\ w.pc = "wait"
    BY <1>6, <2>1 DEF Readable, At, w
  <2>3. x.batch = w.batch /\ x.unread = w.unread
    BY <1>2, <2>1 DEF Task
  <2>4. running' \in [Kind -> BOOLEAN] /\ UNCHANGED <<channel, receiver, current_drift, changes, trace>>
    BY <1>2, <1>6 DEF Readable
  <2> QED BY <1>1, <1>3, <1>4, <2>2, <2>3, <2>4, TaskMoves, Zenon
<1>7. CASE read_events(t)
  <2> DEFINE limit == ReadLimit[w.kind]
             k == IF Len(w.unread) < limit THEN Len(w.unread) ELSE limit
  <2>1. limit \in Nat
    BY <1>2, DriftAssumption DEF Task
  <2>2. k \in 0..Len(w.unread)
    BY <1>2, <2>1
  <2>3. /\ w.pc = "read"
        /\ watchers' = [watchers EXCEPT ![t] =
               [w EXCEPT !.pc = "send", !.batch = SubSeq(w.unread, 1, k),
                         !.unread = SubSeq(w.unread, k + 1, Len(w.unread))]]
    BY <1>7 DEF read_events, At, w
  <2> HIDE DEF k
  <2>4. PICK x \in Task : x = [w EXCEPT !.pc = "send", !.batch = SubSeq(w.unread, 1, k),
                                        !.unread = SubSeq(w.unread, k + 1, Len(w.unread))]
    BY <1>2, <2>2, ReadSplits, Zenon DEF Task
  <2>5. /\ x.pc = "send" /\ x.batch = SubSeq(w.unread, 1, k)
        /\ x.unread = SubSeq(w.unread, k + 1, Len(w.unread))
    BY <1>2, <2>4, Zenon DEF Task
  <2>6. x.batch \o x.unread = Pending(t)
    BY <1>2, <1>3, <1>4, <2>2, <2>3, <2>5, ReadSplits, Zenon
  <2>7. running' \in [Kind -> BOOLEAN] /\ UNCHANGED <<channel, receiver, current_drift, changes, trace>>
    BY <1>2, <1>7, Zenon DEF read_events
  <2> QED BY <1>1, <2>3, <2>4, <2>5, <2>6, <2>7, TaskMoves, Zenon
<1>8. CASE ReadError(t) \/ SendFails(t)
  <2>1. PICK x \in Task : x = [w EXCEPT !.pc = "ended"]
    BY <1>2, Zenon DEF Task
  <2>2. watchers' = [watchers EXCEPT ![t] = x]
    BY <1>8, <2>1, Zenon DEF ReadError, SendFails, w
  <2>3. x.batch = w.batch /\ x.unread = w.unread /\ x.pc = "ended"
    BY <1>2, <2>1 DEF Task
  <2>4. running' \in [Kind -> BOOLEAN] /\ UNCHANGED <<channel, receiver, current_drift, changes, trace>>
    BY <1>2, <1>8, Zenon DEF ReadError, SendFails
  <2> QED BY <1>1, <1>4, <2>2, <2>3, <2>4, TaskMoves, Zenon
<1>9. CASE clear_ready(t)
  <2>1. PICK x \in Task : x = [w EXCEPT !.pc = "loop", !.ready = w.fresh]
    BY <1>2, Zenon DEF Task
  <2>2. watchers' = [watchers EXCEPT ![t] = x] /\ w.batch = <<>>
    BY <1>9, <2>1 DEF clear_ready, w
  <2>3. x.batch = w.batch /\ x.unread = w.unread
    BY <1>2, <2>1 DEF Task
  <2>4. running' \in [Kind -> BOOLEAN] /\ UNCHANGED <<channel, receiver, current_drift, changes, trace>>
    BY <1>2, <1>9 DEF clear_ready
  <2> QED BY <1>1, <1>4, <2>2, <2>3, <2>4, TaskMoves, Zenon
<1> QED BY <1>5, <1>6, <1>7, <1>8, <1>9

\* A task that starts has been told of nothing and has sent nothing.
LEMMA StartKeepsInv ==
    ASSUME DriftInv, NEW kind \in Kind, start(kind)
    PROVE  DriftInv'
<1> DEFINE n == Len(watchers)
<1>1. /\ watchers \in Seq(Task) /\ trace.occurred \in Seq(SUBSET Event) /\ Len(trace.occurred) = n
      /\ trace \in [occurred : Seq(SUBSET Event), processed : Seq(Message)]
      /\ n \in Nat /\ n < MaxObserverStarts
      /\ watchers' = Append(watchers, NewTask(kind))
      /\ trace' = [trace EXCEPT !.occurred = Append(trace.occurred, {})]
      /\ UNCHANGED <<channel, receiver, blacklist, current_drift, changes>>
  BY DEF DriftInv, DriftTypeOK, start
<1>2. NewTask(kind) \in Task /\ NewTask(kind).batch = <<>> /\ NewTask(kind).unread = <<>>
  BY DEF NewTask, Task
<1>3. /\ watchers' \in Seq(Task) /\ Len(watchers') = n + 1 /\ DOMAIN watchers' = 1..(n + 1)
      /\ watchers'[n + 1] = NewTask(kind) /\ \A t \in 1..n : watchers'[t] = watchers[t]
  BY <1>1, <1>2
<1>4. trace'.occurred = Append(trace.occurred, {}) /\ trace'.processed = trace.processed
  BY <1>1
<1>5. /\ trace'.occurred \in Seq(SUBSET Event) /\ Len(trace'.occurred) = n + 1
      /\ trace'.occurred[n + 1] = {} /\ \A t \in 1..n : trace'.occurred[t] = trace.occurred[t]
  <2>1. {} \in SUBSET Event
    OBVIOUS
  <2> QED BY <1>1, <1>4, <2>1
<1>6. DriftTypeOK'
  <2>1. running' \in [Kind -> BOOLEAN]
    BY DEF start, DriftInv, DriftTypeOK
  <2>2. trace' \in [occurred : Seq(SUBSET Event), processed : Seq(Message)]
    BY <1>1, <1>4, <1>5, Zenon
  <2>3. n + 1 <= MaxObserverStarts
    BY <1>1, DriftAssumption
  <2> QED BY <1>1, <1>3, <1>5, <2>1, <2>2, <2>3, Zenon DEF DriftInv, DriftTypeOK
<1> DEFINE sent == trace.processed \o channel
<1>7. sent \in Seq(Message) /\ DOMAIN watchers = 1..n
  BY PipelineTypes, Zenon
<1>8. \A i \in DOMAIN sent : sent[i].by <= n
  <2>1. trace.processed \in Seq(Message) /\ channel \in Seq(Message)
    BY DEF DriftInv, DriftTypeOK
  <2>2. ASSUME NEW i \in DOMAIN sent
        PROVE  sent[i].by <= n
    <3>1. CASE i \in DOMAIN trace.processed
      <4>1. sent[i] = trace.processed[i]
        BY <2>1, <3>1
      <4> QED BY <3>1, <4>1 DEF DriftInv
    <3>2. CASE i \notin DOMAIN trace.processed
      <4>1. PICK j \in DOMAIN channel : sent[i] = channel[j]
        <5>1. i - Len(trace.processed) \in DOMAIN channel /\ sent[i] = channel[i - Len(trace.processed)]
          BY <2>1, <2>2, <3>2
        <5> QED BY <5>1
      <4> QED BY <4>1 DEF DriftInv
    <3> QED BY <3>1, <3>2, Zenon
  <2> QED BY <2>2
<1> HIDE DEF n, sent
<1>9. Conserved({}, sent, <<>> \o <<>>, n + 1)
  <2>1. \A i \in DOMAIN sent : sent[i].by # n + 1
    BY <1>1, <1>7, <1>8 DEF Message, TaskId
  <2>2. <<>> \o <<>> = <<>> /\ DOMAIN <<>> = {}
    OBVIOUS
  <2>3. {sent[i].event : i \in {j \in DOMAIN sent : sent[j].by = n + 1}} = {}
    BY <2>1, Zenon
  <2> QED BY <2>1, <2>2, <2>3 DEF Conserved
<1>10. ChangesConserved'
  <2> SUFFICES ASSUME receiver
               PROVE  \A t \in 1..(n + 1) :
                         Conserved(trace'.occurred[t], sent, watchers'[t].batch \o watchers'[t].unread, t)
    BY <1>1, <1>3, <1>4, Zenon DEF ChangesConserved, DriftInv, sent
  <2>1. ASSUME NEW t \in 1..n
        PROVE  Conserved(trace'.occurred[t], sent, watchers'[t].batch \o watchers'[t].unread, t)
    BY <1>3, <1>5, <1>7, Zenon DEF DriftInv, ChangesConserved, sent
  <2>2. Conserved(trace'.occurred[n + 1], sent, watchers'[n + 1].batch \o watchers'[n + 1].unread, n + 1)
    BY <1>2, <1>3, <1>5, <1>9, Zenon
  <2>3. \A t \in 1..(n + 1) : t \in 1..n \/ t = n + 1
    BY <1>1, SMTT(30)
  <2> QED BY <2>1, <2>2, <2>3
<1>11. ASSUME NEW t \in 1..(n + 1)
       PROVE  /\ watchers'[t].pc \in {"loop", "wait", "read"} => watchers'[t].batch = <<>>
              /\ \A e \in trace'.occurred[t] : e.change <= changes'
  <2>1. CASE t \in 1..n
    BY <2>1, <1>1, <1>3, <1>5, <1>7 DEF DriftInv
  <2>2. CASE t = n + 1
    BY <2>2, <1>2, <1>3, <1>5, Zenon
  <2>3. t \in 1..n \/ t = n + 1
    BY <1>1
  <2> QED BY <2>1, <2>2, <2>3, Zenon
<1>12. /\ \A i \in DOMAIN channel' : channel'[i].by <= Len(watchers')
       /\ \A i \in DOMAIN trace'.processed : trace'.processed[i].by <= Len(watchers')
  <2>1. \A m \in Message : m.by \in Nat
    BY DriftAssumption DEF Message, TaskId
  <2>2. /\ \A i \in DOMAIN channel : channel[i] \in Message /\ channel[i].by <= n
        /\ \A i \in DOMAIN trace.processed : trace.processed[i] \in Message /\ trace.processed[i].by <= n
    BY DEF DriftInv, DriftTypeOK, n
  <2> QED BY <1>1, <1>3, <1>4, <2>1, <2>2
<1> QED BY <1>3, <1>6, <1>10, <1>11, <1>12, Zenon DEF DriftInv

\* The kernel tells every descriptor of the kind of one more change.
LEMMA ChangeKeepsInv ==
    ASSUME DriftInv, NEW kind \in Kind, NEW path \in PathsOf(kind), Change(kind, path)
    PROVE  DriftInv'
<1> DEFINE e == [category |-> kind, path |-> path, change |-> changes + 1]
           told == {t \in DOMAIN watchers : watchers[t].kind = kind /\ watchers[t].pc # "ended"}
           w(t) == [watchers[t] EXCEPT !.unread = Append(watchers[t].unread, e),
                                       !.ready = TRUE, !.fresh = TRUE]
           n == Len(watchers)
           occurred == [t \in 1..n |-> IF t \in told /\ receiver THEN trace.occurred[t] \cup {e}
                                       ELSE trace.occurred[t]]
<1>1. /\ changes \in Nat /\ changes + 1 \in 0..MaxChanges /\ e \in Event /\ e.change = changes + 1
      /\ n \in Nat /\ DOMAIN watchers = 1..n
  <2>1. changes \in 0..MaxChanges /\ changes < MaxChanges
    BY Zenon DEF DriftInv, DriftTypeOK, Change
  <2>2. path \in WatchedPath \cup {"netlink"}
    BY DEF PathsOf
  <2>3. changes \in Nat /\ changes + 1 \in 0..MaxChanges
    BY <2>1, DriftAssumption
  <2>4. e \in Event
    BY <2>2, <2>3 DEF Event
  <2> QED BY <2>3, <2>4, PipelineTypes, Zenon
<1>2. /\ changes' = changes + 1
      /\ watchers' = [t \in 1..n |-> IF t \notin told THEN watchers[t] ELSE w(t)]
      /\ trace' = [trace EXCEPT !.occurred = occurred]
      /\ UNCHANGED <<running, channel, receiver, blacklist, current_drift>>
  BY <1>1, Zenon DEF Change
<1> HIDE DEF e, told, n, occurred
<1>3. ASSUME NEW t \in 1..n
      PROVE  /\ w(t) \in Task /\ w(t).batch = watchers[t].batch /\ w(t).pc = watchers[t].pc
             /\ w(t).unread = Append(watchers[t].unread, e)
  <2>1. watchers[t] \in Task /\ watchers[t].unread \in Seq(Event)
    BY <1>1, PipelineTypes, Zenon
  <2>2. Append(watchers[t].unread, e) \in Seq(Event)
    BY <1>1, <2>1
  <2> QED BY <2>1, <2>2, Zenon DEF Task
<1> HIDE DEF w
<1>4. watchers' \in Seq(Task) /\ Len(watchers') = n /\ DOMAIN watchers' = 1..n
  <2>1. \A t \in 1..n : watchers[t] \in Task
    BY <1>1, PipelineTypes
  <2> QED BY <1>1, <1>2, <1>3, <2>1
<1>5. /\ trace'.occurred = occurred /\ trace'.processed = trace.processed
      /\ trace \in [occurred : Seq(SUBSET Event), processed : Seq(Message)]
  BY <1>2 DEF DriftInv, DriftTypeOK
<1>6. \A t \in 1..n : trace.occurred[t] \in SUBSET Event
  BY <1>1, PipelineTypes
<1>7. /\ occurred \in Seq(SUBSET Event) /\ Len(occurred) = n
      /\ \A t \in 1..n : occurred[t] = IF t \in told /\ receiver THEN trace.occurred[t] \cup {e}
                                       ELSE trace.occurred[t]
  <2>1. \A t \in 1..n : trace.occurred[t] \cup {e} \in SUBSET Event
    BY <1>1, <1>6
  <2> QED BY <1>1, <1>6, <2>1 DEF occurred
<1>8. DriftTypeOK'
  <2>1. trace' \in [occurred : Seq(SUBSET Event), processed : Seq(Message)]
    BY <1>2, <1>5, <1>7, SMTT(30)
  <2> QED BY <1>1, <1>2, <1>4, <1>5, <1>7, <2>1 DEF DriftInv, DriftTypeOK, n
<1>9. ASSUME NEW t \in 1..n
      PROVE  /\ watchers'[t].pc \in {"loop", "wait", "read"} => watchers'[t].batch = <<>>
             /\ \A x \in trace'.occurred[t] : x.change <= changes'
  <2>1. watchers'[t].pc = watchers[t].pc /\ watchers'[t].batch = watchers[t].batch
    BY <1>2, <1>3, Zenon
  <2>2. \A x \in trace.occurred[t] : x.change <= changes /\ x.change \in Nat
    BY <1>1, <1>6, Zenon DEF DriftInv, Event
  <2>3. \A x \in trace'.occurred[t] : x = e \/ x \in trace.occurred[t]
    BY <1>5, <1>7
  <2>4. \A x \in trace'.occurred[t] : x.change <= changes'
    BY <1>1, <1>2, <2>2, <2>3
  <2> QED BY <1>1, <2>1, <2>4, Zenon DEF DriftInv
<1>10. ASSUME receiver, NEW t \in 1..n
       PROVE  Conserved(trace'.occurred[t], trace.processed \o channel,
                        watchers'[t].batch \o watchers'[t].unread, t)
  <2> DEFINE sent == trace.processed \o channel
             b == watchers[t].batch
             u == watchers[t].unread
  <2>1. Conserved(trace.occurred[t], sent, b \o u, t)
    BY <1>1, <1>10, Zenon DEF DriftInv, ChangesConserved
  <2>2. CASE t \notin told
    BY <2>1, <2>2, <1>2, <1>5, <1>7
  <2>3. CASE t \in told
    <3>1. /\ trace'.occurred[t] = trace.occurred[t] \cup {e}
          /\ watchers'[t].batch = b /\ watchers'[t].unread = Append(u, e)
      BY <2>3, <1>2, <1>3, <1>5, <1>7, <1>10, Zenon
    <3>2. b \in Seq(Event) /\ u \in Seq(Event) /\ b \o u \in Seq(Event) /\ sent \in Seq(Message)
      BY <1>1, PipelineTypes, Zenon DEF Pending
    <3>3. \A x \in trace.occurred[t] : x.change < e.change
      <4>1. \A x \in trace.occurred[t] : x.change <= changes /\ x.change \in Nat
        BY <1>1, <1>6 DEF DriftInv, Event
      <4> QED BY <1>1, <4>1
    <3> HIDE DEF sent, b, u
    <3>4. b \o Append(u, e) = Append(b \o u, e)
      BY <3>2, <1>1
    <3>5. Conserved(trace.occurred[t] \cup {e}, sent, Append(b \o u, e), t)
      BY <2>1, <3>2, <3>3, <1>1, <1>6, ConservedOnChange, Zenon
    <3> QED BY <3>1, <3>4, <3>5, Zenon DEF sent
  <2> QED BY <2>2, <2>3
<1>11. ChangesConserved'
  <2> SUFFICES ASSUME receiver'
               PROVE  /\ \A t \in DOMAIN watchers' :
                           Conserved(trace'.occurred[t], trace'.processed \o channel',
                                     watchers'[t].batch \o watchers'[t].unread, t)
                      /\ \A k \in Kind : current_drift'[k] <= Cardinality(OfCategory(trace'.processed, k))
    BY Zenon DEF ChangesConserved
  <2> QED BY <1>2, <1>4, <1>5, <1>10, Zenon DEF DriftInv, ChangesConserved
<1>12. Len(watchers') = Len(watchers)
  BY <1>4 DEF n
<1> QED BY <1>2, <1>4, <1>5, <1>8, <1>9, <1>11, <1>12 DEF DriftInv

\* Appending to the second of two sequences appends to both together.
LEMMA ConcatAppend ==
    ASSUME NEW a \in Seq(Message), NEW b \in Seq(Message), NEW x \in Message
    PROVE  a \o Append(b, x) = Append(a \o b, x)
OBVIOUS

\* The first element of two sequences together is that of the first.
LEMMA ConcatTail ==
    ASSUME NEW S, NEW a \in Seq(S), NEW b \in Seq(S), a # <<>>
    PROVE  Tail(a) \o b = Tail(a \o b) /\ Head(a \o b) = Head(a) /\ a \o b # <<>>
<1>1. PICK p \in Nat, q \in Nat : Len(a) = p + 1 /\ Len(b) = q
  <2>1. Len(a) \in Nat \ {0} /\ Len(b) \in Nat
    OBVIOUS
  <2>2. Len(a) - 1 \in Nat /\ Len(a) = (Len(a) - 1) + 1
    BY <2>1
  <2> QED BY <2>1, <2>2, Zenon
<1> DEFINE c == a \o b
           d == Tail(a)
<1>2. /\ c \in Seq(S) /\ Len(c) = p + 1 + q
      /\ \A i \in 1..(p + 1 + q) : c[i] = IF i <= p + 1 THEN a[i] ELSE b[i - (p + 1)]
  <2>1. /\ c \in Seq(S) /\ Len(c) = Len(a) + Len(b)
        /\ \A i \in 1..(Len(a) + Len(b)) : c[i] = IF i <= Len(a) THEN a[i] ELSE b[i - Len(a)]
    BY ConcatAt, Zenon
  <2> HIDE DEF c
  <2> QED BY <1>1, <2>1, Zenon
<1>3. d \in Seq(S) /\ Len(d) = p /\ \A i \in 1..p : d[i] = a[i + 1]
  <2>1. d \in Seq(S) /\ Len(d) = Len(a) - 1 /\ \A i \in 1..Len(d) : d[i] = a[i + 1]
    OBVIOUS
  <2>2. Len(a) - 1 = p
    BY <1>1
  <2> QED BY <2>1, <2>2, Zenon
<1> HIDE DEF c, d
<1>4. c # <<>>
  BY <1>1, <1>2
<1>5. Tail(c) \in Seq(S) /\ Len(Tail(c)) = p + q /\ \A i \in 1..(p + q) : Tail(c)[i] = c[i + 1]
  <2>1. Len(c) - 1 = p + q
    BY <1>2
  <2> QED BY <1>2, <1>4, <2>1
<1>6. /\ d \o b \in Seq(S) /\ Len(d \o b) = p + q
      /\ \A i \in 1..(p + q) : (d \o b)[i] = IF i <= p THEN d[i] ELSE b[i - p]
  BY <1>1, <1>3, ConcatAt, Zenon
<1>7. ASSUME NEW i \in 1..(p + q)
      PROVE  (d \o b)[i] = Tail(c)[i]
  <2>1. i + 1 \in 1..(p + 1 + q) /\ (i + 1) - (p + 1) = i - p /\ (i + 1 <= p + 1 <=> i <= p)
    OBVIOUS
  <2>2. Tail(c)[i] = IF i <= p THEN a[i + 1] ELSE b[i - p]
    BY <1>2, <1>5, <2>1, Zenon
  <2>3. i <= p => d[i] = a[i + 1]
    BY <1>3
  <2> QED BY <1>6, <2>2, <2>3, Zenon
<1>8. d \o b = Tail(c)
  BY <1>5, <1>6, <1>7, SameElements, Zenon
<1>9. Head(c) = Head(a)
  <2>1. Head(c) = c[1] /\ Head(a) = a[1]
    BY <1>2, <1>4
  <2>2. c[1] = a[1]
    BY <1>2
  <2> QED BY <2>1, <2>2
<1> QED BY <1>4, <1>8, <1>9 DEF c, d

\* An event goes into the channel.
LEMMA SendKeepsInv ==
    ASSUME DriftInv, NEW t \in TaskId, Send(t)
    PROVE  DriftInv'
<1> DEFINE b == watchers[t].batch
           u == watchers[t].unread
           m == [by |-> t, event |-> Head(b)]
           sent == trace.processed \o channel
<1>1. /\ t \in DOMAIN watchers /\ watchers[t].pc = "send" /\ b # <<>>
      /\ receiver /\ Len(channel) < ChannelCapacity
      /\ channel' = Append(channel, m)
      /\ watchers' = [watchers EXCEPT ![t] = [watchers[t] EXCEPT !.batch = Tail(b)]]
      /\ UNCHANGED <<running, receiver, blacklist, current_drift, changes, trace>>
  BY Zenon DEF Send, At
<1>2. /\ b \in Seq(Event) /\ u \in Seq(Event) /\ sent \in Seq(Message) /\ watchers[t] \in Task
      /\ channel \in Seq(Message) /\ trace.processed \in Seq(Message) /\ watchers \in Seq(Task)
      /\ DOMAIN watchers = 1..Len(watchers)
  BY <1>1, PipelineTypes, Zenon DEF DriftInv, DriftTypeOK
<1>3. Head(b) \in Event /\ Tail(b) \in Seq(Event) /\ m \in Message
  BY <1>1, <1>2 DEF Message
<1>4. PICK w \in Task : w = [watchers[t] EXCEPT !.batch = Tail(b)]
  BY <1>2, <1>3, Zenon DEF Task
<1>5. w.batch = Tail(b) /\ w.unread = u /\ w.pc = "send"
  BY <1>1, <1>2, <1>4, Zenon DEF Task
<1>6. /\ watchers' \in Seq(Task) /\ Len(watchers') = Len(watchers) /\ DOMAIN watchers' = DOMAIN watchers
      /\ \A x \in DOMAIN watchers : watchers'[x] = IF x = t THEN w ELSE watchers[x]
  BY <1>1, <1>2, <1>4
<1>7. channel' \in Seq(Message) /\ Len(channel') <= ChannelCapacity
  BY <1>1, <1>2, <1>3, DriftAssumption
<1>8. DriftTypeOK'
  BY <1>1, <1>6, <1>7, Zenon DEF DriftInv, DriftTypeOK
<1> DEFINE s == Append(sent, m)
<1>9. trace.processed \o channel' = s
  <2> HIDE DEF m
  <2>1. trace.processed \o Append(channel, m) = Append(trace.processed \o channel, m)
    <3>1. trace.processed \in Seq(Message) /\ channel \in Seq(Message) /\ m \in Message
      BY <1>2, <1>3, Zenon
    <3> HIDE DEF b, u, sent, s
    <3> QED BY <3>1, ConcatAppend, Zenon
  <2> QED BY <1>1, <2>1, Zenon
<1>10. ASSUME NEW x \in DOMAIN watchers
       PROVE  Conserved(trace.occurred[x], s, watchers'[x].batch \o watchers'[x].unread, x)
  <2>1. /\ Conserved(trace.occurred[x], sent, Pending(x), x)
        /\ trace.occurred[x] \in SUBSET Event /\ Pending(x) \in Seq(Event)
    BY <1>1, PipelineTypes, Zenon DEF DriftInv, ChangesConserved, Pending
  <2>2. CASE x = t
    <3> HIDE DEF sent, b, u
    <3>1. watchers'[x].batch \o watchers'[x].unread = Tail(b) \o u
      BY <1>5, <1>6, <2>2, Zenon
    <3>2. Tail(b) \o u = Tail(b \o u) /\ Head(b \o u) = Head(b) /\ b \o u # <<>>
      BY <1>1, <1>2, ConcatTail, Zenon DEF b
    <3>3. Pending(x) = b \o u
      BY <2>2 DEF Pending, b, u
    <3>4. Conserved(trace.occurred[x], Append(sent, [by |-> x, event |-> Head(b \o u)]), Tail(b \o u), x)
      BY <1>2, <2>1, <3>2, <3>3, ConservedOnSend, Zenon
    <3> QED BY <2>2, <3>1, <3>2, <3>4, Zenon
  <2>3. CASE x # t
    <3>1. watchers'[x].batch \o watchers'[x].unread = Pending(x)
      BY <1>6, <2>3, Zenon DEF Pending
    <3>2. m.by # x
      BY <2>3
    <3> HIDE DEF m, sent
    <3> QED BY <1>2, <2>1, <3>1, <3>2, ConservedOnOther, Zenon
  <2> QED BY <2>2, <2>3, Zenon
<1>11. ChangesConserved'
  <2> HIDE DEF s
  <2> QED BY <1>1, <1>6, <1>9, <1>10, Zenon DEF DriftInv, ChangesConserved
<1>12. \A i \in DOMAIN channel' : channel'[i].by <= Len(watchers')
  <2>1. t \in Nat /\ t <= Len(watchers)
    BY <1>1, <1>2, DriftAssumption DEF TaskId
  <2>2. \A i \in DOMAIN channel' : channel'[i] = m \/ (i \in DOMAIN channel /\ channel'[i] = channel[i])
    <3> HIDE DEF m
    <3> QED BY <1>1, <1>2, <1>3
  <2> QED BY <1>6, <2>1, <2>2 DEF DriftInv
<1>13. ASSUME NEW x \in DOMAIN watchers
       PROVE  watchers'[x].pc \in {"loop", "wait", "read"} => watchers'[x].batch = <<>>
  BY <1>5, <1>6, Zenon DEF DriftInv
<1> QED BY <1>1, <1>6, <1>8, <1>11, <1>12, <1>13, Zenon DEF DriftInv

\* The oldest message is evaluated.
LEMMA EvaluationKeepsInv ==
    ASSUME DriftInv, process_event
    PROVE  DriftInv'
<1> DEFINE m == Head(channel)
           p == trace.processed
           c == m.event.category
<1>1. /\ receiver /\ channel # <<>> /\ channel' = Tail(channel)
      /\ current_drift' = IF is_blacklisted(m.event.path) THEN current_drift
                          ELSE [current_drift EXCEPT ![c] = current_drift[c] + 1]
      /\ trace' = [trace EXCEPT !.processed = Append(p, m)]
      /\ UNCHANGED <<running, watchers, receiver, blacklist, changes>>
  BY Zenon DEF process_event
<1>2. /\ channel \in Seq(Message) /\ p \in Seq(Message) /\ Len(channel) <= ChannelCapacity
      /\ trace \in [occurred : Seq(SUBSET Event), processed : Seq(Message)]
      /\ current_drift \in [Kind -> Nat]
  BY Zenon DEF DriftInv, DriftTypeOK
<1>3. m \in Message /\ Tail(channel) \in Seq(Message) /\ Len(Tail(channel)) = Len(channel) - 1
  BY <1>1, <1>2
<1>4. c \in Kind
  BY <1>3 DEF Message, Event
<1>5. trace'.processed = Append(p, m) /\ trace'.occurred = trace.occurred
  BY <1>1, <1>2, Zenon
<1> HIDE DEF c, p
<1>6. current_drift' \in [Kind -> Nat] /\ \A k \in Kind :
          current_drift'[k] <= current_drift[k] + IF c = k THEN 1 ELSE 0
  BY <1>1, <1>2, <1>4
<1>7. Append(p, m) \o Tail(channel) = p \o channel
  BY <1>1, <1>2, <1>3, SMTT(30)
<1>8. DriftTypeOK'
  <2>1. trace' \in [occurred : Seq(SUBSET Event), processed : Seq(Message)]
    <3>1. Append(p, m) \in Seq(Message)
      BY <1>2, <1>3
    <3> QED BY <1>1, <1>2, <3>1, Zenon
  <2>2. channel' \in Seq(Message) /\ Len(channel') <= ChannelCapacity
    BY <1>1, <1>2, <1>3, DriftAssumption
  <2> QED BY <1>1, <1>5, <1>6, <2>1, <2>2, Zenon DEF DriftInv, DriftTypeOK
<1>9. ASSUME NEW k \in Kind
      PROVE  current_drift'[k] <= Cardinality(OfCategory(trace'.processed, k))
  <2> DEFINE old == Cardinality(OfCategory(p, k))
             new == Cardinality(OfCategory(Append(p, m), k))
  <2>1. old \in Nat /\ new = old + IF c = k THEN 1 ELSE 0
    BY <1>2, <1>3, CategoryFinite, CategoryAppend, Zenon DEF c
  <2>2. current_drift[k] <= old /\ current_drift[k] \in Nat
    BY <1>1, <1>2, Zenon DEF DriftInv, ChangesConserved, p
  <2> HIDE DEF old, new
  <2>3. current_drift'[k] <= new
    BY <1>6, <2>1, <2>2
  <2> QED BY <1>5, <2>3, Zenon DEF new
<1>10. ChangesConserved'
  <2>1. \A t \in DOMAIN watchers :
            Conserved(trace'.occurred[t], trace'.processed \o channel',
                      watchers'[t].batch \o watchers'[t].unread, t)
    BY <1>1, <1>5, <1>7, Zenon DEF DriftInv, ChangesConserved, p
  <2> QED BY <1>1, <1>9, <2>1, Zenon DEF ChangesConserved
<1>11. /\ \A i \in DOMAIN channel' : channel'[i].by <= Len(watchers')
       /\ \A i \in DOMAIN trace'.processed : trace'.processed[i].by <= Len(watchers')
  <2>1. \A i \in DOMAIN channel' : i + 1 \in DOMAIN channel /\ channel'[i] = channel[i + 1]
    BY <1>1, <1>2
  <2>2. 1 \in DOMAIN channel /\ m = channel[1]
    BY <1>1, <1>2
  <2>3. \A i \in DOMAIN trace'.processed : trace'.processed[i] = m \/ (i \in DOMAIN p /\ trace'.processed[i] = p[i])
    BY <1>2, <1>3, <1>5
  <2> QED BY <1>1, <2>1, <2>2, <2>3, Zenon DEF DriftInv, p
<1> QED BY <1>1, <1>5, <1>8, <1>10, <1>11, Zenon DEF DriftInv

\* Nobody listens any more.
LEMMA DropKeepsInv ==
    ASSUME DriftInv, ReceiverDropped
    PROVE  DriftInv'
<1>1. /\ ~receiver' /\ channel' = <<>> /\ UNCHANGED <<running, watchers, blacklist, current_drift, changes>>
      /\ trace' = [occurred |-> [t \in DOMAIN watchers |-> {}], processed |-> <<>>]
  BY Zenon DEF ReceiverDropped
<1>2. DOMAIN watchers = 1..Len(watchers) /\ Len(watchers) \in Nat
  BY PipelineTypes, Zenon
<1>3. [t \in DOMAIN watchers |-> {}] \in Seq(SUBSET Event) /\ Len([t \in DOMAIN watchers |-> {}]) = Len(watchers)
  <2>1. {} \in SUBSET Event
    OBVIOUS
  <2> QED BY <1>2, <2>1
<1>4. trace'.occurred = [t \in DOMAIN watchers |-> {}] /\ trace'.processed = <<>>
  BY <1>1, Zenon
<1>5. DriftTypeOK'
  <2>1. <<>> \in Seq(Message) /\ Len(<<>>) = 0
    OBVIOUS
  <2>2. trace' \in [occurred : Seq(SUBSET Event), processed : Seq(Message)]
    BY <1>1, <1>3, <2>1, Zenon
  <2>3. receiver' \in BOOLEAN
    BY Zenon DEF ReceiverDropped
  <2>4. Len(channel') <= ChannelCapacity
    BY <1>1, <2>1, DriftAssumption
  <2> QED BY <1>1, <1>3, <1>4, <2>1, <2>2, <2>3, <2>4, Zenon DEF DriftInv, DriftTypeOK
<1>6. ChangesConserved'
  BY <1>1, Zenon DEF ChangesConserved
<1>7. /\ \A t \in DOMAIN watchers : trace'.occurred[t] = {}
      /\ DOMAIN channel' = {} /\ DOMAIN trace'.processed = {}
  BY <1>1, <1>4
<1> QED BY <1>1, <1>5, <1>6, <1>7, Zenon DEF DriftInv

\* Whatever starts and stops, however full the channel is and wherever the bursts of
\* changes fall, every task hands on each change that its descriptor was told of exactly
\* once and in order, and drift counts no more than what was evaluated.
THEOREM ChangesAreConserved == DriftSpec => []ChangesConserved
<1>1. DriftInit => DriftInv
  <2> SUFFICES ASSUME DriftInit PROVE DriftInv
    OBVIOUS
  <2>1. /\ watchers = <<>> /\ channel = <<>> /\ trace.occurred = <<>> /\ trace.processed = <<>>
        /\ DOMAIN watchers = {} /\ DOMAIN channel = {} /\ DOMAIN trace.processed = {} /\ changes = 0
    BY DEF DriftInit
  <2>2. DriftTypeOK
    <3>1. running \in [Kind -> BOOLEAN] /\ current_drift \in [Kind -> Nat]
      BY DEF DriftInit, NoDrift
    <3>2. /\ watchers \in Seq(Task) /\ channel \in Seq(Message) /\ Len(watchers) = 0 /\ Len(channel) = 0
          /\ Len(trace.occurred) = 0
      BY <2>1
    <3>3. trace \in [occurred : Seq(SUBSET Event), processed : Seq(Message)]
      BY DEF DriftInit
    <3> QED BY <2>1, <3>1, <3>2, <3>3, DriftAssumption DEF DriftInit, DriftTypeOK
  <2>3. ASSUME NEW k \in Kind
        PROVE  current_drift[k] <= Cardinality(OfCategory(trace.processed, k))
    <3>1. OfCategory(trace.processed, k) = {}
      BY <2>1 DEF OfCategory
    <3>2. Cardinality(OfCategory(trace.processed, k)) = 0
      BY <3>1, FS_EmptySet, Zenon
    <3>3. current_drift[k] = 0
      BY Zenon DEF DriftInit, NoDrift
    <3> QED BY <3>2, <3>3
  <2> QED BY <2>1, <2>2, <2>3, Zenon DEF DriftInv, ChangesConserved
<1>2. DriftInv /\ [DriftNext]_driftVars => DriftInv'
  <2> SUFFICES ASSUME DriftInv, [DriftNext]_driftVars PROVE DriftInv'
    OBVIOUS
  <2>1. /\ watchers \in Seq(Task) /\ current_drift \in [Kind -> Nat] /\ running \in [Kind -> BOOLEAN]
        /\ \A t \in DOMAIN watchers :
              /\ watchers[t].batch \o watchers[t].unread = Pending(t)
              /\ watchers[t].pc \in {"loop", "wait", "read"} => watchers[t].batch = <<>>
    BY Zenon DEF DriftInv, DriftTypeOK, Pending
  <2>2. ASSUME NEW kind \in Kind, stop(kind)
        PROVE  DriftInv'
    <3>1. running' \in [Kind -> BOOLEAN] /\ UNCHANGED <<watchers, channel, receiver, current_drift, changes, trace>>
      BY <2>1, <2>2, Zenon DEF stop
    <3>2. \A k \in Kind : current_drift'[k] <= current_drift[k]
      BY <2>1, <3>1
    <3> QED BY <2>1, <3>1, <3>2, TasksKeep, Zenon
  <2>3. CASE reset \/ \E b \in Blacklist : BlacklistChanged(b)
    <3>1. current_drift' = NoDrift /\ UNCHANGED <<running, watchers, channel, receiver, changes, trace>>
      BY <2>3 DEF reset, BlacklistChanged
    <3>2. current_drift' \in [Kind -> Nat] /\ \A k \in Kind : current_drift'[k] <= current_drift[k]
      BY <2>1, <3>1 DEF NoDrift
    <3> QED BY <2>1, <3>1, <3>2, TasksKeep, Zenon
  <2>4. CASE UNCHANGED driftVars
    <3>1. \A k \in Kind : current_drift'[k] <= current_drift[k]
      BY <2>1, <2>4 DEF driftVars
    <3> QED BY <2>1, <2>4, <3>1, TasksKeep, Zenon DEF driftVars
  <2> QED BY <2>2, <2>3, <2>4, StartKeepsInv, ChangeKeepsInv, TaskKeepsInv, SendKeepsInv,
             EvaluationKeepsInv, DropKeepsInv, Zenon DEF DriftNext
<1>3. DriftInv => ChangesConserved
  BY Zenon DEF DriftInv
<1> QED BY <1>1, <1>2, <1>3, PTL DEF DriftSpec

-----------------------------------------------------------------------------
(* Shell sessions                                                          *)

TaskPc == {"new", "setup", "allocated", "activated", "streaming", "cleanup", "unwrap",
           "report", "remove", "done", "dropped"}

\* The map is finite, so that its size is a number that one session more or less
\* changes by one.
SessionsInv ==
    /\ task \in [Session -> TaskPc]
    /\ IsFiniteSet(DOMAIN sessions)
    /\ SlotsAccounted

\* A step of a task that neither enters the map nor leaves it.
LEMMA SlotKept ==
    ASSUME SessionsInv, NEW s \in Session, NEW pc \in TaskPc, TaskAt(s, pc),
           DOMAIN sessions' = DOMAIN sessions,
           task[s] \in {"new", "done"} <=> pc \in {"new", "done"}
    PROVE  SessionsInv'
  BY DEF SessionsInv, SlotsAccounted, TaskAt, TaskPc

\* A step that is not a task's.
LEMMA SlotsUntouched ==
    ASSUME SessionsInv, UNCHANGED <<sessions, task>>
    PROVE  SessionsInv'
  BY Zenon DEF SessionsInv, SlotsAccounted

\* create_session takes a slot only below the limit.
LEMMA SlotTaken ==
    ASSUME SessionsInv, NEW s \in Session, task[s] = "new", create_session(s), TaskAt(s, "setup")
    PROVE  SessionsInv'
<1>1. DOMAIN sessions' = DOMAIN sessions \cup {s}
  BY DEF create_session
<1>2. s \notin DOMAIN sessions
  BY DEF SessionsInv, SlotsAccounted
<1>3. /\ IsFiniteSet(DOMAIN sessions \cup {s})
      /\ Cardinality(DOMAIN sessions \cup {s}) = Cardinality(DOMAIN sessions) + 1
      /\ Cardinality(DOMAIN sessions) \in Nat
  BY <1>2, FS_AddElement, FS_CardinalityType DEF SessionsInv
<1>4. Cardinality(DOMAIN sessions) + 1 <= max_sessions
  BY <1>3, SessionsAssumption DEF create_session
<1>5. /\ task' \in [Session -> TaskPc]
      /\ DOMAIN sessions' = {t \in Session : task'[t] \notin {"new", "done"}}
  BY <1>1 DEF SessionsInv, SlotsAccounted, TaskAt, TaskPc
<1>6. IsFiniteSet(DOMAIN sessions') /\ Cardinality(DOMAIN sessions') <= max_sessions
  BY <1>1, <1>3, <1>4
<1>. QED BY <1>5, <1>6 DEF SessionsInv, SlotsAccounted

\* remove gives the slot of a session that is in the map back.
LEMMA SlotFreed ==
    ASSUME SessionsInv, NEW s \in Session, task[s] \notin {"new", "done"}, remove(s),
           TaskAt(s, "done")
    PROVE  SessionsInv'
<1>1. DOMAIN sessions' = DOMAIN sessions \ {s}
  BY DEF remove
<1>2. s \in DOMAIN sessions
  BY DEF SessionsInv, SlotsAccounted
<1>3. /\ IsFiniteSet(DOMAIN sessions \ {s})
      /\ Cardinality(DOMAIN sessions \ {s}) = Cardinality(DOMAIN sessions) - 1
      /\ Cardinality(DOMAIN sessions) \in Nat
  BY <1>2, FS_RemoveElement, FS_CardinalityType DEF SessionsInv
<1>4. Cardinality(DOMAIN sessions) <= max_sessions
  BY DEF SessionsInv, SlotsAccounted
<1>5. /\ task' \in [Session -> TaskPc]
      /\ DOMAIN sessions' = {t \in Session : task'[t] \notin {"new", "done"}}
  BY <1>1 DEF SessionsInv, SlotsAccounted, TaskAt, TaskPc
<1>6. IsFiniteSet(DOMAIN sessions') /\ Cardinality(DOMAIN sessions') <= max_sessions
  BY <1>1, <1>3, <1>4, SessionsAssumption
<1>. QED BY <1>5, <1>6 DEF SessionsInv, SlotsAccounted

\* The handlers, the tasks, the shells and the clients keep the map and the tasks in step.
LEMMA SessionsStepInv == SessionsInv /\ [SessionsNext]_sessionVars => SessionsInv'
<1>. SUFFICES ASSUME SessionsInv, [SessionsNext]_sessionVars PROVE SessionsInv'
  OBVIOUS
<1>1. CASE UNCHANGED sessionVars
  BY <1>1, SlotsUntouched DEF sessionVars
<1>2. ASSUME NEW s \in Session, ShellOpen(s) PROVE SessionsInv'
  BY <1>2, SlotTaken DEF ShellOpen
<1>3. ASSUME NEW s \in Session, PtyFails(s) \/ SessionRemoved(s) PROVE SessionsInv'
  BY <1>3, SlotFreed DEF PtyFails, SessionRemoved
<1>4. ASSUME NEW s \in Session,
             \/ ShellRefused(s) \/ PtyAllocated(s) \/ SessionActivated(s) \/ TasksSpawned(s)
             \/ HandlerDropped(s) \/ WriterEnds(s)
             \/ WriteFails(s) \/ ReaderAborted(s) \/ PtyClosed(s) \/ PtyShared(s)
             \/ ExitReported(s)
      PROVE  SessionsInv'
  <2>1. DOMAIN sessions' = DOMAIN sessions
    BY <1>4 DEF ShellRefused, PtyAllocated, SessionActivated, TasksSpawned, HandlerDropped,
       WriterEnds, WriteFails,
       ReaderAborted, PtyClosed, PtyShared, ExitReported
  <2>2. \E pc \in TaskPc :
            TaskAt(s, pc) /\ (task[s] \in {"new", "done"} <=> pc \in {"new", "done"})
    BY <1>4 DEF TaskPc, ShellRefused, PtyAllocated, SessionActivated, TasksSpawned,
       HandlerDropped, WriterEnds, WriteFails,
       ReaderAborted, PtyClosed, PtyShared, ExitReported
  <2>. QED BY <2>1, <2>2, SlotKept
<1>5. ASSUME NEW s \in Session,
             \/ ReadStarts(s) \/ ReadReturns(s) \/ ReadFails(s) \/ ReaderSends(s)
             \/ ReaderStops(s) \/ ShellExits(s) \/ ClientCloses(s)
      PROVE  SessionsInv'
  BY <1>5, SlotsUntouched, Zenon DEF ReadStarts, ReadReturns, ReadFails, ReaderSends,
     ReaderStops, ShellExits, ClientCloses
<1>. QED BY <1>1, <1>2, <1>3, <1>4, <1>5, Zenon DEF SessionsNext, SetupStep, Cleanup

\* The limit of sessions counts real ones: the map holds exactly the sessions being set
\* up, used and cleaned up, and at most max_sessions, for any number of clients, however
\* handlers are dropped and shells exit; it is the safety part of SlotsReturned.
THEOREM SlotsCountSessions == SessionsSpec => []SlotsAccounted
<1>1. SessionsInit => SessionsInv
  <2>. SUFFICES ASSUME SessionsInit PROVE SessionsInv
    OBVIOUS
  <2>1. DOMAIN sessions = {} /\ task = [s \in Session |-> "new"]
    BY DEF SessionsInit
  <2>2. IsFiniteSet(DOMAIN sessions) /\ Cardinality(DOMAIN sessions) = 0
    BY <2>1, FS_EmptySet
  <2>3. task \in [Session -> TaskPc] /\ {s \in Session : task[s] \notin {"new", "done"}} = {}
    BY <2>1 DEF TaskPc
  <2>. QED BY <2>1, <2>2, <2>3, SessionsAssumption DEF SessionsInv, SlotsAccounted
<1>2. SessionsInv => SlotsAccounted
  BY DEF SessionsInv
<1>. QED BY <1>1, <1>2, SessionsStepInv, PTL DEF SessionsSpec

-----------------------------------------------------------------------------
(* The rate limiter.                                                       *)

\* What the global bucket let through since the counting began and what is left in it are
\* covered by a full bucket and the refills since; a bucket not looked at since then has
\* let nothing through.
Covered(count, from, b) ==
    /\ b.last_refill <= limiterNow /\ from <= limiterNow
    /\ b.tokens <= global_max * Minute
    /\ IF b.last_refill >= from
       THEN count * One + b.tokens <= global_max * (Minute + (b.last_refill - from))
       ELSE count = 0

\* The inductive invariant of the limiter.
LimiterInv ==
    /\ global \in BucketRecord
    /\ limiterNow \in Nat /\ window \in [from : Nat, count : Nat]
    /\ Covered(window.count, window.from, global)

\* Products of natural numbers are natural numbers.
LEMMA ProductType == \A a, b \in Nat : a * b \in Nat
  OBVIOUS

\* The constants, one by one.
LEMMA LimiterConstants ==
    Minute \in Nat \ {0} /\ One \in Nat /\ global_max \in Nat /\ global_max * Minute \in Nat
<1>1. IP_SHARE \in Nat /\ Minute \in Nat \ {0} /\ global_per_minute \in Nat
  BY LimiterAssumption
<1>2. One \in Nat /\ global_max \in Nat
  BY <1>1, ProductType DEF One, global_max
<1>. QED BY <1>1, <1>2, ProductType

\* The smaller of two numbers is one of them and above neither.
LEMMA SmallerOfTwo ==
    ASSUME NEW a \in Int, NEW b \in Int
    PROVE  MinOf(a, b) \in {a, b} /\ MinOf(a, b) <= a /\ MinOf(a, b) <= b
  BY DEF MinOf

\* A longer stretch allows no less.
LEMMA LongerAllowsMore ==
    ASSUME NEW m \in Nat, NEW x \in Nat, NEW y \in Nat, x <= y
    PROVE  m * x <= m * y /\ m * x \in Nat /\ m * y \in Nat
  OBVIOUS

\* try_acquire on a covered bucket: refills do not overlap, a token pays for a call, and
\* an idle bucket gains no more than its limit.
LEMMA AcquireCovers ==
    ASSUME NEW b \in BucketRecord, NEW count \in Nat, NEW from \in Nat,
           limiterNow \in Nat, Covered(count, from, b)
    PROVE  /\ Acquired(b, global_max) \in BucketRecord
           /\ Covered(IF Grants(b, global_max) THEN count + 1 ELSE count, from,
                      Acquired(b, global_max))
<1>. DEFINE lapse == limiterNow - b.last_refill
            gained == b.tokens + lapse * global_max
            brim == global_max * Minute
            full == MinOf(gained, brim)
            left == IF full >= One THEN full - One ELSE full
            n == IF Grants(b, global_max) THEN count + 1 ELSE count
            limit == global_max * (Minute + (limiterNow - from))
<1>0. /\ b.tokens \in Nat /\ b.last_refill \in Nat /\ b.last_refill <= limiterNow /\ from <= limiterNow
      /\ IF b.last_refill >= from
         THEN count * One + b.tokens <= global_max * (Minute + (b.last_refill - from))
         ELSE count = 0
  BY DEF BucketRecord, Covered
<1>1. lapse \in Nat /\ lapse * global_max \in Nat /\ brim \in Nat /\ count * One \in Nat
  BY <1>0, LimiterConstants, ProductType
<1>2. full \in Nat /\ full <= gained /\ full <= brim /\ gained = b.tokens + lapse * global_max
  <2>1. gained \in Nat /\ brim \in Nat
    BY <1>0, <1>1
  <2>. HIDE DEF gained, brim
  <2>2. full \in {gained, brim} /\ full <= gained /\ full <= brim
    BY <2>1, SmallerOfTwo
  <2>3. gained = b.tokens + lapse * global_max
    BY DEF gained
  <2>. QED BY <2>1, <2>2, <2>3
<1>3. Refilled(b, global_max) = [tokens |-> full, last_refill |-> limiterNow]
  BY DEF Refilled
<1>4. Grants(b, global_max) <=> full >= One
  BY <1>3 DEF Grants
<1>. HIDE DEF full, gained
<1>5. Acquired(b, global_max) = [tokens |-> left, last_refill |-> limiterNow]
  BY <1>3, <1>4 DEF Acquired
<1>6. left \in Nat /\ left <= full
  BY <1>2, LimiterConstants
<1>7. count * One + full <= limit
  <2>1. CASE b.last_refill >= from
    <3>1. global_max * (Minute + (b.last_refill - from)) + lapse * global_max = limit
      <4>1. \A x, y, z, w, v \in Int : x * (y + (z - v)) + (w - z) * x = x * (y + (w - v))
        OBVIOUS
      <4>. QED BY <1>0, <4>1, LimiterConstants
    <3>2. global_max * (Minute + (b.last_refill - from)) \in Nat
      BY <1>0, <2>1, LimiterConstants, ProductType
    <3>. HIDE DEF lapse, limit
    <3>. QED BY <1>0, <1>1, <1>2, <2>1, <3>1, <3>2
  <2>2. CASE ~(b.last_refill >= from)
    <3>1. count * One = 0
      BY <1>0, <2>2, LimiterConstants
    <3>2. brim <= limit /\ limit \in Nat
      BY <1>0, LimiterConstants, LongerAllowsMore
    <3>. HIDE DEF brim, limit
    <3>. QED BY <1>1, <1>2, <3>1, <3>2
  <2>. QED BY <2>1, <2>2
<1>8. (count + 1) * One = count * One + One
  <2>1. \A x, y \in Int : (x + 1) * y = x * y + y
    OBVIOUS
  <2>. QED BY <2>1, LimiterConstants
<1>9. n * One + left = count * One + full
  BY <1>1, <1>2, <1>4, <1>8, LimiterConstants
<1>10. left <= brim
  <2>. HIDE DEF left, brim
  <2>. QED BY <1>1, <1>2, <1>6
<1>. HIDE DEF left, n, limit, brim
<1>11. n * One + left <= limit
  BY <1>7, <1>9
<1>. QED BY <1>0, <1>5, <1>6, <1>10, <1>11 DEF Covered, BucketRecord, n, limit, brim

\* One case per call, for the clean-up, the clock and the observer.
LEMMA LimiterStepInv == LimiterInv /\ [LimiterNext]_limiterVars => LimiterInv'
<1>. SUFFICES ASSUME LimiterInv, [LimiterNext]_limiterVars PROVE LimiterInv'
  OBVIOUS
<1>0. /\ limiterNow \in Nat /\ global \in BucketRecord
      /\ window \in [from : Nat, count : Nat] /\ window.from \in Nat /\ window.count \in Nat
      /\ Covered(window.count, window.from, global)
  BY DEF LimiterInv
<1>1. CASE try_acquire \/ \E ip \in IpAddr : try_acquire_for_ip(ip)
  <2>. DEFINE n == IF Grants(global, global_max) THEN window.count + 1 ELSE window.count
  <2>1. /\ global' = Acquired(global, global_max) /\ UNCHANGED limiterNow
        /\ window' = IF Grants(global, global_max) THEN [window EXCEPT !.count = @ + 1] ELSE window
    BY <1>1 DEF try_acquire, try_acquire_for_ip
  <2>2. /\ Acquired(global, global_max) \in BucketRecord
        /\ Covered(n, window.from, Acquired(global, global_max))
    BY <1>0, AcquireCovers
  <2>3. n \in Nat /\ window' = [window EXCEPT !.count = n]
    BY <1>0, <2>1
  <2>. HIDE DEF n
  <2>4. window' \in [from : Nat, count : Nat] /\ window'.count = n /\ window'.from = window.from
    BY <1>0, <2>3
  <2>. QED BY <1>0, <2>1, <2>2, <2>4 DEF LimiterInv, Covered
<1>2. CASE LimiterTick
  <2>1. UNCHANGED <<global, window>> /\ limiterNow' = limiterNow + 1
    BY <1>2 DEF LimiterTick
  <2>. QED BY <1>0, <2>1 DEF LimiterInv, Covered, BucketRecord
<1>3. CASE Observe
  <2>1. UNCHANGED <<global, limiterNow>> /\ window' = [from |-> limiterNow, count |-> 0]
    BY <1>3 DEF Observe
  <2>2. 0 * One = 0 /\ limiterNow - limiterNow = 0 /\ Minute + 0 = Minute
    BY <1>0, LimiterConstants
  <2>3. window'.from = limiterNow /\ window'.count = 0 /\ window' \in [from : Nat, count : Nat]
    BY <1>0, <2>1
  <2>4. ASSUME global.last_refill >= limiterNow
        PROVE  0 * One + global.tokens <= global_max * (Minute + (global.last_refill - limiterNow))
    <3>1. global.last_refill = limiterNow /\ global.tokens \in Nat /\ global.tokens <= global_max * Minute
      BY <1>0, <2>4 DEF Covered, BucketRecord
    <3>. QED BY <2>2, <3>1
  <2>. QED BY <1>0, <2>1, <2>3, <2>4 DEF LimiterInv, Covered
<1>4. CASE cleanup_stale \/ UNCHANGED limiterVars
  <2>1. UNCHANGED <<global, limiterNow, window>>
    BY <1>4 DEF cleanup_stale, limiterVars
  <2>. QED BY <2>1 DEF LimiterInv, Covered
<1>. QED BY <1>1, <1>2, <1>3, <1>4 DEF LimiterNext

\* The bound on what enroll lets through holds for every rate, zero included, and every
\* stretch of time: refills do not overlap, and time idle is not saved up.
THEOREM AdmissionsAreBounded == LimiterSpec => []AdmissionBounded
<1>1. LimiterInit => LimiterInv
  <2>. SUFFICES ASSUME LimiterInit PROVE LimiterInv
    OBVIOUS
  <2>1. /\ global = [tokens |-> global_max * Minute, last_refill |-> 0] /\ limiterNow = 0
        /\ window = [from |-> 0, count |-> 0]
    BY DEF LimiterInit
  <2>2. 0 * One = 0 /\ Minute + (0 - 0) = Minute
    BY LimiterConstants
  <2>. QED BY <2>1, <2>2, LimiterConstants DEF LimiterInv, Covered, BucketRecord
<1>2. LimiterInv => AdmissionBounded
  <2>. SUFFICES ASSUME LimiterInv PROVE AdmissionBounded
    OBVIOUS
  <2>0. /\ limiterNow \in Nat /\ global.last_refill \in Nat /\ global.tokens \in Nat
        /\ window.from \in Nat /\ window.count \in Nat
        /\ Covered(window.count, window.from, global)
    BY DEF LimiterInv, BucketRecord
  <2>. DEFINE limit == global_max * (Minute + (limiterNow - window.from))
              spent == window.count * One
  <2>1. spent \in Nat /\ limit \in Nat
    BY <2>0, LimiterConstants, ProductType DEF Covered
  <2>2. CASE global.last_refill >= window.from
    <3>. DEFINE then == global_max * (Minute + (global.last_refill - window.from))
    <3>1. then <= limit /\ then \in Nat
      BY <2>0, <2>2, LimiterConstants, LongerAllowsMore DEF Covered
    <3>2. spent + global.tokens <= then
      BY <2>0, <2>2 DEF Covered
    <3>. HIDE DEF then, limit, spent
    <3>3. spent <= limit
      BY <2>0, <2>1, <3>1, <3>2
    <3>. QED BY <3>3 DEF AdmissionBounded, limit, spent
  <2>3. CASE ~(global.last_refill >= window.from)
    <3>1. spent = 0
      BY <2>0, <2>3, LimiterConstants DEF Covered
    <3>. HIDE DEF limit, spent
    <3>2. spent <= limit
      BY <2>1, <3>1
    <3>. QED BY <3>2 DEF AdmissionBounded, limit, spent
  <2>. QED BY <2>2, <2>3
<1>. QED BY <1>1, <1>2, LimiterStepInv, PTL DEF LimiterSpec
=============================================================================
