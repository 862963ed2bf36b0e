---------------------------- MODULE StreamProofs ----------------------------
(***************************************************************************)
(* Proofs about the stream that brings the journal's new entries to an     *)
(* agent, for every number of servers, callers, entries and reconnections  *)
(* and every capacity.                                                     *)
(***************************************************************************)
EXTENDS ConfigStream, TLAPS

-----------------------------------------------------------------------------
(* The update stream.  The invariant follows a number on its way: every    *)
(* entry appended since the subscription is sent, queued or about to be    *)
(* notified, in order unless it is missed, and every number of a catch-up  *)
(* that the agent has yet to pass is processed or on the wire.             *)

\* What the stream needs to know of the log: it has an entry for every number below
\* next_sequence.
LogShape == ConfigLogTypeOK /\ EntriesContiguous

\* The empty log has it.
LEMMA LogShapeInit == ConfigLogInit => LogShape
  BY DEF ConfigLogInit, LogShape, ConfigLogTypeOK, EntriesContiguous

\* AppendEntry adds the entry with the next number.
LEMMA AppendShape ==
    ASSUME LogShape, NEW e \in EntryInput, AppendEntry(e)
    PROVE  LogShape'
<1>1. Sequenced(e, next_sequence) \in ConfigEntry
  BY DEF LogShape, ConfigLogTypeOK, EntryInput, Sequenced, ConfigEntry
<1>2. next_sequence \in Nat /\ next_sequence' \in Nat /\ next_sequence' = next_sequence + 1
  BY DEF LogShape, ConfigLogTypeOK, AppendEntry
<1>3. DOMAIN entries' = DOMAIN entries \cup {next_sequence}
  BY DEF AppendEntry
<1>4. \A s \in DOMAIN entries' :
         entries'[s] = IF s = next_sequence THEN Sequenced(e, next_sequence) ELSE entries[s]
  BY <1>3 DEF AppendEntry
<1>5. ConfigLogTypeOK'
  BY <1>1, <1>2, <1>3, <1>4, Zenon DEF LogShape, ConfigLogTypeOK, AppendEntry
<1>6. EntriesContiguous'
  <2>1. DOMAIN entries' = 0..(next_sequence' - 1)
    BY <1>2, <1>3 DEF LogShape, EntriesContiguous
  <2>2. \A s \in DOMAIN entries' : entries'[s].sequence = s
    BY <1>3, <1>4 DEF LogShape, EntriesContiguous, Sequenced
  <2>. QED BY <2>1, <2>2 DEF EntriesContiguous
<1>. QED BY <1>5, <1>6 DEF LogShape

\* The connection's two ends agree, and only a live stream on the leader has a queue.
StreamPhases ==
    /\ stream.pc \in {"live", "closing"} <=> agent.state = "connected"
    /\ stream.pc = "off" \/ agent.state # "abandoned"
    /\ agent.state # "connected" => wire = <<>>
    /\ agent.state # "abandoned" => agent.reconnect_attempts <= max_reconnect_attempts
    /\ (stream.pc = "live" /\ stream.server = Leader) \/ stream.queue = <<>>

\* Every number on its way is that of an entry, and none of those that the agent
\* will be sent is behind it.
NumbersExist ==
    /\ agent.last_sequence = 0 \/ agent.last_sequence < next_sequence
    /\ \A i \in 1..Len(wire) : wire[i] >= agent.last_sequence /\ wire[i] < next_sequence
    /\ \A i \in 1..Len(stream.queue) : stream.queue[i] < next_sequence
    /\ \A c \in Client : appends[c] # None => appends[c] < next_sequence
    /\ stream.pc \in {"read", "live"} =>
          /\ agent.last_sequence <= stream.last_sent + 1
          /\ stream.last_sent = 0 \/ stream.last_sent < next_sequence

\* The wire is in order and ends at last_sent_seq.
WireIncreases ==
    /\ \A i, j \in 1..Len(wire) : i < j => wire[i] < wire[j]
    /\ (stream.pc = "live" /\ wire # <<>>) => wire[Len(wire)] = stream.last_sent

\* Between the read and the subscription the catch-up is the run of numbers that
\* begins with the agent's last one.
CatchupReady ==
    stream.pc = "read" =>
        /\ \A i \in 1..Len(stream.catchup) : stream.catchup[i] = agent.last_sequence + i - 1
        /\ agent.last_sequence + Len(stream.catchup) <= next_sequence \/ stream.catchup = <<>>
        /\ stream.last_sent = IF stream.catchup = <<>> THEN SaturatingPred(agent.last_sequence)
                              ELSE agent.last_sequence + Len(stream.catchup) - 1
        /\ stream.server = Leader =>
              \A s \in history.covered : s < agent.last_sequence + Len(stream.catchup)

OnWire(s) == \E i \in 1..Len(wire) : wire[i] = s

\* No number that a catch-up contained is jumped over: below one on the wire it is
\* processed or on the wire itself; on the leader, whose queue brings later entries,
\* that holds of all of them.
CoveredInOrder ==
    \A s \in history.covered :
        /\ s < next_sequence
        /\ s < agent.last_sequence => s \in history.processed
        /\ \A i \in 1..Len(wire) :
              s >= agent.last_sequence /\ s < wire[i] => s \in history.processed \/ OnWire(s)
        /\ (stream.pc = "live" /\ stream.server = Leader) =>
              /\ s <= stream.last_sent
              /\ s >= agent.last_sequence => s \in history.processed \/ OnWire(s)

\* An entry appended since the subscription has been sent, is in the receiver's
\* queue or waits for its notification, in the order of the numbers unless it is missed.
LiveInOrder ==
    (stream.pc = "live" /\ stream.server = Leader) =>
        /\ \A s \in 1..(next_sequence - 1) \ history.missed :
              s >= history.sub_at =>
                 /\ s <= stream.last_sent => s \in history.sent
                 /\ \/ stream.lagged
                    \/ s \in history.sent
                    \/ \E i \in 1..Len(stream.queue) : stream.queue[i] = s
                    \/ \E c \in Client : appends[c] = s
        /\ \A i, j \in 1..Len(stream.queue) :
              i < j => stream.queue[i] <= stream.queue[j] \/ stream.queue[j] \in history.missed
        /\ \A i \in 1..Len(stream.queue), c \in Client :
              appends[c] # None =>
                 stream.queue[i] <= appends[c] \/ appends[c] \in history.missed

\* The inductive invariant.
StreamInv ==
    /\ LogShape /\ StreamTypeOK
    /\ StreamPhases /\ NumbersExist /\ WireIncreases
    /\ CatchupReady /\ CoveredInOrder /\ LiveInOrder

\* The types behind the arithmetic of the stream.
StreamTyped ==
    /\ next_sequence \in Nat /\ agent.last_sequence \in Nat /\ stream.last_sent \in Nat
    /\ Len(wire) \in Nat /\ Len(stream.queue) \in Nat /\ Len(stream.catchup) \in Nat
    /\ \A i \in 1..Len(wire) : wire[i] \in Nat
    /\ \A i \in 1..Len(stream.queue) : stream.queue[i] \in Nat
    /\ \A c \in Client : appends[c] # None => appends[c] \in Nat
    /\ history.covered \subseteq Nat /\ history.missed \subseteq Nat
    /\ history.processed \subseteq Nat /\ history.sent \subseteq Nat
    /\ history.sub_at \in Nat /\ history.read_at \in Nat
    /\ agent.reconnect_attempts \in Nat
    /\ DOMAIN entries = 0..(next_sequence - 1)

\* They follow from the type invariants.
LEMMA StreamTypes == StreamInv => StreamTyped
<1>. SUFFICES ASSUME StreamInv PROVE StreamTyped
  OBVIOUS
<1>1. /\ wire \in Seq(Nat) /\ stream.queue \in Seq(Nat) /\ stream.catchup \in Seq(Nat)
      /\ next_sequence \in Nat /\ stream.last_sent \in Nat
  BY DEF StreamInv, StreamTypeOK, StreamRecord, ConfigLogTypeOK
<1>2. /\ agent.last_sequence \in Nat /\ agent.reconnect_attempts \in Nat
      /\ \A c \in Client : appends[c] \in Nat \cup {None}
  BY StreamAssumption DEF StreamInv, StreamTypeOK
<1>3. /\ history.covered \subseteq Nat /\ history.missed \subseteq Nat
      /\ history.processed \subseteq Nat /\ history.sent \subseteq Nat
      /\ history.sub_at \in Nat /\ history.read_at \in Nat
  BY DEF StreamInv, StreamTypeOK, HistoryRecord
<1>4. DOMAIN entries = 0..(next_sequence - 1)
  BY DEF StreamInv, LogShape, EntriesContiguous
<1>5. /\ Len(wire) \in Nat /\ Len(stream.queue) \in Nat /\ Len(stream.catchup) \in Nat
      /\ \A i \in 1..Len(wire) : wire[i] \in Nat
      /\ \A i \in 1..Len(stream.queue) : stream.queue[i] \in Nat
  BY <1>1, SMTT(30)
<1>. QED BY <1>1, <1>2, <1>3, <1>4, <1>5, SMTT(30) DEF StreamTyped

\* The first entry of the log is written by the first append: nothing is subscribed,
\* sent or waiting at the start.
LEMMA StreamInvInit == StreamInit => StreamInv
<1>. SUFFICES ASSUME StreamInit PROVE StreamInv
  OBVIOUS
<1>1. LogShape
  BY LogShapeInit DEF StreamInit
<1>2. /\ stream = NoStream /\ wire = <<>> /\ next_sequence = 0
      /\ appends = [c \in Client |-> None] /\ applied = [s \in Server |-> 0]
      /\ agent = [last_sequence |-> 0, reconnect_attempts |-> 0, state |-> "disconnected"]
      /\ history = [read_at |-> 0, sub_at |-> 0, sent |-> {}, covered |-> {}, processed |-> {},
                    missed |-> {}]
  BY DEF StreamInit, ConfigLogInit
<1>3. StreamTypeOK
  <2>1. stream \in StreamRecord
    BY <1>2, StreamAssumption DEF NoStream, StreamRecord
  <2>2. history \in HistoryRecord
    BY <1>2 DEF HistoryRecord
  <2>3. ConfigLogTypeOK
    BY <1>1 DEF LogShape
  <2>. QED BY <1>2, <2>1, <2>2, <2>3, StreamAssumption DEF StreamTypeOK
<1>4. StreamPhases /\ NumbersExist /\ WireIncreases
  BY <1>2, StreamAssumption DEF StreamPhases, NumbersExist, WireIncreases, NoStream
<1>5. CatchupReady /\ CoveredInOrder /\ LiveInOrder
  BY <1>2, Zenon DEF CatchupReady, CoveredInOrder, LiveInOrder, NoStream
<1>. QED BY <1>1, <1>3, <1>4, <1>5 DEF StreamInv

\* A new entry gets the next number, above everything on its way, and waits to be notified.
LEMMA AppendApplyStep ==
    ASSUME StreamInv, NEW c \in Client, NEW e \in Submission, AppendApply(c, e)
    PROVE  StreamInv'
<1>a. /\ StreamTyped /\ NumbersExist /\ CatchupReady
      /\ CoveredInOrder /\ LiveInOrder
  BY StreamTypes DEF StreamInv
<1>0. e \in EntryInput
  BY StreamAssumption
<1>1. LogShape'
  BY <1>0, AppendShape DEF AppendApply, StreamInv
<1>2. /\ next_sequence \in Nat /\ next_sequence' = next_sequence + 1 /\ appends[c] = None
      /\ appends' = [appends EXCEPT ![c] = next_sequence]
      /\ applied' = [applied EXCEPT ![Leader] = next_sequence']
      /\ stream' = stream /\ wire' = wire /\ agent' = agent /\ history' = history
  BY <1>a, Zenon DEF StreamTyped, AppendApply, AppendEntry
<1>3. StreamTypeOK'
  <2>1. applied' \in [Server -> 0..next_sequence'] /\ applied'[Leader] = next_sequence'
    BY <1>2, StreamAssumption DEF StreamInv, StreamTypeOK
  <2>2. appends' \in [Client -> Nat \cup {None}]
    BY <1>2 DEF StreamInv, StreamTypeOK
  <2>3. ConfigLogTypeOK'
    BY <1>1 DEF LogShape
  <2>. QED BY <1>2, <2>1, <2>2, <2>3 DEF StreamInv, StreamTypeOK
<1>4. appends'[c] = next_sequence /\ \A d \in Client \ {c} : appends'[d] = appends[d]
  BY <1>2 DEF StreamInv, StreamTypeOK
<1>5. StreamPhases' /\ WireIncreases'
  BY <1>2, Zenon DEF StreamInv, StreamPhases, WireIncreases
<1>6. NumbersExist'
  <2>1. \A d \in Client : appends'[d] # None => appends'[d] < next_sequence'
    BY <1>2, <1>4, <1>a DEF StreamTyped, NumbersExist
  <2>2. /\ agent.last_sequence = 0 \/ agent.last_sequence < next_sequence'
        /\ stream.pc \in {"read", "live"} =>
              stream.last_sent = 0 \/ stream.last_sent < next_sequence'
    BY <1>2, <1>a, SMTT(30) DEF StreamTyped, NumbersExist
  <2>3. \A i \in 1..Len(wire) : wire[i] >= agent.last_sequence /\ wire[i] < next_sequence'
    BY <1>2, <1>a, SMTT(30) DEF StreamTyped, NumbersExist
  <2>4. \A i \in 1..Len(stream.queue) : stream.queue[i] < next_sequence'
    BY <1>2, <1>a, SMTT(30) DEF StreamTyped, NumbersExist
  <2>. QED BY <1>2, <1>a, <2>1, <2>2, <2>3, <2>4, Zenon DEF NumbersExist
<1>7. CatchupReady'
  BY <1>2, <1>a, SMTT(30) DEF StreamTyped, CatchupReady
<1>8. CoveredInOrder'
  BY <1>2, <1>a, SMTT(30) DEF StreamTyped, CoveredInOrder, OnWire
<1>9. LiveInOrder'
  <2>. SUFFICES ASSUME stream.pc = "live", stream.server = Leader PROVE LiveInOrder'
    BY <1>2, Zenon DEF LiveInOrder
  <2>1. ASSUME NEW s \in 1..(next_sequence' - 1) \ history.missed, s >= history.sub_at
        PROVE  /\ s <= stream.last_sent => s \in history.sent
               /\ \/ stream.lagged \/ s \in history.sent
                  \/ \E i \in 1..Len(stream.queue) : stream.queue[i] = s
                  \/ \E d \in Client : appends'[d] = s
    <3>1. CASE s = next_sequence
      BY <3>1, <1>2, <1>4, <2>1, <1>a, SMTT(30) DEF StreamTyped, NumbersExist
    <3>2. CASE s # next_sequence
      <4>1. s \in 1..(next_sequence - 1) \ history.missed
        BY <3>2, <1>2
      <4>2. s # None
        BY NoneAssumption
      <4>. QED BY <1>a, <4>1, <4>2, <2>1, <1>2, <1>4, Zenon DEF LiveInOrder
    <3>. QED BY <3>1, <3>2, Zenon
  <2>2. \A i \in 1..Len(stream.queue), d \in Client :
           appends'[d] # None =>
              stream.queue[i] <= appends'[d] \/ appends'[d] \in history.missed
    <3>1. ASSUME NEW i \in 1..Len(stream.queue) PROVE stream.queue[i] <= next_sequence
      BY <1>a, SMTT(30) DEF StreamTyped, NumbersExist
    <3>2. ASSUME NEW i \in 1..Len(stream.queue), NEW d \in Client \ {c}, appends[d] # None
          PROVE  stream.queue[i] <= appends[d] \/ appends[d] \in history.missed
      BY <3>2, <1>a, Zenon DEF LiveInOrder
    <3>. QED BY <3>1, <3>2, <1>4, Zenon
  <2>3. \A i, j \in 1..Len(stream.queue) :
           i < j => stream.queue[i] <= stream.queue[j] \/ stream.queue[j] \in history.missed
    BY <1>a, Zenon DEF LiveInOrder
  <2>. QED BY <2>1, <2>2, <2>3, <1>2, Zenon DEF LiveInOrder
<1>. QED BY <1>1, <1>3, <1>5, <1>6, <1>7, <1>8, <1>9 DEF StreamInv

\* A notification either joins the end of the receiver's queue, makes the receiver lag,
\* or finds no receiver; what it overtakes is missed.
LEMMA AppendNotifyStep ==
    ASSUME StreamInv, NEW c \in Client, AppendNotify(c)
    PROVE  StreamInv'
<1>a. /\ StreamTyped /\ StreamPhases /\ NumbersExist /\ CatchupReady
      /\ WireIncreases /\ CoveredInOrder /\ LiveInOrder /\ LogShape
  BY StreamTypes DEF StreamInv
<1>. DEFINE overtaken == {s \in Range(appends) \ {None} : s < appends[c]}
<1>1. /\ appends[c] # None /\ appends' = [appends EXCEPT ![c] = None]
      /\ stream' = Received(stream, appends[c])
      /\ history' = [history EXCEPT !.missed = @ \cup overtaken]
      /\ entries' = entries /\ next_sequence' = next_sequence /\ UNCHANGED configVars
      /\ applied' = applied /\ wire' = wire /\ agent' = agent
  BY DEF AppendNotify, configVars
<1>2. appends \in [Client -> Nat \cup {None}] /\ appends[c] \in Nat
  BY <1>1 DEF StreamInv, StreamTypeOK
<1>3. /\ overtaken \subseteq Nat
      /\ \A d \in Client : appends[d] # None /\ appends[d] < appends[c] => appends[d] \in overtaken
  BY <1>2 DEF Range
<1>. HIDE DEF overtaken
<1>4. history \in HistoryRecord
  BY DEF StreamInv, StreamTypeOK
<1>5. /\ history'.missed = history.missed \cup overtaken
      /\ history'.sent = history.sent /\ history'.covered = history.covered
      /\ history'.processed = history.processed /\ history'.sub_at = history.sub_at
      /\ history' \in HistoryRecord
  BY <1>1, <1>3, <1>4 DEF HistoryRecord
<1>6. /\ appends' \in [Client -> Nat \cup {None}] /\ appends'[c] = None
      /\ \A d \in Client \ {c} : appends'[d] = appends[d]
  BY <1>1, <1>2
<1>7. stream \in StreamRecord /\ stream.queue \in Seq(Nat)
  BY Zenon DEF StreamInv, StreamTypeOK, StreamRecord
<1>8. /\ stream' \in StreamRecord
      /\ stream'.pc = stream.pc /\ stream'.server = stream.server
      /\ stream'.catchup = stream.catchup /\ stream'.last_sent = stream.last_sent
      /\ \/ stream'.queue = stream.queue
         \/ /\ stream.pc = "live" /\ stream.server = Leader
            /\ stream'.queue = Append(stream.queue, appends[c])
      /\ (stream.pc = "live" /\ stream.server = Leader) =>
            \/ stream'.queue = Append(stream.queue, appends[c]) /\ stream'.lagged = stream.lagged
            \/ stream'.queue = stream.queue /\ stream'.lagged
  <2>1. CASE stream.pc # "live" \/ stream.server # Leader
    BY <1>1, <1>7, <2>1, Zenon DEF Received
  <2>2. CASE /\ stream.pc = "live" /\ stream.server = Leader
             /\ Len(stream.queue) < BroadcastCapacity
    <3>1. stream' = [stream EXCEPT !.queue = Append(stream.queue, appends[c])]
      BY <1>1, <2>2 DEF Received
    <3>2. Append(stream.queue, appends[c]) \in Seq(Nat)
      BY <1>2, <1>7
    <3>. QED BY <1>7, <2>2, <3>1, <3>2, Zenon DEF StreamRecord
  <2>3. CASE /\ stream.pc = "live" /\ stream.server = Leader
             /\ ~(Len(stream.queue) < BroadcastCapacity)
    <3>1. stream' = [stream EXCEPT !.lagged = TRUE]
      BY <1>1, <2>3 DEF Received
    <3>. QED BY <1>7, <2>3, <3>1, Zenon DEF StreamRecord
  <2>. QED BY <2>1, <2>2, <2>3, Zenon
<1>9. stream'.queue = stream.queue \/
         /\ Len(stream'.queue) = Len(stream.queue) + 1
         /\ stream'.queue[Len(stream.queue) + 1] = appends[c]
         /\ \A i \in 1..Len(stream.queue) : stream'.queue[i] = stream.queue[i]
  BY <1>2, <1>7, <1>8
<1>10. LogShape'
  BY <1>1, <1>a DEF LogShape, ConfigLogTypeOK, EntriesContiguous, configVars
<1>11. StreamTypeOK'
  <2>1. ConfigLogTypeOK'
    BY <1>10 DEF LogShape
  <2>. QED BY <2>1, <1>1, <1>5, <1>6, <1>8, Zenon DEF StreamInv, StreamTypeOK
<1>12. StreamPhases' /\ WireIncreases'
  BY <1>a, <1>1, <1>8, ZenonT(30) DEF StreamPhases, WireIncreases
<1>13. NumbersExist'
  <2>1. \A d \in Client : appends'[d] # None => appends'[d] < next_sequence'
    BY <1>a, <1>1, <1>6 DEF NumbersExist
  <2>2. appends[c] < next_sequence
    BY <1>a, <1>1 DEF NumbersExist
  <2>3. ASSUME NEW i \in 1..Len(stream'.queue) PROVE stream'.queue[i] < next_sequence
    <3>1. CASE stream'.queue = stream.queue
      BY <3>1, <1>a, Zenon DEF NumbersExist
    <3>2. CASE stream'.queue # stream.queue
      <4>1. i \in 1..Len(stream.queue) \/ i = Len(stream.queue) + 1
        BY <3>2, <1>9, <1>a DEF StreamTyped
      <4>. QED BY <4>1, <3>2, <1>9, <2>2, <1>a, Zenon DEF NumbersExist
    <3>. QED BY <3>1, <3>2
  <2>. QED BY <1>a, <1>1, <1>8, <2>1, <2>3, Zenon DEF NumbersExist
<1>14. CatchupReady'
  BY <1>a, <1>1, <1>5, <1>8, ZenonT(30) DEF CatchupReady
<1>15. CoveredInOrder'
  BY <1>a, <1>1, <1>5, <1>8, ZenonT(30) DEF CoveredInOrder, OnWire
<1>16. ASSUME stream.pc = "live", stream.server = Leader
       PROVE  LiveInOrder'
  <2>1. ASSUME NEW s \in 1..(next_sequence - 1) \ (history.missed \cup overtaken),
               s >= history.sub_at
        PROVE  /\ s <= stream.last_sent => s \in history.sent
               /\ \/ stream'.lagged \/ s \in history.sent
                  \/ \E i \in 1..Len(stream'.queue) : stream'.queue[i] = s
                  \/ \E d \in Client : appends'[d] = s
    <3>1. /\ s <= stream.last_sent => s \in history.sent
          /\ \/ stream.lagged \/ s \in history.sent
             \/ \E i \in 1..Len(stream.queue) : stream.queue[i] = s
             \/ \E d \in Client : appends[d] = s
      BY <1>a, <1>16, <2>1, Zenon DEF LiveInOrder
    <3>2. CASE stream'.queue = stream.queue /\ stream'.lagged
      BY <3>1, <3>2, Zenon
    <3>3. CASE stream'.queue = Append(stream.queue, appends[c]) /\ stream'.lagged = stream.lagged
      <4>1. /\ Len(stream'.queue) = Len(stream.queue) + 1
            /\ stream'.queue[Len(stream.queue) + 1] = appends[c]
            /\ \A i \in 1..Len(stream.queue) : stream'.queue[i] = stream.queue[i]
        BY <3>3, <1>2, <1>7
      <4>2. ASSUME NEW i \in 1..Len(stream.queue), stream.queue[i] = s
            PROVE  \E k \in 1..Len(stream'.queue) : stream'.queue[k] = s
        <5>1. Len(stream.queue) \in Nat
          BY <1>a, Zenon DEF StreamTyped
        <5>2. i \in 1..Len(stream'.queue)
          BY <4>1, <5>1
        <5>3. stream'.queue[i] = s
          BY <4>1, <4>2, Zenon
        <5>. QED BY <5>2, <5>3, Zenon
      <4>3. ASSUME NEW d \in Client, appends[d] = s
            PROVE  \/ \E k \in 1..Len(stream'.queue) : stream'.queue[k] = s
                   \/ \E f \in Client : appends'[f] = s
        <5>1. CASE d = c
          <6>1. Len(stream.queue) + 1 \in 1..Len(stream'.queue)
            BY <4>1, <1>a DEF StreamTyped
          <6>. QED BY <6>1, <5>1, <4>1, <4>3, Zenon
        <5>2. CASE d # c
          BY <5>2, <4>3, <1>6, Zenon
        <5>. QED BY <5>1, <5>2, Zenon
      <4>. QED BY <3>1, <3>3, <4>2, <4>3, Zenon
    <3>. QED BY <3>2, <3>3, <1>8, <1>16, Zenon
  <2>2. ASSUME NEW i \in 1..Len(stream'.queue), NEW j \in 1..Len(stream'.queue), i < j
        PROVE  \/ stream'.queue[i] <= stream'.queue[j]
               \/ stream'.queue[j] \in history.missed \cup overtaken
    <3>1. CASE stream'.queue = stream.queue
      BY <3>1, <2>2, <1>a, <1>16, Zenon DEF LiveInOrder
    <3>2. CASE stream'.queue # stream.queue
      <4>1. i \in 1..Len(stream.queue) /\ (j \in 1..Len(stream.queue) \/ j = Len(stream.queue) + 1)
        BY <3>2, <2>2, <1>9, <1>a, SMTT(30) DEF StreamTyped
      <4>2. CASE j \in 1..Len(stream.queue)
        BY <4>1, <4>2, <3>2, <2>2, <1>9, <1>a, <1>16, Zenon DEF LiveInOrder
      <4>3. CASE j = Len(stream.queue) + 1
        <5>1. stream'.queue[j] = appends[c] /\ stream'.queue[i] = stream.queue[i]
          BY <4>1, <4>3, <3>2, <1>9, Zenon
        <5>. QED BY <5>1, <4>1, <1>1, <1>a, <1>16 DEF LiveInOrder
      <4>. QED BY <4>1, <4>2, <4>3, Zenon
    <3>. QED BY <3>1, <3>2, Zenon
  <2>3. ASSUME NEW i \in 1..Len(stream'.queue), NEW d \in Client, appends'[d] # None
        PROVE  \/ stream'.queue[i] <= appends'[d]
               \/ appends'[d] \in history.missed \cup overtaken
    <3>1. d # c /\ appends'[d] = appends[d] /\ appends[d] # None
      BY <2>3, <1>6, Zenon
    <3>2. CASE i \in 1..Len(stream.queue)
      <4>1. stream'.queue[i] = stream.queue[i]
        BY <3>2, <1>9, Zenon
      <4>. QED BY <3>1, <3>2, <4>1, <1>a, <1>16, Zenon DEF LiveInOrder
    <3>3. CASE i \notin 1..Len(stream.queue)
      <4>1. stream'.queue[i] = appends[c]
        BY <3>3, <1>9, <1>a, SMTT(30) DEF StreamTyped
      <4>2. appends[d] \in Nat
        BY <3>1, <1>a, Zenon DEF StreamTyped
      <4>3. appends[c] <= appends[d] \/ appends[d] < appends[c]
        BY <4>2, <1>2
      <4>. QED BY <3>1, <4>1, <4>3, <1>3, Zenon
    <3>. QED BY <3>2, <3>3, Zenon
  <2>4. stream'.pc = "live" /\ stream'.server = Leader /\ stream'.last_sent = stream.last_sent
    BY <1>8, <1>16, Zenon
  <2>. QED BY <1>1, <1>5, <2>1, <2>2, <2>3, <2>4, Zenon DEF LiveInOrder
<1>17. ASSUME ~(stream.pc = "live" /\ stream.server = Leader)
       PROVE  LiveInOrder'
  BY <1>17, <1>8, Zenon DEF LiveInOrder
<1>. QED
  BY <1>10, <1>11, <1>12, <1>13, <1>14, <1>15, <1>16, <1>17 DEF StreamInv

\* An append_entry that is dropped before its notification makes its entry a missed one.
LEMMA AppendDroppedStep ==
    ASSUME StreamInv, NEW c \in Client, AppendDropped(c)
    PROVE  StreamInv'
<1>a. /\ StreamTyped /\ StreamPhases /\ NumbersExist /\ CatchupReady
      /\ WireIncreases /\ CoveredInOrder /\ LiveInOrder /\ LogShape
  BY StreamTypes DEF StreamInv
<1>1. /\ appends[c] # None /\ appends' = [appends EXCEPT ![c] = None]
      /\ history' = [history EXCEPT !.missed = @ \cup {appends[c]}]
      /\ entries' = entries /\ next_sequence' = next_sequence /\ UNCHANGED configVars
      /\ applied' = applied /\ stream' = stream /\ wire' = wire /\ agent' = agent
  BY DEF AppendDropped, configVars
<1>2. /\ appends \in [Client -> Nat \cup {None}] /\ appends[c] \in Nat
      /\ history \in HistoryRecord
  BY <1>1 DEF StreamInv, StreamTypeOK
<1>3. /\ history'.missed = history.missed \cup {appends[c]}
      /\ history'.sent = history.sent /\ history'.covered = history.covered
      /\ history'.processed = history.processed /\ history'.sub_at = history.sub_at
      /\ history' \in HistoryRecord
  BY <1>1, <1>2 DEF HistoryRecord
<1>4. /\ appends' \in [Client -> Nat \cup {None}] /\ appends'[c] = None
      /\ \A d \in Client \ {c} : appends'[d] = appends[d]
  BY <1>1, <1>2
<1>5. LogShape'
  BY <1>1, <1>a DEF LogShape, ConfigLogTypeOK, EntriesContiguous, configVars
<1>6. StreamTypeOK'
  <2>1. ConfigLogTypeOK'
    BY <1>5 DEF LogShape
  <2>. QED BY <2>1, <1>1, <1>3, <1>4 DEF StreamInv, StreamTypeOK
<1>7. StreamPhases' /\ WireIncreases' /\ CatchupReady'
  BY <1>a, <1>1, <1>3 DEF StreamPhases, WireIncreases, CatchupReady
<1>8. NumbersExist'
  <2>1. \A d \in Client : appends'[d] # None => appends'[d] < next_sequence'
    BY <1>a, <1>1, <1>4 DEF NumbersExist
  <2>. QED BY <1>a, <1>1, <2>1 DEF NumbersExist
<1>9. CoveredInOrder'
  BY <1>a, <1>1, <1>3 DEF CoveredInOrder, OnWire
<1>10. LiveInOrder'
  <2>. SUFFICES ASSUME stream.pc = "live", stream.server = Leader PROVE LiveInOrder'
    BY <1>1 DEF LiveInOrder
  <2>1. ASSUME NEW s \in 1..(next_sequence - 1) \ (history.missed \cup {appends[c]}),
               s >= history.sub_at
        PROVE  /\ s <= stream.last_sent => s \in history.sent
               /\ \/ stream.lagged \/ s \in history.sent
                  \/ \E i \in 1..Len(stream.queue) : stream.queue[i] = s
                  \/ \E d \in Client : appends'[d] = s
    BY <2>1, <1>a, <1>4, Zenon DEF LiveInOrder
  <2>2. \A i, j \in 1..Len(stream.queue) :
           i < j => \/ stream.queue[i] <= stream.queue[j]
                    \/ stream.queue[j] \in history.missed \cup {appends[c]}
    BY <1>a, Zenon DEF LiveInOrder
  <2>3. \A i \in 1..Len(stream.queue), d \in Client :
           appends'[d] # None =>
              stream.queue[i] <= appends'[d] \/ appends'[d] \in history.missed \cup {appends[c]}
    BY <1>a, <1>4, Zenon DEF LiveInOrder
  <2>. QED BY <1>1, <1>3, <2>1, <2>2, <2>3, ZenonT(30) DEF LiveInOrder
<1>. QED BY <1>5, <1>6, <1>7, <1>8, <1>9, <1>10 DEF StreamInv

\* Replication moves only the follower's own count.
LEMMA ReplicateStep ==
    ASSUME StreamInv, NEW s \in Server, Replicate(s)
    PROVE  StreamInv'
<1>1. /\ applied[s] < next_sequence /\ applied' = [applied EXCEPT ![s] = applied[s] + 1]
      /\ UNCHANGED <<configVars, appends, stream, wire, agent, history>>
  BY DEF Replicate
<1>2. /\ applied \in [Server -> 0..next_sequence] /\ applied[Leader] = next_sequence
      /\ next_sequence \in Nat
  BY StreamTypes, Zenon DEF StreamInv, StreamTypeOK, StreamTyped
<1>3. s # Leader
  BY <1>1, <1>2
<1>4. applied' \in [Server -> 0..next_sequence] /\ applied'[Leader] = next_sequence
  BY <1>1, <1>2, <1>3, StreamAssumption
<1>5. /\ entries' = entries /\ next_sequence' = next_sequence
      /\ node_states' = node_states /\ policies' = policies /\ overlays' = overlays
      /\ appends' = appends /\ stream' = stream
      /\ wire' = wire /\ agent' = agent /\ history' = history
  BY <1>1, Zenon DEF configVars
<1>6. LogShape' /\ ConfigLogTypeOK'
  BY <1>5, Zenon DEF StreamInv, LogShape, ConfigLogTypeOK, EntriesContiguous
<1>7. StreamTypeOK'
  BY <1>4, <1>5, <1>6, Zenon DEF StreamInv, StreamTypeOK
<1>8. StreamPhases' /\ WireIncreases' /\ CatchupReady' /\ NumbersExist'
  BY <1>5, Zenon DEF StreamInv, StreamPhases, WireIncreases, CatchupReady, NumbersExist
<1>9. CoveredInOrder' /\ LiveInOrder'
  BY <1>5, Zenon DEF StreamInv, CoveredInOrder, OnWire, LiveInOrder
<1>. QED BY <1>6, <1>7, <1>8, <1>9 DEF StreamInv

\* The numbers from one on and below another, in order: what Catchup returns.
Run(from, n) == [i \in 1..(IF n > from THEN n - from ELSE 0) |-> from + i - 1]

IsRun(run, from, n) ==
    /\ run \in Seq(Nat) /\ Len(run) \in Nat
    /\ Len(run) = IF n > from THEN n - from ELSE 0
    /\ \A i \in 1..Len(run) : run[i] = from + i - 1
    /\ run = <<>> <=> n <= from
    /\ \A s \in Range(run) : s \in Nat /\ from <= s /\ s < n

\* A run counts up by one from its first number to the last below its bound.
LEMMA RunCounts ==
    ASSUME NEW n \in Nat, NEW from \in Nat
    PROVE  IsRun(Run(from, n), from, n)
<1>. DEFINE run == Run(from, n)
<1>. DEFINE len == IF n > from THEN n - from ELSE 0
<1>1. len \in Nat
  OBVIOUS
<1>2. \A i \in 1..len : from + i - 1 \in Nat
  OBVIOUS
<1>3. PICK k \in Nat : k = len
  BY <1>1
<1>4. run = [i \in 1..k |-> from + i - 1]
  BY <1>3 DEF Run
<1>5. \A i \in 1..k : from + i - 1 \in Nat
  BY <1>2, <1>3
<1>. HIDE DEF len, run
<1>6. run \in Seq(Nat) /\ Len(run) = k /\ \A i \in 1..k : run[i] = from + i - 1
  BY <1>4, <1>5
<1>7. run = <<>> <=> k = 0
  BY <1>6
<1>8. k = 0 <=> n <= from
  BY <1>3 DEF len
<1>9. ASSUME NEW s \in Range(run) PROVE s \in Nat /\ from <= s /\ s < n
  <2>1. DOMAIN run = 1..k
    BY <1>4
  <2>2. PICK i \in 1..k : s = run[i]
    BY <2>1 DEF Range
  <2>3. s = from + i - 1
    BY <2>2, <1>6
  <2>4. k > 0 /\ n > from /\ k = n - from
    BY <2>2, <1>3 DEF len
  <2>. QED BY <2>2, <2>3, <2>4
<1>10. Len(run) = IF n > from THEN n - from ELSE 0
  BY <1>3, <1>6 DEF len
<1>11. IsRun(run, from, n)
  BY <1>6, <1>7, <1>8, <1>9, <1>10, Zenon DEF IsRun
<1>. QED BY <1>11 DEF run

\* Every step but an append leaves the log alone.
LEMMA LogStays ==
    ASSUME StreamInv, UNCHANGED configVars
    PROVE  LogShape' /\ ConfigLogTypeOK' /\ next_sequence' = next_sequence
  BY Zenon DEF configVars, StreamInv, LogShape, ConfigLogTypeOK, EntriesContiguous

\* The read of the catch-up; on the leader it reaches the end of the log.
LEMMA SubscribeReadStep ==
    ASSUME StreamInv, NEW srv \in Server, SubscribeRead(srv)
    PROVE  StreamInv'
<1>a. /\ StreamTyped /\ StreamPhases /\ NumbersExist /\ CatchupReady
      /\ WireIncreases /\ CoveredInOrder /\ LiveInOrder
  BY StreamTypes DEF StreamInv
<1>0. /\ stream \in StreamRecord /\ history \in HistoryRecord
      /\ applied[srv] \in 0..next_sequence /\ (srv = Leader => applied[srv] = next_sequence)
  BY Zenon DEF StreamInv, StreamTypeOK
<1>1. PICK n \in Nat : n = applied[srv]
  BY <1>a, <1>0 DEF StreamTyped
<1>2. PICK from \in Nat : from = agent.last_sequence
  BY <1>a, Zenon DEF StreamTyped
<1>3. PICK run : run = Catchup(srv, from)
  OBVIOUS
<1>4. run = Run(from, n) /\ IsRun(run, from, n)
  BY <1>1, <1>3, RunCounts, Zenon DEF Catchup, Run
<1>5. /\ run \in Seq(Nat) /\ Len(run) \in Nat
      /\ Len(run) = IF n > from THEN n - from ELSE 0
      /\ \A i \in 1..Len(run) : run[i] = from + i - 1
      /\ run = <<>> <=> n <= from
      /\ \A s \in Range(run) : s \in Nat /\ from <= s /\ s < n
  BY <1>4, Zenon DEF IsRun
<1>. DEFINE sent == IF run = <<>> THEN SaturatingPred(from) ELSE run[Len(run)]
<1>6. /\ agent.state = "disconnected" /\ stream.pc = "off"
      /\ stream' = [NoStream EXCEPT !.pc = "read", !.server = srv, !.catchup = run,
                                    !.last_sent = sent]
      /\ history' = [history EXCEPT !.read_at = n, !.sent = {}, !.covered = @ \cup Range(run)]
      /\ UNCHANGED configVars
      /\ applied' = applied /\ appends' = appends /\ wire' = wire /\ agent' = agent
  BY <1>1, <1>2, <1>3 DEF SubscribeRead
<1>7. /\ run # <<>> => sent = from + Len(run) - 1
      /\ run = <<>> => sent = SaturatingPred(from)
      /\ sent \in Nat
  <2>1. CASE run = <<>>
    BY <2>1 DEF SaturatingPred
  <2>2. CASE run # <<>>
    <3>1. Len(run) \in 1..Len(run) /\ Len(run) > 0
      BY <2>2, <1>5
    <3>. QED BY <2>2, <3>1, <1>5, SMTT(30)
  <2>. QED BY <2>1, <2>2, Zenon
<1>. HIDE DEF sent
<1>8. /\ stream' \in StreamRecord /\ stream'.pc = "read" /\ stream'.server = srv
      /\ stream'.catchup = run /\ stream'.last_sent = sent /\ stream'.queue = <<>>
  <2>1. stream' = [pc |-> "read", server |-> srv, catchup |-> run, last_sent |-> sent,
                   queue |-> <<>>, lagged |-> FALSE]
    BY <1>6, Zenon DEF NoStream
  <2>2. <<>> \in Seq(Nat)
    OBVIOUS
  <2>. QED BY <2>1, <2>2, <1>5, <1>7, Zenon DEF StreamRecord
<1>9. Range(run) \subseteq Nat
  BY <1>5
<1>10. history' \in HistoryRecord /\ history'.covered = history.covered \cup Range(run)
       /\ history'.processed = history.processed
  BY <1>0, <1>6, <1>9, Zenon DEF HistoryRecord
<1>11. LogShape' /\ ConfigLogTypeOK' /\ next_sequence' = next_sequence
  BY <1>6, LogStays
<1>12. StreamTypeOK'
  BY <1>6, <1>8, <1>10, <1>11 DEF StreamInv, StreamTypeOK
<1>13. wire = <<>> /\ Len(wire) = 0
  BY <1>a, <1>6 DEF StreamPhases
<1>14. StreamPhases' /\ WireIncreases'
  BY <1>a, <1>6, <1>8, <1>13 DEF StreamPhases, WireIncreases
<1>15. /\ next_sequence \in Nat /\ n <= next_sequence /\ (from = 0 \/ from < next_sequence)
       /\ (srv = Leader => n = next_sequence)
  BY <1>a, <1>0, <1>1, <1>2 DEF NumbersExist, StreamTyped
<1>16. from <= sent + 1 /\ (sent = 0 \/ sent < next_sequence)
  <2>1. CASE run = <<>>
    BY <2>1, <1>7, <1>15 DEF SaturatingPred
  <2>2. CASE run # <<>>
    BY <2>2, <1>5, <1>7, <1>15
  <2>. QED BY <2>1, <2>2
<1>17. NumbersExist'
  BY <1>a, <1>2, <1>6, <1>8, <1>11, <1>13, <1>16 DEF NumbersExist
<1>18. CatchupReady'
  <2>1. from + Len(run) <= next_sequence \/ run = <<>>
    BY <1>5, <1>15
  <2>2. ASSUME srv = Leader, NEW s \in history.covered \cup Range(run)
        PROVE  s < from + Len(run)
    <3>1. s \in Nat /\ s < next_sequence
      BY <1>a, <1>5, <1>15 DEF CoveredInOrder, StreamTyped
    <3>. QED BY <3>1, <2>2, <1>5, <1>15
  <2>. QED BY <1>2, <1>5, <1>6, <1>7, <1>8, <1>10, <1>11, <2>1, <2>2, SMTT(30) DEF CatchupReady
<1>19. CoveredInOrder'
  <2>1. ASSUME NEW s \in history.covered \cup Range(run)
        PROVE  s < next_sequence /\ (s < from => s \in history.processed)
    <3>1. CASE s \in history.covered
      BY <3>1, <1>2, <1>a, Zenon DEF CoveredInOrder
    <3>2. CASE s \in Range(run)
      BY <3>2, <1>5, <1>15
    <3>. QED BY <2>1, <3>1, <3>2, Zenon
  <2>. QED BY <1>2, <1>6, <1>8, <1>10, <1>11, <1>13, <2>1 DEF CoveredInOrder
<1>20. LiveInOrder'
  BY <1>8, Zenon DEF LiveInOrder
<1>. QED BY <1>11, <1>12, <1>14, <1>17, <1>18, <1>19, <1>20, Zenon DEF StreamInv

\* The subscription puts the catch-up on the wire; what was appended since the read
\* stays out of LiveInOrder, which begins at the subscription.
LEMMA SubscribeLiveStep ==
    ASSUME StreamInv, SubscribeLive
    PROVE  StreamInv'
<1>a. /\ StreamTyped /\ StreamPhases /\ NumbersExist /\ CatchupReady
      /\ WireIncreases /\ CoveredInOrder /\ LiveInOrder
  BY StreamTypes DEF StreamInv
<1>0. /\ stream \in StreamRecord /\ history \in HistoryRecord
      /\ stream.server \in Server /\ applied[stream.server] \in 0..next_sequence
      /\ applied[Leader] = next_sequence
      /\ agent \in [last_sequence : Nat, reconnect_attempts : 0..(max_reconnect_attempts + 1),
                    state : {"disconnected", "connected", "abandoned"}]
  BY Zenon DEF StreamInv, StreamTypeOK, StreamRecord
<1>1. PICK run \in Seq(Nat) : run = stream.catchup
  BY <1>0 DEF StreamRecord
<1>2. PICK from \in Nat : from = agent.last_sequence
  BY <1>a, Zenon DEF StreamTyped
<1>3. PICK n \in Nat : n = applied[stream.server]
  BY <1>a, <1>0 DEF StreamTyped
<1>4. /\ stream.pc = "read"
      /\ stream' = [stream EXCEPT !.pc = "live", !.catchup = <<>>]
      /\ wire' = run
      /\ agent' = [agent EXCEPT !.state = "connected", !.reconnect_attempts = 0]
      /\ history' = [history EXCEPT !.sub_at = n, !.sent = Range(run)]
      /\ UNCHANGED configVars /\ applied' = applied /\ appends' = appends
  BY <1>1, <1>3 DEF SubscribeLive
<1>5. /\ Len(run) \in Nat /\ \A i \in 1..Len(run) : run[i] \in Nat
      /\ \A i \in 1..Len(run) : run[i] = from + i - 1
      /\ from + Len(run) <= next_sequence \/ run = <<>>
      /\ stream.last_sent = IF run = <<>> THEN SaturatingPred(from) ELSE from + Len(run) - 1
      /\ stream.server = Leader => \A s \in history.covered : s < from + Len(run)
      /\ stream.queue = <<>>
  <2>1. Len(run) \in Nat /\ \A i \in 1..Len(run) : run[i] \in Nat
    OBVIOUS
  <2>2. stream.queue = <<>>
    BY <1>a, <1>4 DEF StreamPhases
  <2>. QED BY <2>1, <2>2, <1>a, <1>1, <1>2, <1>4 DEF CatchupReady
<1>6. Range(run) \subseteq Nat
  BY <1>5 DEF Range
<1>7. /\ stream' \in StreamRecord /\ stream'.pc = "live" /\ stream'.server = stream.server
      /\ stream'.last_sent = stream.last_sent /\ stream'.queue = <<>>
  BY <1>0, <1>4, <1>5, Zenon DEF StreamRecord
<1>8. /\ history' \in HistoryRecord /\ history'.covered = history.covered
      /\ history'.processed = history.processed /\ history'.sub_at = n
  BY <1>0, <1>4, <1>6, Zenon DEF HistoryRecord
<1>9. /\ agent' \in [last_sequence : Nat, reconnect_attempts : 0..(max_reconnect_attempts + 1),
                     state : {"disconnected", "connected", "abandoned"}]
      /\ agent'.last_sequence = from /\ agent'.state = "connected"
      /\ agent'.reconnect_attempts = 0
  <2>1. 0 \in 0..(max_reconnect_attempts + 1)
    BY StreamAssumption
  <2>. QED BY <2>1, <1>0, <1>2, <1>4, Zenon
<1>10. LogShape' /\ ConfigLogTypeOK' /\ next_sequence' = next_sequence
  BY <1>4, LogStays
<1>11. StreamTypeOK'
  BY <1>4, <1>7, <1>8, <1>9, <1>10 DEF StreamInv, StreamTypeOK
<1>12. StreamPhases'
  BY <1>4, <1>7, <1>9, StreamAssumption DEF StreamPhases
<1>13. WireIncreases'
  <2>1. \A i, j \in 1..Len(run) : i < j => run[i] < run[j]
    BY <1>5
  <2>2. run # <<>> => run[Len(run)] = stream.last_sent
    <3>1. run # <<>> => Len(run) \in 1..Len(run)
      BY <1>5
    <3>. QED BY <3>1, <1>5, Zenon
  <2>. QED BY <2>1, <2>2, <1>4, <1>7 DEF WireIncreases
<1>14. NumbersExist'
  <2>1. \A i \in 1..Len(run) : run[i] >= from /\ run[i] < next_sequence
    <3>1. ASSUME NEW i \in 1..Len(run) PROVE run[i] >= from /\ run[i] < next_sequence
      <4>1. run # <<>> /\ next_sequence \in Nat
        BY <1>5, <1>a DEF StreamTyped
      <4>. QED BY <4>1, <1>5
    <3>. QED BY <3>1
  <2>2. from <= stream.last_sent + 1 /\ (stream.last_sent = 0 \/ stream.last_sent < next_sequence)
    BY <1>a, <1>2, <1>4 DEF NumbersExist
  <2>3. from = 0 \/ from < next_sequence
    BY <1>a, <1>2, Zenon DEF NumbersExist
  <2>4. \A c \in Client : appends[c] # None => appends[c] < next_sequence
    BY <1>a, Zenon DEF NumbersExist
  <2>. QED BY <2>1, <2>2, <2>3, <2>4, <1>4, <1>7, <1>9, <1>10 DEF NumbersExist
<1>15. CatchupReady'
  BY <1>7, Zenon DEF CatchupReady
<1>16. CoveredInOrder'
  <2>. SUFFICES ASSUME NEW s \in history.covered
                PROVE  /\ s < next_sequence
                       /\ s < from => s \in history.processed
                       /\ \A i \in 1..Len(run) :
                             s >= from /\ s < run[i] => \E j \in 1..Len(run) : run[j] = s
                       /\ stream.server = Leader =>
                             /\ s <= stream.last_sent
                             /\ s >= from => \E j \in 1..Len(run) : run[j] = s
    BY <1>4, <1>7, <1>8, <1>9, <1>10 DEF CoveredInOrder, OnWire
  <2>1. s \in Nat
    BY <1>a, Zenon DEF StreamTyped
  <2>2. s < next_sequence /\ (s < from => s \in history.processed)
    BY <1>a, <1>2, Zenon DEF CoveredInOrder
  <2>3. ASSUME s >= from, s < from + Len(run) PROVE \E j \in 1..Len(run) : run[j] = s
    <3>1. s - from + 1 \in 1..Len(run)
      BY <2>1, <2>3, <1>5
    <3>2. run[s - from + 1] = s
      <4>1. PICK k \in 1..Len(run) : k = s - from + 1
        BY <3>1, Zenon
      <4>2. run[k] = from + k - 1
        BY <1>5, Zenon
      <4>. QED BY <4>1, <4>2, <2>1
    <3>. QED BY <3>1, <3>2, Zenon
  <2>4. ASSUME NEW i \in 1..Len(run), s >= from, s < run[i] PROVE s < from + Len(run)
    <3>1. run[i] = from + i - 1
      BY <1>5
    <3>. QED BY <3>1, <2>1, <2>4, <1>5
  <2>5. ASSUME stream.server = Leader PROVE s < from + Len(run) /\ s <= stream.last_sent
    <3>1. s < from + Len(run)
      BY <2>5, <1>5, Zenon
    <3>2. CASE run = <<>>
      BY <3>1, <3>2, <2>1, <1>5 DEF SaturatingPred
    <3>3. CASE run # <<>>
      BY <3>1, <3>3, <2>1, <1>5
    <3>. QED BY <3>1, <3>2, <3>3, Zenon
  <2>. QED BY <2>2, <2>3, <2>4, <2>5, Zenon
<1>17. LiveInOrder'
  <2>1. stream.server = Leader => n = next_sequence
    BY <1>0, <1>3, Zenon
  <2>2. stream.server = Leader => \A s \in 1..(next_sequence - 1) : ~(s >= n)
    BY <2>1
  <2>3. Len(stream'.queue) = 0
    BY <1>7
  <2>. QED BY <2>2, <2>3, <1>7, <1>8, <1>10 DEF LiveInOrder
<1>. QED BY <1>10, <1>11, <1>12, <1>13, <1>14, <1>15, <1>16, <1>17, Zenon DEF StreamInv

\* A sequence without its head.
LEMMA TailShifts ==
    ASSUME NEW q \in Seq(Nat), q # <<>>
    PROVE  /\ Tail(q) \in Seq(Nat) /\ Head(q) = q[1] /\ q[1] \in Nat
           /\ Len(q) \in Nat /\ Len(q) >= 1 /\ 1 \in 1..Len(q)
           /\ Len(Tail(q)) = Len(q) - 1
           /\ \A i \in 1..Len(Tail(q)) : Tail(q)[i] = q[i + 1] /\ i + 1 \in 1..Len(q)
           /\ \A i \in 1..Len(q) : i = 1 \/ (i - 1 \in 1..Len(Tail(q)) /\ Tail(q)[i - 1] = q[i])
<1>1. /\ Tail(q) \in Seq(Nat) /\ Head(q) = q[1] /\ q[1] \in Nat
      /\ Len(q) \in Nat /\ Len(q) >= 1 /\ 1 \in 1..Len(q)
      /\ Len(Tail(q)) = Len(q) - 1
  OBVIOUS
<1>2. \A i \in 1..Len(Tail(q)) : Tail(q)[i] = q[i + 1] /\ i + 1 \in 1..Len(q)
  OBVIOUS
<1>3. ASSUME NEW i \in 1..Len(q), i # 1
      PROVE  i - 1 \in 1..Len(Tail(q)) /\ Tail(q)[i - 1] = q[i]
  <2>1. i - 1 \in 1..Len(Tail(q))
    BY <1>1, <1>3
  <2>2. PICK k \in 1..Len(Tail(q)) : k = i - 1
    BY <2>1
  <2>3. Tail(q)[k] = q[k + 1]
    BY <1>2
  <2>4. k + 1 = i
    BY <2>2
  <2>. QED BY <2>1, <2>2, <2>3, <2>4
<1>. QED BY <1>1, <1>2, <1>3, Zenon

\* The receiver's queue loses its head q[1]: what the next two lemmas share.
LEMMA QueueTail ==
    ASSUME StreamInv, stream.pc = "live", stream.server = Leader, ~stream.lagged,
           stream.queue # <<>>
    PROVE  LET q == stream.queue
               rest == Tail(stream.queue)
           IN  /\ \A i \in 1..Len(rest) : rest[i] \in Nat /\ rest[i] < next_sequence
               /\ \A i, j \in 1..Len(rest) :
                     i < j => rest[i] <= rest[j] \/ rest[j] \in history.missed
               /\ \A i \in 1..Len(rest), c \in Client :
                     appends[c] # None => rest[i] <= appends[c] \/ appends[c] \in history.missed
               /\ \A s \in 1..(next_sequence - 1) \ history.missed :
                     s >= history.sub_at =>
                        \/ s \in history.sent \/ s = q[1]
                        \/ q[1] < s /\ \E i \in 1..Len(rest) : rest[i] = s
                        \/ q[1] < s /\ \E c \in Client : appends[c] = s
<1>a. StreamTyped /\ NumbersExist /\ LiveInOrder
  BY StreamTypes, Zenon DEF StreamInv
<1>1. PICK q \in Seq(Nat) : q = stream.queue
  BY Zenon DEF StreamInv, StreamTypeOK, StreamRecord
<1>2. PICK rest \in Seq(Nat) : rest = Tail(q)
  BY <1>1, TailShifts, Zenon
<1>3. /\ q[1] \in Nat /\ Len(q) \in Nat /\ 1 \in 1..Len(q) /\ Len(rest) = Len(q) - 1
      /\ \A i \in 1..Len(rest) : rest[i] = q[i + 1] /\ i + 1 \in 1..Len(q)
      /\ \A i \in 1..Len(q) : i = 1 \/ (i - 1 \in 1..Len(rest) /\ rest[i - 1] = q[i])
  BY <1>1, <1>2, TailShifts, ZenonT(30)
<1>4. /\ \A i \in 1..Len(q) : q[i] \in Nat /\ q[i] < next_sequence
      /\ \A i, j \in 1..Len(q) : i < j => q[i] <= q[j] \/ q[j] \in history.missed
      /\ \A i \in 1..Len(q), c \in Client :
            appends[c] # None => q[i] <= appends[c] \/ appends[c] \in history.missed
      /\ \A s \in 1..(next_sequence - 1) \ history.missed :
            s >= history.sub_at =>
               \/ s \in history.sent
               \/ \E i \in 1..Len(q) : q[i] = s
               \/ \E c \in Client : appends[c] = s
  <2>1. \A i \in 1..Len(q) : q[i] \in Nat /\ q[i] < next_sequence
    BY <1>a, <1>1, SMTT(30) DEF StreamTyped, NumbersExist
  <2>. QED BY <2>1, <1>a, <1>1, Zenon DEF LiveInOrder
<1>5. \A i \in 1..Len(rest) : rest[i] \in Nat /\ rest[i] < next_sequence
  BY <1>3, <1>4, SMTT(30)
<1>6. ASSUME NEW i \in 1..Len(rest), NEW j \in 1..Len(rest), i < j
      PROVE  rest[i] <= rest[j] \/ rest[j] \in history.missed
  <2>1. i + 1 \in 1..Len(q) /\ j + 1 \in 1..Len(q) /\ i + 1 < j + 1
    BY <1>3, <1>6
  <2>2. q[i + 1] <= q[j + 1] \/ q[j + 1] \in history.missed
    BY <2>1, <1>4, Zenon
  <2>. QED BY <2>2, <1>3, Zenon
<1>7. ASSUME NEW i \in 1..Len(rest), NEW c \in Client, appends[c] # None
      PROVE  rest[i] <= appends[c] \/ appends[c] \in history.missed
  <2>1. q[i + 1] <= appends[c] \/ appends[c] \in history.missed
    BY <1>3, <1>4, <1>7, SMTT(30)
  <2>. QED BY <2>1, <1>3, Zenon
<1>8. ASSUME NEW s \in 1..(next_sequence - 1) \ history.missed, s >= history.sub_at,
             s \notin history.sent, s # q[1]
      PROVE  \/ q[1] < s /\ \E i \in 1..Len(rest) : rest[i] = s
             \/ q[1] < s /\ \E c \in Client : appends[c] = s
  <2>1. CASE \E i \in 1..Len(q) : q[i] = s
    <3>1. PICK i \in 1..Len(q) : q[i] = s
      BY <2>1, Zenon
    <3>2. i # 1 /\ i - 1 \in 1..Len(rest) /\ rest[i - 1] = s
      BY <3>1, <1>3, <1>8, SMTT(30)
    <3>3. 1 < i
      BY <3>2, <1>3
    <3>4. q[1] <= q[i]
      BY <3>1, <3>3, <1>3, <1>4, Zenon
    <3>5. q[1] < s
      BY <3>1, <3>4, <1>3, <1>8
    <3>. QED BY <3>2, <3>5, Zenon
  <2>2. CASE \E c \in Client : appends[c] = s
    <3>1. PICK c \in Client : appends[c] = s
      BY <2>2, Zenon
    <3>2. s # None
      BY NoneAssumption
    <3>3. q[1] <= s
      BY <3>1, <3>2, <1>3, <1>4, Zenon
    <3>. QED BY <3>1, <3>3, <1>3, <1>8
  <2>. QED BY <2>1, <2>2, <1>4, <1>8, Zenon
<1>. QED BY <1>1, <1>2, <1>5, <1>6, <1>7, <1>8, Zenon

\* The task drops what it has sent: at or below last_sent_seq everything is sent.
LEMMA LiveSkipStep ==
    ASSUME StreamInv, LiveSkip
    PROVE  StreamInv'
<1>a. /\ StreamTyped /\ StreamPhases /\ NumbersExist /\ CatchupReady
      /\ WireIncreases /\ CoveredInOrder /\ LiveInOrder
  BY StreamTypes DEF StreamInv
<1>0. stream \in StreamRecord
  BY DEF StreamInv, StreamTypeOK
<1>1. PICK q \in Seq(Nat) : q = stream.queue
  BY <1>0 DEF StreamRecord
<1>2. /\ stream.pc = "live" /\ ~stream.lagged /\ q # <<>> /\ q[1] <= stream.last_sent
      /\ stream.server = Leader
      /\ stream' = [stream EXCEPT !.queue = Tail(q)]
      /\ UNCHANGED configVars
      /\ applied' = applied /\ appends' = appends /\ wire' = wire
      /\ agent' = agent /\ history' = history
  BY <1>a, <1>1, TailShifts DEF LiveSkip, StreamPhases
<1>3. PICK rest \in Seq(Nat) : rest = Tail(q)
  BY <1>1, <1>2, TailShifts, Zenon
<1>4. /\ stream' \in StreamRecord /\ stream'.pc = "live" /\ stream'.server = Leader
      /\ stream'.last_sent = stream.last_sent /\ stream'.queue = rest
  BY <1>0, <1>2, <1>3, Zenon DEF StreamRecord
<1>5. LogShape' /\ ConfigLogTypeOK' /\ next_sequence' = next_sequence
  BY <1>2, LogStays
<1>6. StreamTypeOK'
  BY <1>2, <1>4, <1>5, SMTT(30) DEF StreamInv, StreamTypeOK
<1>7. /\ \A i \in 1..Len(rest) : rest[i] \in Nat /\ rest[i] < next_sequence
      /\ \A i, j \in 1..Len(rest) : i < j => rest[i] <= rest[j] \/ rest[j] \in history.missed
      /\ \A i \in 1..Len(rest), c \in Client :
            appends[c] # None => rest[i] <= appends[c] \/ appends[c] \in history.missed
      /\ \A s \in 1..(next_sequence - 1) \ history.missed :
            s >= history.sub_at =>
               \/ s \in history.sent \/ s = q[1]
               \/ q[1] < s /\ \E i \in 1..Len(rest) : rest[i] = s
               \/ q[1] < s /\ \E c \in Client : appends[c] = s
  BY <1>1, <1>2, <1>3, QueueTail, Zenon
<1>8. StreamPhases' /\ WireIncreases' /\ CatchupReady'
  BY <1>a, <1>2, <1>4 DEF StreamPhases, WireIncreases, CatchupReady
<1>9. NumbersExist'
  BY <1>a, <1>2, <1>4, <1>5, <1>7, SMTT(30) DEF NumbersExist
<1>10. CoveredInOrder'
  BY <1>a, <1>2, <1>4, <1>5 DEF CoveredInOrder, OnWire
<1>11. LiveInOrder'
  <2>1. ASSUME NEW s \in 1..(next_sequence - 1) \ history.missed, s >= history.sub_at
        PROVE  /\ s <= stream.last_sent => s \in history.sent
               /\ \/ s \in history.sent
                  \/ \E i \in 1..Len(rest) : rest[i] = s
                  \/ \E c \in Client : appends[c] = s
    <3>1. s <= stream.last_sent => s \in history.sent
      BY <2>1, <1>a, <1>2 DEF LiveInOrder
    <3>. QED BY <3>1, <2>1, <1>2, <1>7, SMTT(30)
  <2>. QED BY <2>1, <1>2, <1>4, <1>5, <1>7, Zenon DEF LiveInOrder
<1>. QED BY <1>5, <1>6, <1>8, <1>9, <1>10, <1>11, Zenon DEF StreamInv

\* The task sends the head of its queue: everything below it that is not missed is
\* sent, and it follows what is on the wire.
LEMMA LiveSendStep ==
    ASSUME StreamInv, LiveSend
    PROVE  StreamInv'
<1>a. /\ StreamTyped /\ StreamPhases /\ NumbersExist /\ CatchupReady
      /\ WireIncreases /\ CoveredInOrder /\ LiveInOrder
  BY StreamTypes DEF StreamInv
<1>0. stream \in StreamRecord /\ history \in HistoryRecord
  BY Zenon DEF StreamInv, StreamTypeOK
<1>1. PICK q \in Seq(Nat) : q = stream.queue
  BY <1>0 DEF StreamRecord
<1>b. q # <<>>
  BY <1>1 DEF LiveSend
<1>c. PICK h \in Nat : h = q[1] /\ h = Head(q)
  BY <1>b, TailShifts, Zenon
<1>2. /\ stream.pc = "live" /\ ~stream.lagged /\ h > stream.last_sent
      /\ stream.server = Leader
      /\ wire' = Append(wire, h)
      /\ stream' = [stream EXCEPT !.queue = Tail(q), !.last_sent = h]
      /\ history' = [history EXCEPT !.sent = @ \cup {h}]
      /\ UNCHANGED configVars
      /\ applied' = applied /\ appends' = appends /\ agent' = agent
  BY <1>a, <1>1, <1>b, <1>c DEF LiveSend, StreamPhases
<1>3. PICK rest \in Seq(Nat) : rest = Tail(q)
  BY <1>1, <1>b, TailShifts, Zenon
<1>4. /\ stream' \in StreamRecord /\ stream'.pc = "live" /\ stream'.server = Leader
      /\ stream'.last_sent = h /\ stream'.queue = rest
  BY <1>0, <1>2, <1>3, Zenon DEF StreamRecord
<1>5. /\ history' \in HistoryRecord /\ history'.sent = history.sent \cup {h}
      /\ history'.missed = history.missed /\ history'.sub_at = history.sub_at
      /\ history'.covered = history.covered /\ history'.processed = history.processed
  BY <1>0, <1>2, Zenon DEF HistoryRecord
<1>6. LogShape' /\ ConfigLogTypeOK' /\ next_sequence' = next_sequence
  BY <1>2, LogStays
<1>d. wire \in Seq(Nat)
  BY Zenon DEF StreamInv, StreamTypeOK
<1>e. Append(wire, h) \in Seq(Nat)
  BY <1>d
<1>7. PICK w \in Seq(Nat) : w = wire'
  BY <1>2, <1>e, Zenon
<1>8. /\ Len(wire) \in Nat /\ Len(w) = Len(wire) + 1 /\ w[Len(wire) + 1] = h
      /\ \A i \in 1..Len(wire) : w[i] = wire[i] /\ i \in 1..Len(w)
      /\ \A i \in 1..Len(w) : i \in 1..Len(wire) \/ i = Len(wire) + 1
  BY <1>2, <1>7, <1>d
<1>9. StreamTypeOK'
  BY <1>2, <1>4, <1>5, <1>6, <1>7 DEF StreamInv, StreamTypeOK
<1>10. /\ \A i \in 1..Len(rest) : rest[i] \in Nat /\ rest[i] < next_sequence
       /\ \A i, j \in 1..Len(rest) : i < j => rest[i] <= rest[j] \/ rest[j] \in history.missed
       /\ \A i \in 1..Len(rest), c \in Client :
             appends[c] # None => rest[i] <= appends[c] \/ appends[c] \in history.missed
       /\ \A s \in 1..(next_sequence - 1) \ history.missed :
             s >= history.sub_at =>
                \/ s \in history.sent \/ s = h
                \/ h < s /\ \E i \in 1..Len(rest) : rest[i] = s
                \/ h < s /\ \E c \in Client : appends[c] = s
  BY <1>1, <1>2, <1>3, <1>b, <1>c, QueueTail, Zenon
<1>11. h < next_sequence /\ stream.last_sent \in Nat /\ agent.last_sequence \in Nat
       /\ agent.last_sequence <= h
  <2>1. 1 \in 1..Len(q)
    BY <1>b, TailShifts, Zenon
  <2>2. h < next_sequence
    BY <2>1, <1>1, <1>c, <1>a, Zenon DEF NumbersExist
  <2>3. agent.last_sequence <= stream.last_sent + 1
    BY <1>a, <1>2 DEF NumbersExist
  <2>4. stream.last_sent \in Nat /\ agent.last_sequence \in Nat
    BY <1>a, Zenon DEF StreamTyped
  <2>. QED BY <2>2, <2>3, <2>4, <1>2
<1>12. StreamPhases'
  BY <1>a, <1>2, <1>4 DEF StreamPhases
<1>13. \A i \in 1..Len(wire) : wire[i] \in Nat /\ wire[i] < h
  <2>1. ASSUME NEW i \in 1..Len(wire) PROVE wire[i] \in Nat /\ wire[i] <= stream.last_sent
    <3>1. Len(wire) \in 1..Len(wire) /\ wire # <<>> /\ wire[i] \in Nat
      BY <1>8, <1>a DEF StreamTyped
    <3>2. wire[Len(wire)] = stream.last_sent
      BY <3>1, <1>2, <1>a DEF WireIncreases
    <3>3. CASE i = Len(wire)
      BY <3>1, <3>2, <3>3, <1>11
    <3>4. CASE i # Len(wire)
      <4>1. i < Len(wire)
        BY <3>4, <1>8
      <4>2. wire[i] < wire[Len(wire)]
        BY <4>1, <3>1, <1>a, Zenon DEF WireIncreases
      <4>. QED BY <4>2, <3>1, <3>2, <1>11
    <3>. QED BY <3>3, <3>4, Zenon
  <2>. QED BY <2>1, <1>2, <1>11
<1>14. WireIncreases'
  <2>1. ASSUME NEW i \in 1..Len(w), NEW j \in 1..Len(w), i < j PROVE w[i] < w[j]
    <3>1. i \in 1..Len(wire)
      BY <2>1, <1>8
    <3>2. CASE j \in 1..Len(wire)
      BY <3>1, <3>2, <2>1, <1>8, <1>a, Zenon DEF WireIncreases
    <3>3. CASE j = Len(wire) + 1
      BY <3>1, <3>3, <1>8, <1>13, SMTT(30)
    <3>. QED BY <3>2, <3>3, <1>8, Zenon
  <2>2. w[Len(w)] = h
    BY <1>8, Zenon
  <2>. QED BY <2>1, <2>2, <1>4, <1>7, Zenon DEF WireIncreases
<1>15. NumbersExist'
  <2>1. ASSUME NEW i \in 1..Len(w) PROVE w[i] >= agent.last_sequence /\ w[i] < next_sequence
    <3>1. CASE i \in 1..Len(wire)
      BY <3>1, <1>8, <1>a, Zenon DEF NumbersExist
    <3>2. CASE i = Len(wire) + 1
      BY <3>2, <1>8, <1>11, Zenon
    <3>. QED BY <3>1, <3>2, <1>8, Zenon
  <2>2. agent.last_sequence <= h + 1
    BY <1>11
  <2>3. /\ agent.last_sequence = 0 \/ agent.last_sequence < next_sequence
        /\ \A c \in Client : appends[c] # None => appends[c] < next_sequence
    BY <1>a, Zenon DEF NumbersExist
  <2>. QED BY <2>1, <2>2, <2>3, <1>2, <1>4, <1>6, <1>7, <1>10, <1>11, ZenonT(30) DEF NumbersExist
<1>16. CatchupReady'
  BY <1>4, Zenon DEF CatchupReady
<1>17. CoveredInOrder'
  <2>. SUFFICES ASSUME NEW s \in history.covered
                PROVE  /\ s < next_sequence
                       /\ s < agent.last_sequence => s \in history.processed
                       /\ s >= agent.last_sequence =>
                             s \in history.processed \/ \E j \in 1..Len(w) : w[j] = s
                       /\ s <= h
    BY <1>2, <1>4, <1>5, <1>6, <1>7 DEF CoveredInOrder, OnWire
  <2>1. /\ s < next_sequence /\ (s < agent.last_sequence => s \in history.processed)
        /\ s <= stream.last_sent
        /\ s >= agent.last_sequence =>
              s \in history.processed \/ \E j \in 1..Len(wire) : wire[j] = s
    BY <1>a, <1>2 DEF CoveredInOrder, OnWire
  <2>2. s \in Nat
    BY <1>a, Zenon DEF StreamTyped
  <2>3. s <= h
    BY <2>1, <2>2, <1>2, <1>11
  <2>4. (\E j \in 1..Len(wire) : wire[j] = s) => \E j \in 1..Len(w) : w[j] = s
    BY <1>8, Zenon
  <2>. QED BY <2>1, <2>3, <2>4, Zenon
<1>18. LiveInOrder'
  <2>1. ASSUME NEW s \in 1..(next_sequence - 1) \ history.missed, s >= history.sub_at
        PROVE  /\ s <= h => s \in history.sent \cup {h}
               /\ \/ s \in history.sent \cup {h}
                  \/ \E i \in 1..Len(rest) : rest[i] = s
                  \/ \E c \in Client : appends[c] = s
    BY <2>1, <1>10
  <2>. QED BY <2>1, <1>2, <1>4, <1>5, <1>6, <1>10, ZenonT(30) DEF LiveInOrder
<1>. QED BY <1>6, <1>9, <1>12, <1>14, <1>15, <1>16, <1>17, <1>18, Zenon DEF StreamInv

\* A lagging stream is closed; what is on the wire stays.
LEMMA LiveLaggedStep ==
    ASSUME StreamInv, LiveLagged
    PROVE  StreamInv'
<1>a. /\ StreamTyped /\ StreamPhases /\ NumbersExist /\ WireIncreases /\ CoveredInOrder
  BY StreamTypes DEF StreamInv
<1>0. stream \in StreamRecord
  BY DEF StreamInv, StreamTypeOK
<1>1. /\ stream.pc = "live" /\ stream' = [stream EXCEPT !.pc = "closing", !.queue = <<>>]
      /\ UNCHANGED configVars
      /\ applied' = applied /\ appends' = appends /\ wire' = wire
      /\ agent' = agent /\ history' = history
  BY DEF LiveLagged
<1>2. <<>> \in Seq(Nat)
  OBVIOUS
<1>3. stream' \in StreamRecord /\ stream'.pc = "closing" /\ stream'.queue = <<>>
  BY <1>0, <1>1, <1>2, Zenon DEF StreamRecord
<1>4. LogShape' /\ ConfigLogTypeOK' /\ next_sequence' = next_sequence
  BY <1>1, LogStays
<1>5. StreamTypeOK'
  BY <1>1, <1>3, <1>4 DEF StreamInv, StreamTypeOK
<1>6. StreamPhases' /\ WireIncreases' /\ CatchupReady' /\ LiveInOrder'
  BY <1>a, <1>1, <1>3 DEF StreamPhases, WireIncreases, CatchupReady, LiveInOrder
<1>7. NumbersExist'
  BY <1>a, <1>1, <1>3, <1>4 DEF NumbersExist
<1>8. CoveredInOrder'
  BY <1>a, <1>1, <1>3, <1>4 DEF CoveredInOrder, OnWire
<1>. QED BY <1>4, <1>5, <1>6, <1>7, <1>8, Zenon DEF StreamInv

\* The agent moves to the head of the wire: a covered number that it passes was
\* processed, since it is neither on the wire nor above its head.
LEMMA ProcessUpdateStep ==
    ASSUME StreamInv, ProcessUpdate
    PROVE  StreamInv'
<1>a. /\ StreamTyped /\ StreamPhases /\ NumbersExist /\ CatchupReady
      /\ WireIncreases /\ CoveredInOrder /\ LiveInOrder
  BY StreamTypes DEF StreamInv
<1>0. /\ history \in HistoryRecord /\ wire \in Seq(Nat) /\ wire # <<>>
      /\ agent \in [last_sequence : Nat, reconnect_attempts : 0..(max_reconnect_attempts + 1),
                    state : {"disconnected", "connected", "abandoned"}]
  BY DEF StreamInv, StreamTypeOK, ProcessUpdate
<1>1. PICK h \in Nat : h = wire[1] /\ h = Head(wire)
  BY <1>0, TailShifts, Zenon
<1>2. PICK w \in Seq(Nat) : w = Tail(wire)
  BY <1>0, TailShifts, Zenon
<1>3. /\ Len(wire) \in Nat /\ 1 \in 1..Len(wire) /\ Len(w) = Len(wire) - 1
      /\ \A i \in 1..Len(w) : w[i] = wire[i + 1] /\ i + 1 \in 1..Len(wire)
      /\ \A i \in 1..Len(wire) : i = 1 \/ (i - 1 \in 1..Len(w) /\ w[i - 1] = wire[i])
  BY <1>0, <1>2, TailShifts, Zenon
<1>4. /\ agent.state = "connected" /\ wire' = w
      /\ agent' = [agent EXCEPT !.last_sequence = h]
      /\ history' = [history EXCEPT !.processed = @ \cup {h}]
      /\ UNCHANGED configVars
      /\ applied' = applied /\ appends' = appends /\ stream' = stream
  BY <1>1, <1>2 DEF ProcessUpdate
<1>5. /\ history' \in HistoryRecord /\ history'.processed = history.processed \cup {h}
      /\ history'.missed = history.missed /\ history'.sub_at = history.sub_at
      /\ history'.covered = history.covered /\ history'.sent = history.sent
  BY <1>0, <1>4, Zenon DEF HistoryRecord
<1>6. /\ agent' \in [last_sequence : Nat, reconnect_attempts : 0..(max_reconnect_attempts + 1),
                     state : {"disconnected", "connected", "abandoned"}]
      /\ agent'.last_sequence = h /\ agent'.state = agent.state
      /\ agent'.reconnect_attempts = agent.reconnect_attempts
  BY <1>0, <1>4, SMTT(30)
<1>7. LogShape' /\ ConfigLogTypeOK' /\ next_sequence' = next_sequence
  BY <1>4, LogStays
<1>8. StreamTypeOK'
  BY <1>4, <1>5, <1>6, <1>7 DEF StreamInv, StreamTypeOK
<1>9. StreamPhases'
  BY <1>a, <1>4, <1>6 DEF StreamPhases
<1>10. \A i \in 1..Len(wire) : wire[i] \in Nat /\ wire[i] >= h /\ wire[i] < next_sequence
  <2>1. ASSUME NEW i \in 1..Len(wire)
        PROVE  wire[i] \in Nat /\ wire[i] < next_sequence /\ (i = 1 \/ wire[1] < wire[i])
    <3>1. wire[i] \in Nat /\ wire[i] < next_sequence
      BY <1>a, Zenon DEF StreamTyped, NumbersExist
    <3>2. i = 1 \/ 1 < i
      BY <1>3
    <3>. QED BY <3>1, <3>2, <1>3, <1>a, Zenon DEF WireIncreases
  <2>. QED BY <2>1, <1>1
<1>11. WireIncreases'
  <2>1. ASSUME NEW i \in 1..Len(w), NEW j \in 1..Len(w), i < j PROVE w[i] < w[j]
    <3>1. i + 1 \in 1..Len(wire) /\ j + 1 \in 1..Len(wire) /\ i + 1 < j + 1
      BY <2>1, <1>3, SMTT(30)
    <3>2. wire[i + 1] < wire[j + 1]
      BY <3>1, <1>a, Zenon DEF WireIncreases
    <3>. QED BY <3>2, <1>3, Zenon
  <2>2. ASSUME stream.pc = "live", w # <<>> PROVE w[Len(w)] = stream.last_sent
    <3>1. Len(wire) # 1
      BY <2>2, <1>3
    <3>2. Len(wire) - 1 \in 1..Len(w) /\ w[Len(wire) - 1] = wire[Len(wire)]
      BY <3>1, <1>3
    <3>3. wire[Len(wire)] = stream.last_sent
      BY <2>2, <1>0, <1>a, Zenon DEF WireIncreases
    <3>. QED BY <3>2, <3>3, <1>3, Zenon
  <2>. QED BY <2>1, <2>2, <1>4 DEF WireIncreases
<1>12. NumbersExist'
  <2>1. \A i \in 1..Len(w) : w[i] >= h /\ w[i] < next_sequence
    BY <1>3, <1>10, Zenon
  <2>2. h < next_sequence
    BY <1>1, <1>3, <1>10, Zenon
  <2>3. stream.pc # "read"
    BY <1>a, <1>4 DEF StreamPhases
  <2>4. stream.pc = "live" => h <= stream.last_sent + 1
    <3>1. stream.pc = "live" => wire[Len(wire)] = stream.last_sent
      BY <1>0, <1>a, Zenon DEF WireIncreases
    <3>2. Len(wire) \in 1..Len(wire)
      BY <1>3
    <3>3. wire[Len(wire)] \in Nat /\ h <= wire[Len(wire)]
      BY <3>2, <1>10
    <3>. QED BY <3>1, <3>3
  <2>. QED BY <2>1, <2>2, <2>3, <2>4, <1>a, <1>4, <1>6, <1>7 DEF NumbersExist
<1>13. CatchupReady'
  <2>1. stream.pc # "read"
    BY <1>a, <1>4 DEF StreamPhases
  <2>. QED BY <2>1, <1>4 DEF CatchupReady
<1>14. CoveredInOrder'
  <2>. SUFFICES ASSUME NEW s \in history.covered
                PROVE  /\ s < next_sequence
                       /\ s < h => s \in history.processed \cup {h}
                       /\ \A i \in 1..Len(w) :
                             s >= h /\ s < w[i] =>
                                s \in history.processed \cup {h} \/ \E j \in 1..Len(w) : w[j] = s
                       /\ (stream.pc = "live" /\ stream.server = Leader) =>
                             /\ s <= stream.last_sent
                             /\ s >= h =>
                                  s \in history.processed \cup {h} \/ \E j \in 1..Len(w) : w[j] = s
    BY <1>4, <1>5, <1>6, <1>7 DEF CoveredInOrder, OnWire
  <2>1. s \in Nat /\ agent.last_sequence \in Nat /\ agent.last_sequence <= h
    BY <1>1, <1>3, <1>a, Zenon DEF StreamTyped, NumbersExist
  <2>2. /\ s < next_sequence
        /\ s < agent.last_sequence => s \in history.processed
        /\ \A i \in 1..Len(wire) :
              s >= agent.last_sequence /\ s < wire[i] =>
                 s \in history.processed \/ \E j \in 1..Len(wire) : wire[j] = s
        /\ (stream.pc = "live" /\ stream.server = Leader) =>
              /\ s <= stream.last_sent
              /\ s >= agent.last_sequence =>
                    s \in history.processed \/ \E j \in 1..Len(wire) : wire[j] = s
    BY <1>a, Zenon DEF CoveredInOrder, OnWire
  <2>3. (\E j \in 1..Len(wire) : wire[j] = s) => s = h \/ \E j \in 1..Len(w) : w[j] = s
    BY <1>1, <1>3, Zenon
  <2>4. ASSUME s < h PROVE s \in history.processed
    <3>1. CASE s < agent.last_sequence
      BY <3>1, <2>2, Zenon
    <3>2. CASE s >= agent.last_sequence
      <4>1. s \in history.processed \/ \E j \in 1..Len(wire) : wire[j] = s
        BY <3>2, <2>2, <2>4, <1>1, <1>3, Zenon
      <4>2. ~ \E j \in 1..Len(wire) : wire[j] = s
        BY <2>1, <2>4, <1>10
      <4>. QED BY <4>1, <4>2, Zenon
    <3>. QED BY <3>1, <3>2, <2>1
  <2>5. ASSUME NEW i \in 1..Len(w), s >= h, s < w[i]
        PROVE  s \in history.processed \cup {h} \/ \E j \in 1..Len(w) : w[j] = s
    <3>1. s < wire[i + 1] /\ i + 1 \in 1..Len(wire)
      BY <2>5, <1>3, Zenon
    <3>2. s >= agent.last_sequence
      BY <2>1, <2>5
    <3>3. s \in history.processed \/ \E j \in 1..Len(wire) : wire[j] = s
      BY <3>1, <3>2, <2>2, Zenon
    <3>. QED BY <3>3, <2>3, Zenon
  <2>6. ASSUME stream.pc = "live", stream.server = Leader
        PROVE  /\ s <= stream.last_sent
               /\ s >= h => s \in history.processed \cup {h} \/ \E j \in 1..Len(w) : w[j] = s
    <3>1. s >= h => s >= agent.last_sequence
      BY <2>1
    <3>. QED BY <3>1, <2>2, <2>3, <2>6, Zenon
  <2>. QED BY <2>2, <2>4, <2>5, <2>6, Zenon
<1>15. LiveInOrder'
  BY <1>a, <1>4, <1>5, <1>7 DEF LiveInOrder
<1>. QED BY <1>7, <1>8, <1>9, <1>11, <1>12, <1>13, <1>14, <1>15, Zenon DEF StreamInv

\* However the connection ends, nothing is on the wire or in the queue after it and
\* the agent keeps its last sequence.
LEMMA DisconnectStep ==
    ASSUME StreamInv, agent.state # "abandoned",
           stream' = NoStream, wire' = <<>>, agent' = OnDisconnected(agent),
           UNCHANGED <<configVars, applied, appends, history>>
    PROVE  StreamInv'
<1>a. NumbersExist /\ CoveredInOrder /\ StreamPhases /\ StreamTyped
  BY StreamTypes, Zenon DEF StreamInv
<1>0. agent \in [last_sequence : Nat, reconnect_attempts : 0..(max_reconnect_attempts + 1),
                 state : {"disconnected", "connected", "abandoned"}]
  BY Zenon DEF StreamInv, StreamTypeOK
<1>1. LogShape' /\ ConfigLogTypeOK' /\ next_sequence' = next_sequence
  BY LogStays, Zenon
<1>2. /\ stream' \in StreamRecord /\ stream'.pc = "off" /\ stream'.queue = <<>>
  <2>1. <<>> \in Seq(Nat)
    OBVIOUS
  <2>. QED BY <2>1, StreamAssumption, Zenon DEF NoStream, StreamRecord
<1>3. PICK k \in Nat : k = agent.reconnect_attempts + 1 /\ k <= max_reconnect_attempts + 1
  BY <1>a, StreamAssumption DEF StreamPhases, StreamTyped
<1>4. agent' = [agent EXCEPT !.reconnect_attempts = k,
                   !.state = IF k > max_reconnect_attempts THEN "abandoned" ELSE "disconnected"]
  BY <1>3 DEF OnDisconnected
<1>5. k \in 0..(max_reconnect_attempts + 1)
  BY <1>3, StreamAssumption
<1>6. /\ agent' \in [last_sequence : Nat, reconnect_attempts : 0..(max_reconnect_attempts + 1),
                     state : {"disconnected", "connected", "abandoned"}]
      /\ agent'.last_sequence = agent.last_sequence /\ agent'.reconnect_attempts = k
      /\ agent'.state = IF k > max_reconnect_attempts THEN "abandoned" ELSE "disconnected"
  BY <1>0, <1>4, <1>5, Zenon
<1>7. StreamTypeOK'
  <2>1. <<>> \in Seq(Nat)
    OBVIOUS
  <2>. QED BY <2>1, <1>1, <1>2, <1>6, Zenon DEF StreamInv, StreamTypeOK
<1>8. agent'.state # "connected" /\ (agent'.state # "abandoned" => k <= max_reconnect_attempts)
  BY <1>3, <1>6, StreamAssumption
<1>9. StreamPhases'
  BY <1>2, <1>6, <1>8, Zenon DEF StreamPhases
<1>10. WireIncreases' /\ CatchupReady' /\ LiveInOrder'
  BY <1>2 DEF WireIncreases, CatchupReady, LiveInOrder
<1>11. NumbersExist'
  BY <1>a, <1>1, <1>2, <1>6 DEF NumbersExist
<1>12. CoveredInOrder'
  BY <1>a, <1>1, <1>2, <1>6 DEF CoveredInOrder
<1>. QED BY <1>1, <1>7, <1>9, <1>10, <1>11, <1>12, Zenon DEF StreamInv

\* Every step of the servers, the callers and the agent keeps the invariant.
LEMMA StreamInvStep == StreamInv /\ [StreamNext]_streamVars => StreamInv'
<1>. SUFFICES ASSUME StreamInv, [StreamNext]_streamVars PROVE StreamInv'
  BY Zenon
<1>1. CASE SubscribeFails
  <2>1. wire = <<>>
    BY <1>1, Zenon DEF StreamInv, StreamPhases, SubscribeFails
  <2>. QED BY <1>1, <2>1, DisconnectStep, Zenon DEF SubscribeFails
<1>2. CASE StreamEnds \/ ConnectionLost
  BY <1>2, DisconnectStep, Zenon DEF StreamEnds, ConnectionLost
<1>3. CASE UNCHANGED streamVars
  <2>1. /\ UNCHANGED configVars /\ stream' = stream /\ wire' = wire /\ agent' = agent
        /\ history' = history /\ appends' = appends /\ applied' = applied
    BY <1>3, Zenon DEF streamVars
  <2>2. LogShape' /\ ConfigLogTypeOK' /\ next_sequence' = next_sequence
    BY <2>1, LogStays, Zenon
  <2>3. StreamTypeOK' /\ StreamPhases' /\ NumbersExist' /\ WireIncreases'
    BY <2>1, <2>2, Zenon DEF StreamInv, StreamTypeOK, StreamPhases, NumbersExist, WireIncreases
  <2>4. CatchupReady' /\ CoveredInOrder' /\ LiveInOrder'
    BY <2>1, <2>2, Zenon DEF StreamInv, CatchupReady, CoveredInOrder, OnWire, LiveInOrder
  <2>. QED BY <2>2, <2>3, <2>4, Zenon DEF StreamInv
<1>. QED
  BY <1>1, <1>2, <1>3, AppendApplyStep, AppendNotifyStep, AppendDroppedStep, ReplicateStep,
     SubscribeReadStep, SubscribeLiveStep, LiveSkipStep, LiveSendStep, LiveLaggedStep,
     ProcessUpdateStep, Zenon
  DEF StreamNext, LiveLoop

\* The inductive invariant holds in every state of the stream.
THEOREM StreamInvariant == StreamSpec => []StreamInv
  BY StreamInvInit, StreamInvStep, PTL DEF StreamSpec

\* subscribe_config_updates and process_update: for every number of servers, callers,
\* entries and reconnections, what is on the wire is in order and the agent passes no
\* entry of a catch-up that it has not processed.
THEOREM CatchupsAreComplete == StreamSpec => []CaughtUpInOrder
<1>1. StreamInv => CaughtUpInOrder
  <2>. SUFFICES ASSUME StreamInv PROVE CaughtUpInOrder
    OBVIOUS
  <2>1. StreamTyped /\ NumbersExist /\ WireIncreases /\ CoveredInOrder
    BY StreamTypes, Zenon DEF StreamInv
  <2>2. \A i \in 1..Len(wire) : wire[i] >= agent.last_sequence /\ wire[i] \in DOMAIN entries
    <3>1. /\ \A i \in 1..Len(wire) : wire[i] \in Nat /\ wire[i] >= agent.last_sequence
                                                   /\ wire[i] < next_sequence
          /\ next_sequence \in Nat /\ DOMAIN entries = 0..(next_sequence - 1)
      BY <2>1, Zenon DEF StreamTyped, NumbersExist
    <3>. QED BY <3>1
  <2>3. WireOrdered
    BY <2>1, <2>2, Zenon DEF WireIncreases, WireOrdered
  <2>. QED BY <2>1, <2>3, Zenon DEF CoveredInOrder, CaughtUpInOrder
<1>. QED BY <1>1, StreamInvariant, PTL

\* The live phase of subscribe_config_updates: for every number of callers and every
\* capacity, a live stream on the leader skips only entry 0 and the missed entries.
THEOREM LiveStreamsSkipNothing == StreamSpec => []NoSkipAfterSubscribe
<1>1. StreamInv => NoSkipAfterSubscribe
  <2>. SUFFICES ASSUME StreamInv, stream.pc = "live", stream.server = Leader,
                       NEW s \in DOMAIN entries \ history.missed,
                       s >= history.sub_at, s > 0, s <= stream.last_sent
                PROVE  s \in history.sent
    BY Zenon DEF NoSkipAfterSubscribe
  <2>1. StreamTyped /\ LiveInOrder
    BY StreamTypes, Zenon DEF StreamInv
  <2>2. s \in 1..(next_sequence - 1) \ history.missed
    BY <2>1 DEF StreamTyped
  <2>. QED BY <2>1, <2>2, Zenon DEF LiveInOrder
<1>. QED BY <1>1, StreamInvariant, PTL
=============================================================================
