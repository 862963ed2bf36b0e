----------------------------- MODULE BootProofs -----------------------------
(***************************************************************************)
(* Proofs about a node's start: the watchdog across the boot, the stream   *)
(* of the boot configuration, the set-up of the network interfaces and the *)
(* conflicts found when the node meets the journal again, for every        *)
(* timeout, overlay, declaration, key and grace period.                    *)
(***************************************************************************)
EXTENDS AgentBoot, NetworkSetup, Conflicts, TLAPS

-----------------------------------------------------------------------------
(* The watchdog.                                                           *)

TimersTypeOK ==
    /\ watchdog \in WatchdogRecord
    /\ petter \in Nat \cup {None} /\ loop \in Nat \cup {None} /\ turn \in Nat

\* The inductive invariant: while the process lives and holds the handle, somebody is due
\* to pet within half the timeout or at the end of the loop's current turn, unless a pet
\* has failed; before the watchdog is opened nobody is, and it is closed.
WatchdogInv ==
    /\ TimersTypeOK
    /\ watchdog.state = "armed" => watchdog.timeout \in Timeout
    /\ phase \in {"off", "early", "hardware"} => petter = None /\ loop = None
    /\ phase \in {"early", "hardware"} => watchdog.state = "closed"
    /\ petter = None \/ loop = None
    /\ (Alive /\ watchdog.state = "armed") => petter # None \/ loop # None
    /\ (Alive /\ watchdog.state = "armed" /\ ~watchdog.missed) =>
          /\ petter # None => watchdog.since + petter <= watchdog.timeout
          /\ loop # None => \/ watchdog.since + loop <= watchdog.timeout
                            \/ watchdog.since + loop <= turn

\* Timeouts are two seconds or more.
LEMMA Timeouts ==
    /\ \A t \in Timeout : t \in Nat /\ 2 <= t
    /\ None \notin Nat
<1>1. Timeout \subseteq Nat \ {0, 1} /\ None \notin Nat
  BY BootAssumption, Zenon
<1> QED BY <1>1, SMT

\* The fields of the watchdog are numbers.
LEMMA WatchdogNumbers ==
    ASSUME TimersTypeOK
    PROVE  watchdog.timeout \in Nat /\ watchdog.since \in Nat
BY Timeouts DEF TimersTypeOK, WatchdogRecord

\* The petter's interval is never longer than half the timeout, in half seconds.
LEMMA IntervalWithinHalf ==
    ASSUME NEW t \in Timeout
    PROVE  interval(t) \in Nat /\ interval(t) <= t /\ 1 <= t
BY Timeouts, SMT DEF interval

\* The interval between two pets is a whole count of ticks.
LEMMA IntervalType ==
    ASSUME NEW t \in Nat
    PROVE  interval(t) \in Nat
BY SMT DEF interval

\* A step that leaves the timers alone and does not go back to before the watchdog.
LEMMA TimersUntouched ==
    ASSUME WatchdogInv, UNCHANGED timers, phase \in Phase, phase' \in Phase,
           phase' = phase \/ (phase # "off" /\ phase' \notin {"off", "early"}
                                /\ (phase' = "hardware" => phase = "early"))
    PROVE  WatchdogInv'
BY Zenon DEF WatchdogInv, TimersTypeOK, timers, Alive

\* The end of the process, orderly or not.
LEMMA WatchdogGone ==
    ASSUME WatchdogInv, ProcessGone, UNCHANGED watchdog \/ watchdog' = Closed
    PROVE  WatchdogInv'
<1>1. Closed \in WatchdogRecord /\ Closed.state = "closed"
  BY DEF Closed, WatchdogRecord
<1>2. phase' = "off" /\ petter' = None /\ loop' = None /\ turn' = 0
  BY Zenon DEF ProcessGone
<1>3. watchdog' \in WatchdogRecord /\ (watchdog'.state = "armed" => watchdog'.timeout \in Timeout)
  BY <1>1, Zenon DEF WatchdogInv, TimersTypeOK
<1> QED BY <1>2, <1>3, SMT DEF WatchdogInv, TimersTypeOK, Alive

\* A pet reaches the device or is missed; without a handle there is none.
LEMMA Petted ==
    ASSUME TimersTypeOK, Pet
    PROVE  /\ watchdog' \in WatchdogRecord
           /\ watchdog'.state = watchdog.state /\ watchdog'.timeout = watchdog.timeout
           /\ (watchdog.state = "armed" /\ ~watchdog'.missed) => watchdog'.since = 0
<1>0. 0 \in Nat
  OBVIOUS
<1>1. CASE watchdog.state = "armed" /\ watchdog' = [watchdog EXCEPT !.since = 0, !.missed = FALSE]
  BY <1>0, <1>1, Zenon DEF TimersTypeOK, WatchdogRecord
<1>2. CASE watchdog.state = "armed" /\ watchdog' = [watchdog EXCEPT !.missed = TRUE]
  BY <1>2, Zenon DEF TimersTypeOK, WatchdogRecord
<1>3. CASE watchdog.state # "armed" /\ UNCHANGED watchdog
  BY <1>3 DEF TimersTypeOK
<1> QED BY <1>1, <1>2, <1>3, Zenon DEF Pet

\* What a step of the boot does to the timers.
LEMMA WatchdogStep ==
    ASSUME WatchdogInv, phase \in Phase, phase' \in Phase, BootNext
    PROVE  WatchdogInv'
<1> USE DEF Goto, Quiet
<1>1. CASE Start
  BY <1>1, SMT DEF Start, WatchdogInv, TimersTypeOK, timers, Alive
<1>2. CASE Crash \/ EarlyInitFails \/ ReportFails \/ BindFails \/ Shutdown \/ BmcReboot
  BY <1>2, WatchdogGone, Zenon DEF Crash, EarlyInitFails, ReportFails, BindFails, Shutdown, BmcReboot,
                                   Exit, DropHandle
<1>3. CASE EarlyInit \/ NoWatchdog \/ BuildCascade \/ GetIdentity \/ Report
  <2>1. UNCHANGED timers
    BY <1>3 DEF EarlyInit, NoWatchdog, BuildCascade, GetIdentity, Report
  <2>2. phase # "off" /\ phase' \notin {"off", "early"} /\ (phase' = "hardware" => phase = "early")
    BY <1>3 DEF EarlyInit, NoWatchdog, BuildCascade, GetIdentity, Report
  <2> QED BY <2>1, <2>2, TimersUntouched
<1>4. CASE OpenStream \/ NoStream \/ StreamStep \/ StreamDone \/ SignalReady \/ Subscribe \/ ServeShell
  <2>1. UNCHANGED timers
    BY <1>4, Zenon DEF OpenStream, NoStream, StreamStep, StreamDone, SignalReady, Subscribe, ServeShell
  <2>2. phase # "off" /\ phase' \notin {"off", "early", "hardware"}
    BY <1>4, Zenon DEF OpenStream, NoStream, StreamStep, StreamDone, SignalReady, Subscribe, ServeShell
  <2> QED BY <2>1, <2>2, TimersUntouched
<1>5. CASE OpenWatchdog \/ TimeoutUnknown
  <2>1. PICK t \in Timeout, s \in {"armed", "unowned"} :
            watchdog' = Opened(t, s) /\ (s = "armed" => petter' = 0) /\ (s = "unowned" => petter' = petter)
    BY <1>5 DEF OpenWatchdog, TimeoutUnknown
  <2>2. /\ watchdog' \in WatchdogRecord /\ watchdog'.timeout = t /\ watchdog'.since = 0
        /\ watchdog'.state = s
    BY <2>1 DEF Opened, WatchdogRecord
  <2>3. phase = "hardware" /\ phase' = "build_cascade" /\ UNCHANGED <<loop, turn>>
    BY <1>5 DEF OpenWatchdog, TimeoutUnknown
  <2>4. petter = None /\ loop = None /\ turn \in Nat /\ t \in Nat
    BY <2>3, Timeouts DEF WatchdogInv, TimersTypeOK
  <2>5. petter' \in {0, None} /\ loop' = None /\ (s = "armed" => petter' # None)
    BY <2>1, <2>3, <2>4, Timeouts
  <2>6. TimersTypeOK'
    BY <2>2, <2>3, <2>4, <2>5 DEF TimersTypeOK
  <2>7. petter' # None => watchdog'.since + petter' <= watchdog'.timeout
    <3>1. 0 + 0 <= t
      BY <2>4
    <3> QED BY <2>2, <2>5, <3>1, Zenon
  <2>8. watchdog'.timeout \in Timeout /\ (watchdog'.state = "armed" => petter' # None)
    BY <2>2, <2>5
  <2>9. phase' \notin {"off", "early", "hardware"}
    BY <2>3
  <2> QED BY <2>5, <2>6, <2>7, <2>8, <2>9, Zenon DEF WatchdogInv, Alive
<1>6. CASE StartLoop
  <2>1. UNCHANGED <<watchdog, turn>> /\ phase = "loop" /\ phase' = "subscribe"
    BY <1>6 DEF StartLoop
  <2>2. (loop' = 0 /\ petter' = None) \/ UNCHANGED <<loop, petter>>
    BY <1>6 DEF StartLoop
  <2>3. watchdog.since \in Nat /\ watchdog.timeout \in Nat
    BY WatchdogNumbers DEF WatchdogInv
  <2> QED BY <2>1, <2>2, <2>3, Timeouts, SMT DEF WatchdogInv, TimersTypeOK, Alive
<1>7. CASE \/ \E a \in Policy \cup {"OverlayChanged", "NodeDeltaChanged", "BlacklistChanged"} : UpdateArrives(a)
           \/ HandleAction \/ CachePolicy
           \/ /\ (\E o \in Overlay, v \in Version : PublishOverlay(o, v)) \/ CommitNodeEntry
              /\ UNCHANGED <<config, starts, phase, connected, cascade, identity, timers,
                             policyVars>>
  <2>1. UNCHANGED <<timers, phase>>
    BY <1>7, Zenon DEF UpdateArrives, HandleAction, CachePolicy
  <2> QED BY <2>1, TimersUntouched
<1>8. CASE BootPet
  <2>1. watchdog.timeout \in Nat
    BY WatchdogNumbers DEF WatchdogInv
  <2>2. petter' \in Nat /\ (watchdog.state = "armed" => petter' <= watchdog.timeout)
    BY <1>8, <2>1, IntervalType, IntervalWithinHalf DEF BootPet, WatchdogInv
  <2>3. UNCHANGED <<phase, loop, turn>> /\ petter = 0 /\ Pet
    BY <1>8 DEF BootPet
  <2>4. /\ watchdog' \in WatchdogRecord
        /\ watchdog'.state = watchdog.state /\ watchdog'.timeout = watchdog.timeout
        /\ (watchdog.state = "armed" /\ ~watchdog'.missed) => watchdog'.since = 0
    BY <2>3, Petted DEF WatchdogInv
  <2>5. loop = None
    BY <2>3, Timeouts DEF WatchdogInv
  <2> QED BY <2>1, <2>2, <2>3, <2>4, <2>5, Timeouts, SMT DEF WatchdogInv, TimersTypeOK, Alive
<1>9. CASE LoopPet
  <2>1. UNCHANGED <<phase, petter>> /\ loop = 0 /\ Pet
    BY <1>9 DEF LoopPet
  <2>2. loop' \in Nat /\ loop' = turn'
    BY <1>9, BootAssumption DEF LoopPet
  <2>3. /\ watchdog' \in WatchdogRecord
        /\ watchdog'.state = watchdog.state /\ watchdog'.timeout = watchdog.timeout
        /\ (watchdog.state = "armed" /\ ~watchdog'.missed) => watchdog'.since = 0
        /\ petter = None
    BY <2>1, Petted, Timeouts DEF WatchdogInv
  <2>4. watchdog.timeout \in Nat
    BY WatchdogNumbers DEF WatchdogInv
  <2> QED BY <2>1, <2>2, <2>3, <2>4, Timeouts, SMT DEF WatchdogInv, TimersTypeOK, Alive
<1>10. CASE Tick
  <2>1. petter # None => petter \in Nat \ {0} /\ petter' = petter - 1
    BY <1>10, Timeouts DEF Tick, Due, After, WatchdogInv, TimersTypeOK
  <2>2. loop # None => loop \in Nat \ {0} /\ loop' = loop - 1
    BY <1>10, Timeouts DEF Tick, Due, After, WatchdogInv, TimersTypeOK
  <2>3. (petter = None => petter' = None) /\ (loop = None => loop' = None)
    BY <1>10 DEF Tick, After
  <2>4. watchdog' = [watchdog EXCEPT !.since = watchdog.since + 1] /\ UNCHANGED phase
    BY <1>10 DEF Tick
  <2>5. watchdog.timeout \in Nat /\ watchdog.since \in Nat
    BY WatchdogNumbers DEF WatchdogInv
  <2>6. /\ watchdog' \in WatchdogRecord /\ watchdog'.since = watchdog.since + 1
        /\ watchdog'.state = watchdog.state /\ watchdog'.timeout = watchdog.timeout
        /\ watchdog'.missed = watchdog.missed
    BY <2>4, <2>5 DEF WatchdogInv, TimersTypeOK, WatchdogRecord
  <2>7. UNCHANGED <<phase, turn>>
    BY <1>10 DEF Tick
  <2> QED BY <2>1, <2>2, <2>3, <2>5, <2>6, <2>7, Timeouts, SMT DEF WatchdogInv, TimersTypeOK, Alive
<1> QED BY <1>1, <1>2, <1>3, <1>4, <1>5, <1>6, <1>7, <1>8, <1>9, <1>10, Zenon DEF BootNext

\* What the agent's own thread does to its phase.
LEMMA PhaseStep ==
    ASSUME phase \in Phase, BootNext
    PROVE  phase' \in Phase
BY Zenon DEF BootNext, Start, Crash, EarlyInit, EarlyInitFails, OpenWatchdog, TimeoutUnknown, NoWatchdog, BuildCascade,
       GetIdentity, Report, ReportFails, OpenStream, NoStream, StreamStep, StreamDone, SignalReady,
       StartLoop, Subscribe, ServeShell, BindFails, Shutdown, UpdateArrives, HandleAction,
       CachePolicy, BootPet, LoopPet, Tick, BmcReboot, ProcessGone, Exit, Goto, Phase, Booting

PhaseAndTimers == phase \in Phase /\ WatchdogInv

\* WatchdogInv and the phases are kept by every step of the boot.
THEOREM WatchdogInvariant == BootSpec => []PhaseAndTimers
<1>1. BootInit => PhaseAndTimers
  BY SMT DEF BootInit, PhaseAndTimers, Phase, WatchdogInv, TimersTypeOK, WatchdogRecord, Closed, Alive
<1>2. PhaseAndTimers /\ [BootNext]_bootVars => PhaseAndTimers'
  <2>1. CASE BootNext
    BY <2>1, PhaseStep, WatchdogStep DEF PhaseAndTimers
  <2>2. CASE UNCHANGED bootVars
    BY <2>2, TimersUntouched DEF PhaseAndTimers, bootVars, timers
  <2> QED BY <2>1, <2>2
<1> QED BY <1>1, <1>2, PTL DEF BootSpec

\* While the agent's process lives, a watchdog whose handle it holds and whose last pet did
\* not fail is petted within half its timeout or within the current turn of the loop,
\* across the abort of the boot petter and the supervision loop's first pet, for every
\* timeout of two seconds or more and whatever the turns of the loop wait for.
THEOREM PetsInTime == BootSpec => []PetWithinHalf
<1>1. PhaseAndTimers => PetWithinHalf
  <2> SUFFICES ASSUME PhaseAndTimers PROVE PetWithinHalf
    OBVIOUS
  <2>1. watchdog.since \in Nat /\ watchdog.timeout \in Nat /\ turn \in Nat
    BY WatchdogNumbers DEF PhaseAndTimers, WatchdogInv, TimersTypeOK
  <2> QED BY <2>1, Timeouts, SMT DEF PhaseAndTimers, WatchdogInv, TimersTypeOK, PetWithinHalf
<1> QED BY <1>1, WatchdogInvariant, PTL

-----------------------------------------------------------------------------
(* The stream of the boot configuration.                                   *)

\* What has been received and what is on its way are the chunks of the p-th overlay
\* published, in order.
FromOverlay(p) ==
    LET k == Len(boot_config.data)
        o == published[p].overlay
        v == published[p].version
        c == Chunks[o]
    IN  /\ k <= c
        /\ \A i \in 1..k : boot_config.data[i] = OverlayChunk(o, v, i)
        /\ k > 0 => boot_config.base_version = v
        /\ \A i \in 1..Len(wire) :
              /\ i <= c - k => wire[i] = OverlayChunk(o, v, k + i)
              /\ i > c - k => wire[i].kind # "BaseOverlay"

StreamTypeOK ==
    /\ published \in Seq(BootOverlayRecord) /\ node_entries \in Nat
    /\ wire \in Seq(ConfigChunk)
    /\ boot_config \in [data : Seq(ConfigChunk), node_delta : Nat, base_version : Nat,
                        outcome : {None, "complete", "ended", "failed"}]

\* The inductive invariant of the stream.
StreamInv ==
    /\ StreamTypeOK /\ StreamIsSnapshot
    /\ (wire # <<>> /\ boot_config.outcome = None) =>
          \E p \in 1..Len(published) : FromOverlay(p)

\* How the stream ended is noted beside what has come.
LEMMA OutcomeNoted ==
    ASSUME NEW Data, NEW None2, NEW e \in {None2, "complete", "ended", "failed"},
           NEW b \in [data : Data, node_delta : Nat, base_version : Nat,
                      outcome : {None2, "complete", "ended", "failed"}],
           NEW r, r = [b EXCEPT !.outcome = e]
    PROVE  /\ r.data = b.data /\ r.base_version = b.base_version /\ r.outcome = e
           /\ r \in [data : Data, node_delta : Nat, base_version : Nat,
                     outcome : {None2, "complete", "ended", "failed"}]
BY Zenon

\* The lengths of sequences add up.
LEMMA ConcatType ==
    ASSUME NEW S, NEW s \in Seq(S), NEW t \in Seq(S)
    PROVE  s \o t \in Seq(S) /\ Len(s \o t) = Len(s) + Len(t)
OBVIOUS

streamVars == <<published, node_entries, wire, boot_config>>

\* A step that touches neither what is published nor the stream.
LEMMA StreamUntouched ==
    ASSUME StreamInv, UNCHANGED streamVars
    PROVE  StreamInv'
BY Zenon DEF StreamInv, StreamTypeOK, StreamIsSnapshot, FromOverlay, streamVars

\* What the journal builds for the stream are chunks.
LEMMA ChunkTypes ==
    /\ \A o \in Overlay, v, i \in Nat : OverlayChunk(o, v, i) \in ConfigChunk
    /\ \A n \in Nat : NodeDelta(n) \in ConfigChunk /\ Complete(n) \in ConfigChunk
BY Zenon DEF OverlayChunk, NodeDelta, Complete, ConfigChunk

\* The counts of chunks are positive.
LEMMA ChunkCounts == \A o \in Overlay : Chunks[o] \in Nat /\ 1 <= Chunks[o]
<1>1. Chunks \in [Overlay -> Nat \ {0}]
  BY OverlayAssumption, Zenon
<1> QED BY <1>1, SMT

\* Versions are numbers.
LEMMA VersionNumbers == \A v \in Version : v \in Nat
BY OverlayAssumption, Zenon

\* None is no outcome.
LEMMA NoneIsNoOutcome == None \notin {"complete", "ended", "failed"}
BY OverlayAssumption, Zenon

\* Overlays are only added: what was published is not forgotten.
LEMMA PublishKeepsStream ==
    ASSUME StreamInv, NEW o \in Overlay, NEW n \in Version, PublishOverlay(o, n)
    PROVE  StreamInv'
<1> DEFINE r == [overlay |-> o, version |-> n]
<1>0. r \in BootOverlayRecord
  BY DEF BootOverlayRecord
<1>1. /\ published' = Append(published, r)
      /\ UNCHANGED <<node_entries, wire, boot_config>>
  BY DEF PublishOverlay
<1> HIDE DEF r
<1>2. StreamTypeOK'
  BY <1>0, <1>1 DEF StreamInv, StreamTypeOK
<1>3. /\ Len(published') = Len(published) + 1 /\ Len(published) \in Nat
      /\ \A v \in 1..Len(published) : published'[v] = published[v]
      /\ DOMAIN published = 1..Len(published) /\ DOMAIN published' = 1..Len(published')
  BY <1>0, <1>1 DEF StreamInv, StreamTypeOK
<1>4. StreamIsSnapshot'
  BY <1>1, <1>3 DEF StreamInv, StreamIsSnapshot
<1>5. ASSUME NEW p \in 1..Len(published), FromOverlay(p)
      PROVE  p \in 1..Len(published') /\ FromOverlay(p)'
  BY <1>1, <1>3, <1>5 DEF FromOverlay
<1> QED BY <1>1, <1>2, <1>4, <1>5 DEF StreamInv

\* The answer to the call is the stored overlay, cut into its chunks.
LEMMA OpenedStream ==
    ASSUME StreamInv, StreamOpened
    PROVE  StreamInv'
<1> DEFINE l == Len(published)
           o == published[l].overlay
           v == published[l].version
           c == Chunks[o]
           first == [i \in 1..c |-> OverlayChunk(o, v, i)]
<1>0. /\ published \in Seq(BootOverlayRecord) /\ node_entries \in Nat /\ published # <<>>
      /\ UNCHANGED <<published, node_entries>>
  BY DEF StreamInv, StreamTypeOK, StreamOpened
<1>1. l \in Nat /\ l >= 1 /\ o \in Overlay /\ v \in Nat
  <2>1. l \in Nat /\ l >= 1 /\ published[l] \in BootOverlayRecord
    BY <1>0
  <2> QED BY <2>1, VersionNumbers DEF BootOverlayRecord
<1>2. c \in Nat /\ 1 <= c
  BY <1>1, ChunkCounts
<1>3. wire' = first \o build_node_delta \o <<Complete(v)>> /\ boot_config' = NoConfig
  BY Zenon DEF StreamOpened, boot_chunks
<1>4. first \in Seq(ConfigChunk) /\ Len(first) = c /\ \A i \in 1..c : first[i] = OverlayChunk(o, v, i)
  <2>1. \A i \in 1..c : OverlayChunk(o, v, i) \in ConfigChunk
    BY <1>1, <1>2, ChunkTypes
  <2> QED BY <1>2, <2>1
<1>5. /\ build_node_delta \in Seq(ConfigChunk)
      /\ \A i \in 1..Len(build_node_delta) : build_node_delta[i].kind # "BaseOverlay"
  BY <1>0, ChunkTypes DEF build_node_delta, NodeDelta
<1>6. <<Complete(v)>> \in Seq(ConfigChunk) /\ <<Complete(v)>>[1].kind # "BaseOverlay"
  BY <1>1, ChunkTypes DEF Complete
<1> HIDE DEF l, v, o, c, first
<1> DEFINE d == build_node_delta
           e == <<Complete(v)>>
<1>7. Len(e) = 1
  OBVIOUS
<1> HIDE DEF d, e
<1>8. first \o d \in Seq(ConfigChunk) /\ Len(first \o d) = c + Len(d) /\ Len(d) \in Nat
  BY <1>2, <1>4, <1>5, ConcatType, SMTT(30) DEF d
<1>9. wire' \in Seq(ConfigChunk) /\ Len(wire') = c + Len(d) + 1
  <2>1. wire' = (first \o d) \o e
    BY <1>3 DEF d, e
  <2>2. e \in Seq(ConfigChunk)
    BY <1>6 DEF e
  <2>3. wire' \in Seq(ConfigChunk) /\ Len(wire') = Len(first \o d) + Len(e)
    BY <1>8, <2>1, <2>2, ConcatType, Zenon
  <2> QED BY <1>2, <1>7, <1>8, <2>3
<1>10. \A i \in 1..Len(wire') :
          /\ i <= c => wire'[i] = OverlayChunk(o, v, i)
          /\ i > c => wire'[i].kind # "BaseOverlay"
  <2> SUFFICES ASSUME NEW i \in 1..(c + Len(d) + 1)
               PROVE  /\ i <= c => wire'[i] = OverlayChunk(o, v, i)
                      /\ i > c => wire'[i].kind # "BaseOverlay"
    BY <1>9, Zenon
  <2>1. CASE i <= c
    BY <2>1, <1>2, <1>3, <1>4, <1>5, <1>6, <1>7, <1>8 DEF d, e
  <2>2. CASE i > c /\ i <= c + Len(d)
    <3>1. wire'[i] = (first \o d)[i]
      BY <2>2, <1>2, <1>3, <1>6, <1>7, <1>8 DEF d, e
    <3>2. (first \o d)[i] = d[i - c] /\ i - c \in 1..Len(d)
      BY <2>2, <1>2, <1>4, <1>5, <1>8 DEF d
    <3> QED BY <2>2, <3>1, <3>2, <1>2, <1>5 DEF d
  <2>3. CASE i = c + Len(d) + 1
    <3>1. wire'[i] = e[1]
      BY <2>3, <1>2, <1>3, <1>6, <1>7, <1>8 DEF d, e
    <3> QED BY <2>3, <3>1, <1>2, <1>6, <1>8 DEF e
  <2> QED BY <2>1, <2>2, <2>3, <1>2, <1>8
<1>11. /\ StreamTypeOK' /\ boot_config'.outcome = None
       /\ boot_config'.data = <<>> /\ Len(boot_config'.data) = 0
  BY <1>0, <1>3, <1>9 DEF StreamTypeOK, NoConfig
<1>12. PICK n \in 1..Len(published) : n = l
  BY <1>1 DEF l
<1>13. FromOverlay(n)' /\ n \in 1..Len(published')
  <2>1. /\ Chunks[published'[n].overlay] = c /\ published'[n].overlay = o /\ published'[n].version = v
        /\ Len(published') = Len(published)
    BY <1>0, <1>12, Zenon DEF v, o, c
  <2> QED BY <2>1, <1>2, <1>10, <1>11, <1>12 DEF FromOverlay
<1>14. StreamIsSnapshot'
  BY <1>11, NoneIsNoOutcome DEF StreamIsSnapshot
<1> QED BY <1>11, <1>13, <1>14, Zenon DEF StreamInv

\* One message is received: the next chunk, or, when all chunks are in, what follows.
LEMMA ReceivedChunk ==
    ASSUME StreamInv, ReceiveChunk
    PROVE  StreamInv'
<1> DEFINE m == Head(wire)
           k == Len(boot_config.data)
<1>1. /\ wire # <<>> /\ boot_config.outcome = None
      /\ wire' = Tail(wire) /\ UNCHANGED <<published, node_entries>>
      /\ published \in Seq(BootOverlayRecord) /\ node_entries \in Nat /\ wire \in Seq(ConfigChunk)
      /\ boot_config \in [data : Seq(ConfigChunk), node_delta : Nat, base_version : Nat,
                          outcome : {None, "complete", "ended", "failed"}]
  BY Zenon DEF StreamInv, StreamTypeOK, ReceiveChunk
<1>2. PICK p \in 1..Len(published) : FromOverlay(p)
  BY <1>1, Zenon DEF StreamInv
<1>4. PICK o \in Overlay, v \in Nat : o = published[p].overlay /\ v = published[p].version
  <2>1. published[p] \in BootOverlayRecord
    BY <1>1, <1>2
  <2> QED BY <2>1, VersionNumbers DEF BootOverlayRecord
<1>3. PICK c \in Nat : c = Chunks[o] /\ 1 <= c
  BY <1>4, ChunkCounts
<1>5. k \in Nat /\ k <= c
  BY <1>1, <1>2, <1>3, <1>4 DEF FromOverlay
<1>6. /\ Len(wire) \in Nat \ {0} /\ m = wire[1] /\ m \in ConfigChunk
      /\ Tail(wire) \in Seq(ConfigChunk) /\ Len(Tail(wire)) = Len(wire) - 1
      /\ \A i \in 1..(Len(wire) - 1) : Tail(wire)[i] = wire[i + 1]
  BY <1>1
<1>7. /\ \A i \in 1..Len(wire) : /\ i <= c - k => wire[i] = OverlayChunk(o, v, k + i)
                                 /\ i > c - k => wire[i].kind # "BaseOverlay"
      /\ \A i \in 1..k : boot_config.data[i] = OverlayChunk(o, v, i)
      /\ k > 0 => boot_config.base_version = v
  BY <1>2, <1>3, <1>4, Zenon DEF FromOverlay
<1>8. m.kind \in {"BaseOverlay", "NodeDelta", "Complete"}
  BY <1>6 DEF ConfigChunk
<1> HIDE DEF m, k
<1>9. Len(published') = Len(published) /\ published'[p] = published[p]
  BY <1>1
<1>10. CASE m.kind = "BaseOverlay"
  <2>1. 1 <= c - k /\ m = OverlayChunk(o, v, k + 1)
    BY <1>3, <1>5, <1>6, <1>7, <1>10
  <2>2. m.version = v
    BY <2>1 DEF OverlayChunk
  <2>3. boot_config' = [boot_config EXCEPT !.data = Append(boot_config.data, m), !.base_version = v]
    BY <1>10, <2>2, Zenon DEF ReceiveChunk, m
  <2>4. /\ boot_config'.data = Append(boot_config.data, m) /\ boot_config'.base_version = v
        /\ boot_config'.outcome = None
        /\ boot_config' \in [data : Seq(ConfigChunk), node_delta : Nat, base_version : Nat,
                             outcome : {None, "complete", "ended", "failed"}]
    <3>1. Append(boot_config.data, m) \in Seq(ConfigChunk) /\ v \in Nat
      BY <1>1, <1>4, <1>6
    <3> QED BY <1>1, <2>3, <3>1, Zenon
  <2>5. /\ Len(boot_config'.data) = k + 1
        /\ \A i \in 1..(k + 1) : boot_config'.data[i] = OverlayChunk(o, v, i)
    <3>1. boot_config.data \in Seq(ConfigChunk) /\ Len(boot_config.data) = k
      BY <1>1 DEF k
    <3> QED BY <3>1, <2>1, <2>4, <1>5, <1>6, <1>7
  <2>6. \A i \in 1..Len(wire') :
           /\ i <= c - (k + 1) => wire'[i] = OverlayChunk(o, v, (k + 1) + i)
           /\ i > c - (k + 1) => wire'[i].kind # "BaseOverlay"
    <3> SUFFICES ASSUME NEW i \in 1..(Len(wire) - 1)
                 PROVE  /\ i <= c - (k + 1) => wire[i + 1] = OverlayChunk(o, v, (k + 1) + i)
                        /\ i > c - (k + 1) => wire[i + 1].kind # "BaseOverlay"
      BY <1>1, <1>6
    <3>1. i + 1 \in 1..Len(wire) /\ k + (i + 1) = (k + 1) + i
      BY <1>5, <1>6
    <3>2. (i <= c - (k + 1) <=> i + 1 <= c - k) /\ (i > c - (k + 1) <=> i + 1 > c - k)
      BY <1>3, <1>5, <1>6
    <3> QED BY <3>1, <3>2, <1>7, Zenon
  <2>7. FromOverlay(p)'
    <3>1. PICK n \in Nat : n = k + 1
      BY <1>5
    <3>2. n <= c /\ n = Len(boot_config'.data)
      BY <3>1, <2>1, <2>5, <1>3, <1>5
    <3> QED BY <3>1, <3>2, <2>4, <2>5, <2>6, <1>3, <1>4, <1>9, ZenonT(30) DEF FromOverlay
  <2>8. StreamTypeOK' /\ StreamIsSnapshot'
    BY <1>1, <1>6, <2>4, NoneIsNoOutcome, Zenon DEF StreamTypeOK, StreamIsSnapshot
  <2> QED BY <2>7, <2>8, <1>9, Zenon DEF StreamInv
<1>11. CASE m.kind = "NodeDelta"
  <2>1. boot_config' = [boot_config EXCEPT !.node_delta = m.entries] /\ m.entries \in Nat
    BY <1>6, <1>11, Zenon DEF ReceiveChunk, m, ConfigChunk
  <2>2. /\ boot_config'.data = boot_config.data /\ boot_config'.base_version = boot_config.base_version
        /\ boot_config'.outcome = None
        /\ boot_config' \in [data : Seq(ConfigChunk), node_delta : Nat, base_version : Nat,
                             outcome : {None, "complete", "ended", "failed"}]
    BY <1>1, <2>1, Zenon
  <2>3. c - k <= 0
    BY <1>3, <1>5, <1>6, <1>7, <1>11 DEF OverlayChunk
  <2>4. \A i \in 1..Len(wire') :
           /\ i <= c - k => wire'[i] = OverlayChunk(o, v, k + i)
           /\ i > c - k => wire'[i].kind # "BaseOverlay"
    <3> SUFFICES ASSUME NEW i \in 1..(Len(wire) - 1)
                 PROVE  ~(i <= c - k) /\ wire[i + 1].kind # "BaseOverlay"
      BY <1>1, <1>6
    <3>1. i + 1 \in 1..Len(wire) /\ ~(i <= c - k) /\ i + 1 > c - k
      BY <1>3, <1>5, <1>6, <2>3
    <3> QED BY <3>1, <1>7, Zenon
  <2>5. Len(boot_config'.data) = k
    BY <2>2 DEF k
  <2>6. FromOverlay(p)'
    BY <2>2, <2>4, <2>5, <1>3, <1>4, <1>5, <1>7, <1>9, Zenon DEF FromOverlay
  <2>7. StreamTypeOK' /\ StreamIsSnapshot'
    BY <1>1, <1>6, <2>2, NoneIsNoOutcome, Zenon DEF StreamTypeOK, StreamIsSnapshot
  <2> QED BY <2>6, <2>7, <1>9 DEF StreamInv
<1>12. CASE m.kind = "Complete"
  <2>1. boot_config' = [boot_config EXCEPT !.outcome = "complete"]
    BY <1>12, Zenon DEF ReceiveChunk, m
  <2>2. /\ boot_config'.data = boot_config.data /\ boot_config'.base_version = boot_config.base_version
        /\ boot_config'.outcome = "complete"
        /\ boot_config' \in [data : Seq(ConfigChunk), node_delta : Nat, base_version : Nat,
                             outcome : {None, "complete", "ended", "failed"}]
    BY <1>1, <2>1, OutcomeNoted, Zenon
  <2>3. k = c
    <3>1. ~(1 <= c - k)
      BY <1>3, <1>5, <1>6, <1>7, <1>12 DEF OverlayChunk
    <3> QED BY <3>1, <1>3, <1>5
  <2>4. boot_config.base_version = v
    BY <2>3, <1>3, <1>7
  <2>5. /\ DOMAIN published' = 1..Len(published) /\ DOMAIN boot_config.data = 1..k
        /\ Len(boot_config.data) = k
    BY <1>1 DEF k
  <2>6. StreamIsSnapshot'
    <3>1. /\ p \in DOMAIN published' /\ boot_config'.base_version = published'[p].version
          /\ Len(boot_config'.data) = Chunks[published'[p].overlay]
          /\ \A i \in DOMAIN boot_config'.data :
                boot_config'.data[i] = OverlayChunk(published'[p].overlay, published'[p].version, i)
      BY <2>2, <2>3, <2>4, <2>5, <1>2, <1>3, <1>4, <1>7, <1>9, ZenonT(30)
    <3>2. Len(boot_config'.data) <= Chunks[published'[p].overlay]
      BY <3>1, <2>2, <2>5, <1>5
    <3> QED BY <3>1, <3>2, Zenon DEF StreamIsSnapshot
  <2>7. StreamTypeOK'
    BY <1>1, <1>6, <2>2, Zenon DEF StreamTypeOK
  <2> QED BY <2>2, <2>6, <2>7, NoneIsNoOutcome DEF StreamInv
<1> QED BY <1>8, <1>10, <1>11, <1>12

\* The stream ends early with no error: what has come are the first chunks of one overlay.
LEMMA EndedEarly ==
    ASSUME StreamInv, StreamEnds
    PROVE  StreamInv'
<1>1. /\ wire # <<>> /\ boot_config.outcome = None /\ wire' = <<>>
      /\ UNCHANGED <<published, node_entries>>
      /\ boot_config' = [boot_config EXCEPT !.outcome = "ended"]
  BY Zenon DEF StreamEnds
<1>2. /\ published \in Seq(BootOverlayRecord) /\ node_entries \in Nat
      /\ boot_config \in [data : Seq(ConfigChunk), node_delta : Nat, base_version : Nat,
                          outcome : {None, "complete", "ended", "failed"}]
  BY Zenon DEF StreamInv, StreamTypeOK
<1>3. PICK p \in 1..Len(published) : FromOverlay(p)
  BY <1>1, Zenon DEF StreamInv
<1>4. /\ boot_config'.data = boot_config.data /\ boot_config'.base_version = boot_config.base_version
      /\ boot_config'.outcome = "ended"
      /\ boot_config' \in [data : Seq(ConfigChunk), node_delta : Nat, base_version : Nat,
                           outcome : {None, "complete", "ended", "failed"}]
  BY <1>1, <1>2, OutcomeNoted, Zenon
<1>5. StreamTypeOK'
  <2>1. <<>> \in Seq(ConfigChunk)
    OBVIOUS
  <2> QED BY <1>1, <1>2, <1>4, <2>1, Zenon DEF StreamTypeOK
<1>6. /\ DOMAIN published = 1..Len(published)
      /\ DOMAIN boot_config.data = 1..Len(boot_config.data)
      /\ boot_config.data # <<>> => Len(boot_config.data) > 0
  BY <1>2
<1>7. StreamIsSnapshot'
  <2> SUFFICES ASSUME boot_config.data # <<>>
               PROVE  /\ p \in DOMAIN published
                      /\ boot_config.base_version = published[p].version
                      /\ Len(boot_config.data) <= Chunks[published[p].overlay]
                      /\ \A i \in DOMAIN boot_config.data :
                            boot_config.data[i] = OverlayChunk(published[p].overlay, published[p].version, i)
    BY <1>1, <1>4 DEF StreamIsSnapshot
  <2> QED BY <1>3, <1>6, Zenon DEF FromOverlay
<1> QED BY <1>1, <1>5, <1>7, Zenon DEF StreamInv

\* The stream is refused, breaks with an error, or is lost with the process.
LEMMA StreamEnded ==
    ASSUME StreamInv, StreamRefused \/ StreamBroken \/ StreamLost
    PROVE  StreamInv'
<1>1. UNCHANGED <<published, node_entries>> /\ wire' \in {wire, <<>>}
  BY DEF StreamRefused, StreamBroken, StreamLost
<1>2. \/ boot_config' = NoConfig /\ wire' = <<>>
      \/ boot_config' \in {[NoConfig EXCEPT !.outcome = "failed"],
                           [boot_config EXCEPT !.outcome = "failed"]}
  BY DEF StreamRefused, StreamBroken, StreamLost
<1> DEFINE Assembled == [data : Seq(ConfigChunk), node_delta : Nat, base_version : Nat,
                         outcome : {None, "complete", "ended", "failed"}]
<1>3. /\ boot_config' \in Assembled
      /\ boot_config'.outcome = "failed" \/ (boot_config'.outcome = None /\ wire' = <<>>)
  <2>1. NoConfig \in Assembled /\ boot_config \in Assembled /\ NoConfig.outcome = None
    BY DEF NoConfig, StreamInv, StreamTypeOK
  <2>2. \A b \in Assembled : /\ [b EXCEPT !.outcome = "failed"] \in Assembled
                             /\ [b EXCEPT !.outcome = "failed"].outcome = "failed"
    OBVIOUS
  <2> HIDE DEF Assembled
  <2> QED BY <1>2, <2>1, <2>2, Zenon
<1>4. StreamTypeOK'
  <2>1. wire' \in Seq(ConfigChunk)
    <3>1. <<>> \in Seq(ConfigChunk) /\ wire \in Seq(ConfigChunk)
      BY DEF StreamInv, StreamTypeOK
    <3> QED BY <1>1, <3>1, Zenon
  <2>2. published' \in Seq(BootOverlayRecord) /\ node_entries' \in Nat
    BY <1>1 DEF StreamInv, StreamTypeOK
  <2> QED BY <1>3, <2>1, <2>2, Zenon DEF StreamTypeOK
<1> QED BY <1>3, <1>4, NoneIsNoOutcome, Zenon DEF StreamInv, StreamIsSnapshot

\* StreamInv is kept by every step of the boot.
LEMMA StreamStepInv ==
    ASSUME StreamInv, BootNext
    PROVE  StreamInv'
<1> USE DEF Quiet, overlayVars, streamVars
<1>1. CASE Start
  BY <1>1, StreamUntouched, Zenon DEF Start, journalSide
<1>2. CASE Crash \/ EarlyInitFails \/ ReportFails \/ BindFails \/ Shutdown \/ BmcReboot
  <2>1. StreamLost
    BY <1>2, Zenon DEF Crash, EarlyInitFails, ReportFails, BindFails, Shutdown, BmcReboot, Exit, ProcessGone
  <2> QED BY <2>1, StreamEnded
<1>3. CASE \/ EarlyInit \/ OpenWatchdog \/ TimeoutUnknown \/ NoWatchdog \/ BuildCascade \/ GetIdentity \/ Report
           \/ NoStream \/ StreamDone \/ SignalReady \/ StartLoop \/ Subscribe \/ ServeShell
  <2>1. UNCHANGED streamVars
    BY <1>3, Zenon DEF EarlyInit, OpenWatchdog, TimeoutUnknown, NoWatchdog, BuildCascade, GetIdentity, Report, NoStream,
                StreamDone, SignalReady, StartLoop, Subscribe, ServeShell
  <2> QED BY <2>1, StreamUntouched
<1>4. CASE \/ \E a \in Policy \cup {"OverlayChanged", "NodeDeltaChanged", "BlacklistChanged"} : UpdateArrives(a)
           \/ HandleAction \/ CachePolicy \/ BootPet \/ LoopPet \/ Tick
  <2>1. UNCHANGED streamVars
    BY <1>4, Zenon DEF UpdateArrives, HandleAction, CachePolicy, BootPet, LoopPet, Tick
  <2> QED BY <2>1, StreamUntouched
<1>5. CASE OpenStream
  BY <1>5, OpenedStream, StreamEnded, Zenon DEF OpenStream
<1>6. CASE StreamStep
  <2>1. CASE ApplyItem
    BY <2>1, StreamUntouched, Zenon DEF ApplyItem
  <2> QED BY <1>6, <2>1, ReceivedChunk, EndedEarly, StreamEnded, Zenon DEF StreamStep
<1>7. CASE (\E o \in Overlay, v \in Version : PublishOverlay(o, v)) \/ CommitNodeEntry
  <2>1. CASE CommitNodeEntry
    <3>1. node_entries' \in Nat /\ UNCHANGED <<published, wire, boot_config>>
      BY <2>1 DEF CommitNodeEntry, StreamInv, StreamTypeOK
    <3> QED BY <3>1, ZenonT(30) DEF StreamInv, StreamTypeOK, StreamIsSnapshot, FromOverlay
  <2> QED BY <1>7, <2>1, PublishKeepsStream
<1> QED BY <1>1, <1>2, <1>3, <1>4, <1>5, <1>6, <1>7, Zenon DEF BootNext

\* Whatever is published while a boot configuration travels, with whatever version, and
\* wherever the process or the stream ends, one that is kept is a prefix of one published
\* overlay, all of it once Complete was received, under that overlay's version.
THEOREM StreamsAreSnapshots == BootSpec => []StreamIsSnapshot
<1>1. BootInit => StreamInv
  <2> SUFFICES ASSUME BootInit PROVE StreamInv
    OBVIOUS
  <2>1. published = <<>> /\ node_entries = 0 /\ wire = <<>> /\ boot_config = NoConfig
    BY Zenon DEF BootInit, OverlayInit
  <2>2. StreamTypeOK
    BY <2>1 DEF StreamTypeOK, NoConfig
  <2> QED BY <2>1, <2>2, NoneIsNoOutcome, Zenon DEF StreamInv, StreamIsSnapshot, NoConfig
<1>2. StreamInv /\ [BootNext]_bootVars => StreamInv'
  BY StreamStepInv, StreamUntouched, Zenon DEF bootVars, overlayVars, streamVars
<1>3. StreamInv => StreamIsSnapshot
  BY DEF StreamInv
<1> QED BY <1>1, <1>2, <1>3, PTL DEF BootSpec

-----------------------------------------------------------------------------
(* The network interfaces.                                                 *)

\* What the commands run so far have done to the interface the call is at.
CurrentSet ==
    LET l == links[Iface.name]
    IN  /\ (Iface.mtu /\ at.cmd # "mtu") => l.mtu
        /\ (Iface.address /\ at.cmd \in {"up", "route"}) => Iface.name \in l.addrs
        /\ at.cmd = "route" => l.up

\* The inductive invariant of configure: names are distinct, so that setting up one
\* interface takes nothing from those reported before.
NetworkInv ==
    /\ NetworkTypeOK /\ InterfacesReported
    /\ \A i, j \in 1..Len(interfaces) : interfaces[i].name = interfaces[j].name => i = j
    /\ at # NoCall =>
          /\ at.cmd # "idle" /\ at.idx \in 1..Len(interfaces) /\ Len(states) = at.idx - 1
          /\ CurrentSet

Link == [addrs : SUBSET (Interface \cup {"old"}), up : BOOLEAN, mtu : BOOLEAN]
InterfaceReport == [name : Interface, up : BOOLEAN, address : BOOLEAN, mtu : BOOLEAN]

\* What a command knows of the declaration it works on.
LEMMA CurrentInterface ==
    ASSUME NetworkInv, at.cmd # "idle"
    PROVE  /\ at # NoCall /\ at.idx \in 1..Len(interfaces) /\ Len(states) = at.idx - 1
           /\ CurrentSet
           /\ Iface \in InterfaceConfig /\ Iface.name \in Interface
           /\ Iface.address \in BOOLEAN /\ Iface.mtu \in BOOLEAN
           /\ links[Iface.name] \in Link
           /\ \A i \in 1..Len(states) : states[i].name = interfaces[i].name /\ states[i].name # Iface.name
<1>1. at # NoCall
  BY DEF NoCall
<1>2. at.idx \in 1..Len(interfaces) /\ Len(states) = at.idx - 1 /\ CurrentSet
  BY <1>1 DEF NetworkInv
<1>3. Iface \in InterfaceConfig
  BY <1>2 DEF Iface, NetworkInv, NetworkTypeOK
<1>4. Iface.name \in Interface /\ Iface.address \in BOOLEAN /\ Iface.mtu \in BOOLEAN
  BY <1>3, NetworkAssumption
<1>5. links[Iface.name] \in Link
  BY <1>4 DEF NetworkInv, NetworkTypeOK, Link
<1>6. ASSUME NEW i \in 1..Len(states)
      PROVE  states[i].name = interfaces[i].name /\ states[i].name # Iface.name
  <2>1. i \in 1..Len(interfaces) /\ i # at.idx
    BY <1>2 DEF NetworkInv, NetworkTypeOK
  <2>2. states[i].name = interfaces[i].name
    BY Zenon DEF NetworkInv, InterfacesReported
  <2> QED BY <1>2, <2>1, <2>2, Zenon DEF Iface, NetworkInv
<1> QED BY <1>1, <1>2, <1>3, <1>4, <1>5, <1>6, Zenon

\* A command succeeded and the next one follows: only the current interface's link may
\* have changed, and no link went down.
LEMMA NextCommand ==
    ASSUME NetworkInv, at.cmd # "idle",
           NEW cmd \in {"flush", "addr", "up", "route"}, Then(cmd),
           NEW l \in Link, links' \in {links, [links EXCEPT ![Iface.name] = l]},
           links[Iface.name].up => links'[Iface.name].up,
           (Iface.mtu => links'[Iface.name].mtu),
           (Iface.address /\ cmd \in {"up", "route"}) => Iface.name \in links'[Iface.name].addrs,
           cmd = "route" => links'[Iface.name].up,
           UNCHANGED <<interfaces, default_route, configures>>
    PROVE  NetworkInv'
<1>1. /\ at' = [at EXCEPT !.cmd = cmd] /\ UNCHANGED states
      /\ at \in [idx : Nat, cmd : {"idle", "mtu", "flush", "addr", "up", "route"}]
  BY DEF Then, NetworkInv, NetworkTypeOK
<1>2. /\ at'.cmd = cmd /\ at'.idx = at.idx
      /\ at' \in [idx : Nat, cmd : {"idle", "mtu", "flush", "addr", "up", "route"}]
  BY <1>1
<1>3. Iface' = Iface
  BY <1>2, Zenon DEF Iface
<1>4. links \in [Interface -> Link] /\ Iface.name \in Interface
  BY CurrentInterface, Zenon DEF NetworkInv, NetworkTypeOK, Link
<1>5. /\ links' \in [Interface -> Link]
      /\ \A n \in Interface : n # Iface.name => links'[n] = links[n]
      /\ \A n \in Interface : links[n].up => links'[n].up
  BY <1>4, Zenon
<1>6. NetworkTypeOK'
  BY <1>1, <1>2, <1>5, Zenon DEF NetworkInv, NetworkTypeOK, Link
<1>7. at' # NoCall
  BY <1>2 DEF NoCall
<1>8. InterfacesReported'
  <2>1. ASSUME NEW i \in 1..Len(states)
        PROVE  links'[states[i].name] = links[states[i].name]
    <3>0. states \in Seq(InterfaceReport)
      BY Zenon DEF NetworkInv, NetworkTypeOK, InterfaceReport
    <3>1. states[i] \in InterfaceReport /\ states[i].name \in Interface
      <4>1. states[i] \in InterfaceReport
        BY <3>0
      <4> QED BY <4>1, Zenon DEF InterfaceReport
    <3>2. states[i].name # Iface.name
      BY CurrentInterface, Zenon
    <3> QED BY <3>1, <3>2, <1>5, Zenon
  <2>2. default_route # "none" => links'[default_route].up
    BY <1>5, Zenon DEF NetworkInv, NetworkTypeOK, InterfacesReported
  <2> QED BY <1>1, <1>7, <2>1, <2>2, Zenon DEF NetworkInv, InterfacesReported
<1>9. CurrentSet'
  BY <1>2, <1>3, Zenon DEF CurrentSet
<1> QED BY <1>1, <1>2, <1>6, <1>8, <1>9, CurrentInterface, Zenon DEF NetworkInv

\* A declaration is done with: what is reported up is up, as declared.
LEMMA NextReport ==
    ASSUME NetworkInv, at.cmd # "idle",
           NEW r \in InterfaceReport, r.name = Iface.name, Reported(r),
           r.up => /\ links[Iface.name].up
                   /\ Iface.address => Iface.name \in links[Iface.name].addrs
                   /\ Iface.mtu => links[Iface.name].mtu,
           default_route' = default_route \/ (default_route' = Iface.name /\ r.up),
           UNCHANGED <<interfaces, links, configures>>
    PROVE  NetworkInv'
<1>1. /\ states' = Append(states, r)
      /\ at' = IF at.idx = Len(interfaces) THEN NoCall ELSE [idx |-> at.idx + 1, cmd |-> "mtu"]
  BY Zenon DEF Reported
<1>2. /\ states \in Seq(InterfaceReport) /\ interfaces \in Seq(InterfaceConfig)
      /\ at.idx \in 1..Len(interfaces) /\ Len(states) = at.idx - 1
  BY CurrentInterface, Zenon DEF NetworkInv, NetworkTypeOK, InterfaceReport
<1>3. /\ states' \in Seq(InterfaceReport) /\ Len(states') = at.idx
      /\ \A i \in 1..(at.idx - 1) : states'[i] = states[i]
      /\ states'[at.idx] = r
  BY <1>1, <1>2
<1>4. default_route' \in Interface \cup {"none"}
  BY CurrentInterface, Zenon DEF NetworkInv, NetworkTypeOK
<1>5. at' \in [idx : Nat, cmd : {"idle", "mtu", "flush", "addr", "up", "route"}]
  BY <1>1, <1>2 DEF NoCall
<1>6. NetworkTypeOK'
  BY <1>3, <1>4, <1>5, Zenon DEF NetworkInv, NetworkTypeOK, InterfaceReport
<1>7. at' = NoCall => Len(states') = Len(interfaces')
  BY <1>1, <1>2, <1>3, Zenon DEF NoCall
<1>8. at' # NoCall =>
          at'.cmd = "mtu" /\ at'.idx \in 1..Len(interfaces') /\ Len(states') = at'.idx - 1
  BY <1>1, <1>2, <1>3
<1>9. (CurrentSet)' \/ at' = NoCall
  BY <1>8, Zenon DEF CurrentSet
<1>10. ASSUME NEW i \in 1..Len(states')
       PROVE  /\ states'[i].name = interfaces[i].name
              /\ states'[i].up => /\ links[states'[i].name].up
                                  /\ interfaces[i].address => states'[i].name \in links[states'[i].name].addrs
                                  /\ interfaces[i].mtu => links[states'[i].name].mtu
  <2>1. CASE i = at.idx
    BY <2>1, <1>3, Zenon DEF Iface
  <2>2. CASE i \in 1..(at.idx - 1)
    <3>1. states'[i] = states[i] /\ i \in 1..Len(states)
      BY <1>2, <1>3, <2>2, Zenon
    <3> QED BY <3>1, Zenon DEF NetworkInv, InterfacesReported
  <2>3. i = at.idx \/ i \in 1..(at.idx - 1)
    BY <1>2, <1>3
  <2> QED BY <2>1, <2>2, <2>3, Zenon
<1>11. default_route' # "none" => links[default_route'].up
  BY Zenon DEF NetworkInv, InterfacesReported
<1>12. InterfacesReported'
  BY <1>7, <1>10, <1>11, Zenon DEF InterfacesReported
<1> QED BY <1>6, <1>8, <1>9, <1>12, Zenon DEF NetworkInv

\* A call starts with nothing reported.
LEMMA CallStarts ==
    ASSUME NetworkInv, NEW d \in Declarations, configure(d)
    PROVE  NetworkInv'
<1>1. PICK n \in 0..MaxInterfaces : d \in [1..n -> InterfaceConfig]
  BY DEF Declarations
<1>2. n \in Nat
  BY <1>1, NetworkAssumption
<1>3. d \in Seq(InterfaceConfig) /\ Len(d) = n /\ DOMAIN d = 1..n
  BY <1>1, <1>2
<1>4. /\ interfaces' = d /\ states' = <<>> /\ configures' = configures + 1 /\ configures < MaxConfigures
      /\ at' = IF d = <<>> THEN NoCall ELSE [idx |-> 1, cmd |-> "mtu"]
      /\ UNCHANGED <<links, default_route>>
  BY DEF configure
<1>5. \A i, j \in 1..Len(d) : d[i].name = d[j].name => i = j
  BY <1>3 DEF Declarations
<1>6. d # <<>> => 1 \in 1..Len(d)
  BY <1>2, <1>3
<1>7. NetworkTypeOK'
  <2>1. at' \in [idx : Nat, cmd : {"idle", "mtu", "flush", "addr", "up", "route"}]
    BY <1>4 DEF NoCall
  <2>2. configures' \in 0..MaxConfigures
    BY <1>4, NetworkAssumption DEF NetworkInv, NetworkTypeOK
  <2>3. states' \in Seq([name : Interface, up : BOOLEAN, address : BOOLEAN, mtu : BOOLEAN])
    BY <1>4
  <2> QED BY <1>3, <1>4, <2>1, <2>2, <2>3, Zenon DEF NetworkInv, NetworkTypeOK
<1>8. InterfacesReported'
  <2>1. Len(states') = 0 /\ (at' = NoCall => Len(interfaces') = 0)
    BY <1>4 DEF NoCall
  <2>2. default_route # "none" => links[default_route].up
    BY Zenon DEF InterfacesReported, NetworkInv
  <2> QED BY <1>4, <2>1, <2>2 DEF InterfacesReported
<1>9. at' # NoCall => /\ at'.cmd # "idle" /\ at'.idx \in 1..Len(interfaces') /\ Len(states') = at'.idx - 1
                      /\ at'.cmd = "mtu"
  BY <1>4, <1>6
<1>10. at' # NoCall => CurrentSet'
  BY <1>9 DEF CurrentSet
<1> QED BY <1>4, <1>5, <1>7, <1>8, <1>9, <1>10, Zenon DEF NetworkInv

\* The ip commands, each with both of its outcomes.
LEMMA CommandKeepsInv ==
    ASSUME NetworkInv, NEW ok \in BOOLEAN,
           set_mtu(ok) \/ flush(ok) \/ add_address(ok) \/ link_up(ok) \/ add_default_route(ok)
    PROVE  NetworkInv'
<1> DEFINE l == links[Iface.name]
<1>1. at.cmd \in {"mtu", "flush", "addr", "up", "route"} /\ at.cmd # "idle"
  BY Zenon DEF set_mtu, flush, add_address, link_up, add_default_route
<1>2. /\ Iface.name \in Interface /\ Iface.address \in BOOLEAN /\ Iface.mtu \in BOOLEAN
      /\ l \in Link /\ CurrentSet
  BY <1>1, CurrentInterface, Zenon
<1>3. links \in [Interface -> Link]
  BY DEF NetworkInv, NetworkTypeOK, Link
<1>4. \A x \in Link : [links EXCEPT ![Iface.name] = x][Iface.name] = x
  BY <1>2, <1>3, Zenon
<1>5. \A up, address, mtu \in BOOLEAN :
          /\ StateOf(up, address, mtu) \in InterfaceReport
          /\ StateOf(up, address, mtu).name = Iface.name /\ StateOf(up, address, mtu).up = up
  BY <1>2, Zenon DEF StateOf, InterfaceReport
<1>6. CASE set_mtu(ok)
  <2>1. CASE ~Iface.mtu
    <3>1. Then("flush") /\ UNCHANGED links /\ UNCHANGED <<interfaces, default_route, configures>>
      BY <1>6, <2>1 DEF set_mtu
    <3> QED BY <1>1, <1>2, <2>1, <3>1, NextCommand, Zenon
  <2>2. CASE Iface.mtu /\ ok
    <3>1. PICK x \in Link : x = [l EXCEPT !.mtu = TRUE]
      BY <1>2, Zenon DEF Link
    <3>2. links' = [links EXCEPT ![Iface.name] = x]
      BY <1>6, <2>2, <3>1, Zenon DEF set_mtu
    <3>3. Then("flush") /\ UNCHANGED <<interfaces, default_route, configures>>
      BY <1>6, <2>2, Zenon DEF set_mtu
    <3>4. links'[Iface.name] = x /\ x.mtu /\ x.up = l.up
      BY <1>2, <1>4, <3>1, <3>2, Zenon DEF Link
    <3> QED BY <1>1, <3>2, <3>3, <3>4, NextCommand, Zenon
  <2>3. CASE Iface.mtu /\ ~ok
    <3>1. Reported(StateOf(FALSE, FALSE, FALSE)) /\ UNCHANGED <<interfaces, links, default_route, configures>>
      BY <1>6, <2>3, Zenon DEF set_mtu
    <3> QED BY <1>1, <1>5, <3>1, NextReport, Zenon
  <2> QED BY <1>2, <2>1, <2>2, <2>3
<1>7. CASE flush(ok)
  <2>1. PICK x \in Link : x = [l EXCEPT !.addrs = {}]
    BY <1>2, Zenon DEF Link
  <2>2. /\ links' \in {links, [links EXCEPT ![Iface.name] = x]} /\ at.cmd = "flush"
        /\ Then(IF Iface.address THEN "addr" ELSE "up")
        /\ UNCHANGED <<interfaces, default_route, configures>>
    BY <1>7, <2>1 DEF flush
  <2>3. links'[Iface.name].up = l.up /\ links'[Iface.name].mtu = l.mtu
    BY <1>2, <1>4, <2>1, <2>2, Zenon DEF Link
  <2>4. Iface.mtu => l.mtu
    BY <1>2, <2>2, Zenon DEF CurrentSet
  <2>5. CASE Iface.address
    <3>1. Then("addr")
      BY <2>2, <2>5
    <3> QED BY <1>1, <2>2, <2>3, <2>4, <3>1, NextCommand, Zenon
  <2>6. CASE ~Iface.address
    <3>1. Then("up")
      BY <2>2, <2>6
    <3> QED BY <1>1, <2>2, <2>3, <2>4, <2>6, <3>1, NextCommand, Zenon
  <2> QED BY <1>2, <2>5, <2>6
<1>8. CASE add_address(ok)
  <2>0. at.cmd = "addr"
    BY <1>8, Zenon DEF add_address
  <2>1. CASE ok
    <3>1. PICK x \in Link : x = [l EXCEPT !.addrs = l.addrs \cup {Iface.name}]
      BY <1>2, Zenon DEF Link
    <3>2. links' = [links EXCEPT ![Iface.name] = x]
      BY <1>8, <2>1, <3>1, Zenon DEF add_address
    <3>3. Then("up") /\ UNCHANGED <<interfaces, default_route, configures>>
      BY <1>8, <2>1, Zenon DEF add_address
    <3>4. links'[Iface.name] = x /\ x.mtu = l.mtu /\ x.up = l.up /\ Iface.name \in x.addrs
      BY <1>2, <1>4, <3>1, <3>2, Zenon DEF Link
    <3>5. Iface.mtu => l.mtu
      BY <1>2, <2>0 DEF CurrentSet
    <3> QED BY <1>1, <3>2, <3>3, <3>4, <3>5, NextCommand, Zenon
  <2>2. CASE ~ok
    <3>1. Reported(StateOf(FALSE, FALSE, Iface.mtu)) /\ UNCHANGED <<interfaces, links, default_route, configures>>
      BY <1>8, <2>2, Zenon DEF add_address
    <3> QED BY <1>1, <1>2, <1>5, <3>1, NextReport, Zenon
  <2> QED BY <2>1, <2>2
<1>9. CASE link_up(ok)
  <2>0. at.cmd = "up"
    BY <1>9, Zenon DEF link_up
  <2>1. CASE ok
    <3>1. PICK x \in Link : x = [l EXCEPT !.up = TRUE]
      BY <1>2, Zenon DEF Link
    <3>2. links' = [links EXCEPT ![Iface.name] = x]
      BY <1>9, <2>1, <3>1, Zenon DEF link_up
    <3>3. Then("route") /\ UNCHANGED <<interfaces, default_route, configures>>
      BY <1>9, <2>1, Zenon DEF link_up
    <3>4. links'[Iface.name] = x /\ x.mtu = l.mtu /\ x.up /\ x.addrs = l.addrs
      BY <1>2, <1>4, <3>1, <3>2, Zenon DEF Link
    <3>5. (Iface.mtu => l.mtu) /\ (Iface.address => Iface.name \in l.addrs)
      BY <1>2, <2>0 DEF CurrentSet
    <3> QED BY <1>1, <3>2, <3>3, <3>4, <3>5, NextCommand, Zenon
  <2>2. CASE ~ok
    <3>1. Reported(StateOf(FALSE, Iface.address, Iface.mtu)) /\ UNCHANGED <<interfaces, links, default_route, configures>>
      BY <1>9, <2>2, Zenon DEF link_up
    <3> QED BY <1>1, <1>2, <1>5, <3>1, NextReport, Zenon
  <2> QED BY <2>1, <2>2
<1>10. CASE add_default_route(ok)
  <2>1. /\ at.cmd = "route" /\ Reported(StateOf(TRUE, Iface.address, Iface.mtu))
        /\ UNCHANGED <<interfaces, links, configures>> /\ default_route' \in {default_route, Iface.name}
    BY <1>10, Zenon DEF add_default_route
  <2>2. (Iface.address => Iface.name \in l.addrs) /\ (Iface.mtu => l.mtu)
    BY <1>2, <2>1, Zenon DEF CurrentSet
  <2>3. l.up
    BY <1>2, <2>1, Zenon DEF CurrentSet
  <2>4. PICK r \in InterfaceReport : r = StateOf(TRUE, Iface.address, Iface.mtu)
    BY <1>2, <1>5, Zenon
  <2>5. r.up /\ r.name = Iface.name
    BY <1>2, <1>5, <2>4, Zenon
  <2> QED BY <1>1, <2>1, <2>2, <2>3, <2>4, <2>5, NextReport, Zenon
<1> QED BY <1>6, <1>7, <1>8, <1>9, <1>10

\* Every declaration of a call is reported once and in order, what is reported up is up
\* as declared, and the default route goes through an interface that is up: whichever
\* commands fail, over repeated and killed calls, for any number of interfaces.
THEOREM ReportsAreTrue == NetworkSpec => []InterfacesReported
<1>1. NetworkInit => NetworkInv
  <2> SUFFICES ASSUME NetworkInit PROVE NetworkInv
    OBVIOUS
  <2>1. links \in [Interface -> Link]
    BY Zenon DEF NetworkInit, Link
  <2>2. NetworkTypeOK
    BY <2>1, NetworkAssumption DEF NetworkInit, NetworkTypeOK, Link, NoCall
  <2>3. InterfacesReported
    BY DEF NetworkInit, InterfacesReported
  <2> QED BY <2>2, <2>3 DEF NetworkInv, NetworkInit
<1>2. NetworkInv /\ [NetworkNext]_networkVars => NetworkInv'
  <2> SUFFICES ASSUME NetworkInv, [NetworkNext]_networkVars PROVE NetworkInv'
    OBVIOUS
  <2>1. CASE AgentKilled
    <3>1. interfaces' = <<>> /\ states' = <<>> /\ at' = NoCall /\ UNCHANGED <<links, default_route, configures>>
      BY <2>1 DEF AgentKilled
    <3>2. NetworkTypeOK'
      BY <3>1 DEF NetworkInv, NetworkTypeOK, NoCall
    <3>3. InterfacesReported'
      <4>1. default_route # "none" => links[default_route].up
        BY Zenon DEF NetworkInv, InterfacesReported
      <4>2. 1..Len(states') = {} /\ Len(states') = Len(interfaces')
        BY <3>1
      <4> QED BY <3>1, <4>1, <4>2, Zenon DEF InterfacesReported
    <3>4. 1..Len(interfaces') = {}
      BY <3>1
    <3> QED BY <3>1, <3>2, <3>3, <3>4, Zenon DEF NetworkInv
  <2>2. CASE UNCHANGED networkVars
    BY <2>2, Zenon DEF networkVars, NetworkInv, NetworkTypeOK, InterfacesReported, CurrentSet, Iface
  <2> QED BY <2>1, <2>2, CallStarts, CommandKeepsInv DEF NetworkNext
<1>3. NetworkInv => InterfacesReported
  BY DEF NetworkInv
<1> QED BY <1>1, <1>2, <1>3, PTL DEF NetworkSpec

-----------------------------------------------------------------------------
(* Conflicts                                                               *)

ConflictInv == ConflictTypeOK /\ paused_keys = PendingKeys

\* Manifests, resolutions, expiries and cleanups pause and release the keys they
\* make pending and settle, and no others.
LEMMA ConflictStepInv == ConflictInv /\ [ConflictNext]_conflictVars => ConflictInv'
<1>. SUFFICES ASSUME ConflictInv, [ConflictNext]_conflictVars PROVE ConflictInv'
  OBVIOUS
<1>. USE ConflictAssumption DEF ConflictInv, ConflictTypeOK, PendingKeys, ResolvedStates
<1>1. ASSUME NEW entries \in SUBSET Delta, NEW local_entries \in SUBSET Delta,
             NEW t \in 0..conflictNow,
             register_conflicts(detect_conflicts(entries, local_entries), t)
      PROVE  ConflictInv'
  <2>. DEFINE keys == detect_conflicts(entries, local_entries)
  <2>1. keys \subseteq ConfigKey
    BY DEF detect_conflicts, Delta
  <2>. HIDE DEF keys
  <2>. QED BY <1>1, <2>1 DEF register_conflicts, keys
<1>2. ASSUME NEW k \in ConfigKey, NEW r \in ResolvedStates, resolve(k, r)
      PROVE  ConflictInv'
  BY <1>2 DEF resolve
<1>3. CASE check_grace_periods
  BY <1>3, ZenonT(30) DEF check_grace_periods
<1>4. CASE clear_resolved
  BY <1>4, Zenon DEF clear_resolved, NoConflict
<1>5. CASE ConflictTick
  BY <1>5 DEF ConflictTick
<1>6. CASE UNCHANGED conflictVars
  BY <1>6 DEF conflictVars
<1>. QED BY <1>1, <1>2, <1>3, <1>4, <1>5, <1>6, Zenon DEF ConflictNext

\* The journal wins by expiry only over a pending conflict whose grace is over.
LEMMA ExpiryIsDue ==
    ASSUME ConflictInv, [ConflictNext]_conflictVars, NEW k \in ConfigKey,
           conflicts'[k].state = "GraceExpired", conflicts[k].state # "GraceExpired"
    PROVE  conflicts[k].state = "Pending" /\ conflictNow - conflicts[k].detected_at >= grace_period
<1>. USE ConflictAssumption DEF ConflictInv, ConflictTypeOK, PendingKeys, ResolvedStates
<1>1. ASSUME NEW keys, NEW t, register_conflicts(keys, t) PROVE FALSE
  BY <1>1 DEF register_conflicts
<1>2. ASSUME NEW j \in ConfigKey, NEW r \in ResolvedStates, resolve(j, r) PROVE FALSE
  BY <1>2 DEF resolve
<1>3. CASE check_grace_periods
  BY <1>3 DEF check_grace_periods
<1>4. ASSUME clear_resolved \/ ConflictTick \/ UNCHANGED conflictVars PROVE FALSE
  BY <1>4 DEF clear_resolved, NoConflict, ConflictTick, conflictVars
<1>. QED BY <1>1, <1>2, <1>3, <1>4, Zenon DEF ConflictNext

\* CR2 and CR3: ConflictManager pauses exactly the keys with a pending conflict, and
\* check_grace_periods lets the journal win only after the grace period.
THEOREM PausesFollowConflicts == ConflictSpec => PausedArePending
<1>1. ConflictInit => ConflictInv
  BY ConflictAssumption
     DEF ConflictInit, ConflictInv, ConflictTypeOK, PendingKeys, NoConflict, ResolvedStates
<1>2. ConflictInv => paused_keys = PendingKeys
  BY DEF ConflictInv
<1>3. ConflictInv /\ [ConflictNext]_conflictVars =>
         [\A k \in ConfigKey :
             (conflicts'[k].state = "GraceExpired" /\ conflicts[k].state # "GraceExpired")
                 => /\ conflicts[k].state = "Pending"
                    /\ conflictNow - conflicts[k].detected_at >= grace_period]_conflictVars
  BY ExpiryIsDue
<1>. QED BY <1>1, <1>2, <1>3, ConflictStepInv, PTL DEF ConflictSpec, PausedArePending
=============================================================================
