---------------------------- MODULE AgentProofs -----------------------------
(***************************************************************************)
(* Proofs about what the agent does on its node: exec with the commit      *)
(* window and the rollback timer, the ids of subjects, and the scopes of   *)
(* processes, for every set of calls, subjects, scopes and processes and   *)
(* every bound.                                                            *)
(***************************************************************************)
EXTENDS ShellExec, IdentityMap, Cgroups, TLAPS

-----------------------------------------------------------------------------
(* Exec and the commit window                                              *)

\* An exec that has run is changing if it is in changed, so ExecOpen windows it; one
\* that is refused names a command off the whitelist.
CallSound(e) ==
    /\ execs[e].pc = "denied" => execs[e].command \in Command \ DOMAIN Whitelist
    /\ execs[e].pc = "run" => e \notin history.changed
    /\ execs[e].pc \in {"append", "open"} /\ e \in history.changed => execs[e].changing
    /\ execs[e].pc = "answered" /\ e \in history.changed => e \in history.windowed

\* An open window is due no earlier than the grace says, no lock is given back with an
\* expired window in it, and past its check the timer is not in observe mode.
WindowGraced ==
    /\ cw.state # "Expired"
    /\ cw.state = "Open" => cw.deadline >= history.grace
    /\ timer = "checked" => enforcement # "observe"

ExecInv == ExecTypeOK /\ WindowGraced /\ \A e \in Exec : CallSound(e)

CwType == [config : WindowConfig, state : {"Idle", "Open", "Expired"},
           deadline : Nat, emergency : BOOLEAN]

\* The greater of two numbers is one of them and not below the other.
LEMMA MaxOfTwo ==
    ASSUME NEW a \in Int, NEW b \in Int
    PROVE  MaxOf(a, b) \in {a, b} /\ MaxOf(a, b) >= a /\ MaxOf(a, b) >= b
  BY DEF MaxOf

\* A quotient of natural numbers is one.
LEMMA QuotientNat ==
    ASSUME NEW a \in Nat, NEW b \in Nat \ {0}
    PROVE  a \div b \in Nat
  OBVIOUS

\* A new window lasts the emergency window or at least MIN_SECONDS.
LEMMA OpenType ==
    ASSUME NEW w \in CwType, now \in Nat
    PROVE  /\ open(w, 1) \in CwType /\ open(w, 1).state = "Open"
           /\ ~w.emergency => open(w, 1).deadline >= now + MIN_SECONDS
<1>. DEFINE secs == w.config.base_window_seconds \div (1 + 1 * w.config.drift_sensitivity)
            lasts == calculate_window_seconds(w.config, 1)
            d == now + IF w.emergency THEN w.config.emergency_window_seconds ELSE lasts
<1>1. /\ w.config.base_window_seconds \in Nat /\ w.config.drift_sensitivity \in Nat
      /\ w.config.emergency_window_seconds \in Nat /\ MIN_SECONDS \in Nat
  BY WindowAssumption DEF CwType, Seconds
<1>2. 1 + 1 * w.config.drift_sensitivity \in Nat \ {0}
  BY <1>1
<1>3. secs \in Nat
  BY <1>1, <1>2, QuotientNat, Zenon
<1>4. lasts = MaxOf(secs, MIN_SECONDS)
  BY DEF calculate_window_seconds
<1>. HIDE DEF secs, lasts
<1>5. lasts \in Nat /\ lasts >= MIN_SECONDS
  <2>1. secs \in Int /\ MIN_SECONDS \in Int
    BY <1>1, <1>3
  <2>2. lasts \in {secs, MIN_SECONDS} /\ lasts >= MIN_SECONDS
    BY <2>1, <1>4, MaxOfTwo, Zenon
  <2>. QED BY <1>1, <1>3, <2>2
<1>6. d \in Nat /\ (~w.emergency => d >= now + MIN_SECONDS)
  BY <1>1, <1>5 DEF CwType
<1>7. open(w, 1) = [w EXCEPT !.state = "Open", !.deadline = d]
  BY DEF open, lasts
<1>. HIDE DEF d
<1>. QED BY <1>6, <1>7, Zenon DEF CwType

\* A step that leaves the exec calls alone and moves the window to one still graced.
LEMMA WindowMoves ==
    ASSUME ExecInv, UNCHANGED <<execs, denied_commands, enforcement>>,
           history' \in HistoryRecord,
           history'.changed = history.changed, history'.windowed = history.windowed,
           now' \in 0..MaxTime, cw' \in CwType, em' \in Admin \cup {None},
           timer' \in {"tick", "checked"},
           policy' \in WindowConfig \cup {None}, cached_policy' \in WindowConfig \cup {None},
           operators' \in [Admin -> {"idle", "enter", "exit"}],
           WindowGraced'
    PROVE  ExecInv'
  BY Zenon DEF ExecInv, ExecTypeOK, WindowTypeOK, CwType, CallSound

\* A step of one exec call that leaves the window as it is.
LEMMA CallMovesOn ==
    ASSUME ExecInv, NEW e \in Exec, NEW r \in CallRecord, execs' = [execs EXCEPT ![e] = r],
           history' \in HistoryRecord, history'.grace = history.grace,
           \A f \in Exec \ {e} : /\ f \in history'.changed <=> f \in history.changed
                                 /\ f \in history'.windowed <=> f \in history.windowed,
           CallSound(e)', denied_commands' \subseteq Command \ DOMAIN Whitelist,
           UNCHANGED <<now, cw, em, enforcement, timer, policy, cached_policy, operators>>
    PROVE  ExecInv'
<1>1. \A f \in Exec \ {e} : execs'[f] = execs[f]
  BY DEF ExecInv, ExecTypeOK
<1>2. \A f \in Exec : CallSound(f)'
  BY <1>1, ZenonT(30) DEF ExecInv, CallSound
<1>3. WindowGraced'
  BY DEF ExecInv, WindowGraced
<1>. QED BY <1>2, <1>3 DEF ExecInv, ExecTypeOK, WindowTypeOK

\* The steps of exec calls.
LEMMA ExecCallInv ==
    ASSUME ExecInv, NEW e \in Exec,
           \/ \E r \in Role, c \in Command : ExecStart(e, r, c) \/ ExecDenied(e, r, c)
           \/ record_denied(e) \/ ExecDone(e) \/ ExecFails(e)
           \/ ExecLogged(e) \/ ExecOpen(e) \/ ExecReturn(e)
    PROVE  ExecInv'
<1>1. /\ execs \in [Exec -> CallRecord] /\ execs[e] \in CallRecord
      /\ history \in HistoryRecord /\ cw \in CwType
      /\ denied_commands \subseteq Command \ DOMAIN Whitelist
      /\ now \in 0..MaxTime /\ now \in Nat
  BY WindowAssumption DEF ExecInv, ExecTypeOK, WindowTypeOK, CwType
<1>2. NoCall \in CallRecord
  BY DEF NoCall, CallRecord
<1>3. \A pc \in {"append", "open", "answered"} : [execs[e] EXCEPT !.pc = pc] \in CallRecord
  BY <1>1 DEF CallRecord
<1>4. ASSUME NEW pc \in {"append", "open", "answered"}, Goto(e, pc)
      PROVE  execs' = [execs EXCEPT ![e] = [execs[e] EXCEPT !.pc = pc]]
  BY <1>1, <1>4 DEF Goto
<1>5. ASSUME NEW c \in Command, NEW r \in Role, ExecStart(e, r, c)
      PROVE  ExecInv'
  <2>. DEFINE q == [pc |-> "run", command |-> c, changing |-> Changing(c)]
  <2>1. q \in CallRecord
    BY ExecAssumption, Zenon DEF CallRecord, Changing, is_exec_allowed, is_state_changing
  <2>2. /\ execs' = [execs EXCEPT ![e] = q]
        /\ history' = [history EXCEPT !.changed = history.changed \ {e},
                                      !.windowed = history.windowed \ {e}]
        /\ UNCHANGED <<now, cw, em, enforcement, timer, denied_commands, policy, cached_policy,
                       operators>>
    BY <1>5 DEF ExecStart
  <2>. HIDE DEF q
  <2>3. /\ history' \in HistoryRecord /\ history'.grace = history.grace
        /\ history'.changed = history.changed \ {e} /\ history'.windowed = history.windowed \ {e}
    BY <1>1, <2>2, Zenon DEF HistoryRecord
  <2>4. execs'[e].pc = "run"
    BY <1>1, <2>2 DEF q
  <2>5. CallSound(e)'
    BY <2>3, <2>4, Zenon DEF CallSound
  <2>. QED BY <1>1, <2>1, <2>2, <2>3, <2>5, CallMovesOn, Zenon
<1>6. ASSUME UNCHANGED <<now, cw, em, enforcement, timer, policy, cached_policy, operators, history>>,
             denied_commands' \subseteq Command \ DOMAIN Whitelist,
             NEW q \in CallRecord, execs' = [execs EXCEPT ![e] = q],
             \/ q.pc = "idle"
             \/ q.pc = "denied" /\ q.command \in Command \ DOMAIN Whitelist
             \/ q.pc = "open" /\ execs[e].pc = "append" /\ q.changing = execs[e].changing
      PROVE  ExecInv'
  <2>1. execs'[e] = q
    BY <1>1, <1>6
  <2>2. CallSound(e)'
    BY <1>6, <2>1, Zenon DEF ExecInv, CallSound
  <2>. QED BY <1>1, <1>6, <2>2, CallMovesOn, Zenon
<1>7. ASSUME NEW c \in Command, NEW r \in Role, ExecDenied(e, r, c)
      PROVE  ExecInv'
  <2>1. [pc |-> "denied", command |-> c, changing |-> FALSE] \in CallRecord
    BY DEF CallRecord
  <2>. QED BY <1>1, <1>6, <1>7, <2>1, Zenon DEF ExecDenied, is_exec_allowed
<1>8. ASSUME ExecFails(e) \/ ExecReturn(e)
      PROVE  ExecInv'
  BY <1>1, <1>2, <1>6, <1>8, Zenon DEF ExecFails, ExecReturn, NoCall
<1>9. ASSUME ExecLogged(e)
      PROVE  ExecInv'
  <2>. DEFINE q == [execs[e] EXCEPT !.pc = "open"]
  <2>1. q.pc = "open" /\ q.changing = execs[e].changing
    BY <1>1 DEF CallRecord
  <2>. QED BY <1>1, <1>3, <1>4, <1>6, <1>9, <2>1, Zenon DEF ExecLogged
<1>10. ASSUME ExecDone(e)
       PROVE  ExecInv'
  <2>. DEFINE q == [execs[e] EXCEPT !.pc = "append"]
  <2>1. q.pc = "append" /\ q.changing = execs[e].changing /\ q \in CallRecord
    BY <1>1, <1>3 DEF CallRecord
  <2>2. /\ execs' = [execs EXCEPT ![e] = q] /\ execs'[e] = q
        /\ history' = [history EXCEPT !.changed = IF execs[e].changing
                                                  THEN history.changed \cup {e} ELSE history.changed]
        /\ execs[e].pc = "run"
        /\ UNCHANGED <<now, cw, em, enforcement, timer, denied_commands, policy, cached_policy,
                       operators>>
    BY <1>1, <1>4, <1>10 DEF ExecDone
  <2>. HIDE DEF q
  <2>3. /\ history' \in HistoryRecord /\ history'.grace = history.grace
        /\ history'.windowed = history.windowed
        /\ history'.changed = IF execs[e].changing
                              THEN history.changed \cup {e} ELSE history.changed
    BY <1>1, <2>2 DEF HistoryRecord
  <2>4. CallSound(e)'
    BY <2>1, <2>2, <2>3, Zenon DEF ExecInv, CallSound
  <2>5. \A f \in Exec \ {e} : /\ f \in history'.changed <=> f \in history.changed
                              /\ f \in history'.windowed <=> f \in history.windowed
    BY <2>3, Zenon
  <2>6. history' \in HistoryRecord /\ history'.grace = history.grace
    BY <2>3, Zenon
  <2>. QED BY <1>1, <2>1, <2>2, <2>4, <2>5, <2>6, CallMovesOn, Zenon
<1>11. ASSUME ExecOpen(e)
       PROVE  ExecInv'
  <2>. DEFINE q == [execs[e] EXCEPT !.pc = "answered"]
  <2>1. q.pc = "answered" /\ q \in CallRecord
    BY <1>1, <1>3 DEF CallRecord
  <2>2. /\ execs' = [execs EXCEPT ![e] = q] /\ execs'[e] = q /\ execs[e].pc = "open"
        /\ UNCHANGED <<now, em, enforcement, timer, denied_commands, policy, cached_policy, operators>>
    BY <1>1, <1>4, <1>11, Zenon DEF ExecOpen
  <2>. HIDE DEF q
  <2>3. CASE ~execs[e].changing
    <3>1. UNCHANGED <<cw, history>>
      BY <1>11, <2>3 DEF ExecOpen
    <3>2. CallSound(e)'
      BY <2>1, <2>2, <2>3, <3>1, Zenon DEF ExecInv, CallSound
    <3>. QED BY <1>1, <2>1, <2>2, <3>1, <3>2, CallMovesOn, Zenon
  <2>4. CASE execs[e].changing
    <3>1. /\ cw' = open(cw, 1)
          /\ history' = [history EXCEPT !.windowed = history.windowed \cup {e}, !.grace = Grace(cw)]
      BY <1>11, <2>4 DEF ExecOpen
    <3>2. /\ cw' \in CwType /\ cw'.state = "Open"
          /\ ~cw.emergency => cw'.deadline >= now + MIN_SECONDS
      BY <1>1, <3>1, OpenType
    <3>3. Grace(cw) \in Nat
      BY <1>1, WindowAssumption DEF Grace
    <3>4. /\ history' \in HistoryRecord /\ history'.grace = Grace(cw)
          /\ history'.changed = history.changed /\ history'.windowed = history.windowed \cup {e}
      BY <1>1, <3>1, <3>3, Zenon DEF HistoryRecord
    <3>5. cw'.deadline >= Grace(cw)
      BY <3>2 DEF Grace, CwType
    <3>6. WindowGraced'
      BY <2>2, <3>2, <3>4, <3>5, Zenon DEF ExecInv, WindowGraced
    <3>7. \A f \in Exec : CallSound(f)'
      <4>1. \A f \in Exec \ {e} : execs'[f] = execs[f]
        BY <1>1, <2>2, Zenon
      <4>. QED BY <2>1, <2>2, <3>4, <4>1, Zenon DEF ExecInv, CallSound
    <3>8. ExecTypeOK'
      BY <1>1, <2>1, <2>2, <3>2, <3>4, Zenon DEF ExecInv, ExecTypeOK, WindowTypeOK, CwType
    <3>. QED BY <3>6, <3>7, <3>8 DEF ExecInv
  <2>. QED BY <2>3, <2>4
<1>12. ASSUME record_denied(e)
       PROVE  ExecInv'
  <2>1. execs[e].command \in Command \ DOMAIN Whitelist
    BY <1>12, Zenon DEF record_denied, ExecInv, CallSound
  <2>2. denied_commands' \subseteq Command \ DOMAIN Whitelist
    BY <1>1, <1>12, <2>1, Zenon DEF record_denied
  <2>. QED BY <1>2, <1>6, <1>12, <2>2, Zenon DEF record_denied, NoCall
<1>. QED BY <1>5, <1>7, <1>8, <1>9, <1>10, <1>11, <1>12

\* The timer's rollback: under one lock the window expires and closes, only when it
\* is due and no emergency holds it.
LEMMA TimerExpires ==
    ASSUME ExecInv, TimerExpire
    PROVE  /\ cw' \in CwType
           /\ \/ cw' = cw
              \/ /\ cw.state = "Open" /\ now >= cw.deadline /\ ~cw.emergency
                 /\ cw' = Closed(cw) /\ cw'.state = "Idle"
<1>1. cw \in CwType /\ cw.state # "Expired"
  BY DEF ExecInv, ExecTypeOK, WindowTypeOK, CwType, WindowGraced
<1>2. CASE cw.state = "Open" /\ now >= cw.deadline /\ ~cw.emergency
  <2>. DEFINE w == [cw EXCEPT !.state = "Expired"]
  <2>1. check_expired(cw) = w /\ w.state = "Expired" /\ w \in CwType
    BY <1>1, <1>2 DEF check_expired, CwType
  <2>2. cw' = Closed(w)
    BY <2>1 DEF TimerExpire, rollback_with_check
  <2>3. Closed(w) = Closed(cw) /\ Closed(cw) \in CwType /\ Closed(cw).state = "Idle"
    BY <1>1, Zenon DEF Closed, CwType
  <2>. QED BY <1>2, <2>2, <2>3
<1>3. CASE ~(cw.state = "Open" /\ now >= cw.deadline /\ ~cw.emergency)
  <2>1. check_expired(cw) = cw
    BY <1>3 DEF check_expired
  <2>. QED BY <1>1, <2>1 DEF TimerExpire
<1>. QED BY <1>2, <1>3

\* The steps of the window, the timer and the emergency.
LEMMA ExecWindowInv ==
    ASSUME ExecInv,
           \/ \E m \in Minutes : ExtendCommitWindow(m)
           \/ \E p \in WindowConfig : PolicyChanged(p)
           \/ PolicyCached \/ TimerTick \/ TimerExpire \/ Close \/ Tick
           \/ \E a \in Admin : \/ EmergencyStart(a) \/ EmergencyEnter(a) \/ EmergencyExit(a)
                               \/ \E f \in BOOLEAN : EmergencyEnd(a, f)
           \/ UNCHANGED execVars
    PROVE  ExecInv'
<1>1. /\ now \in 0..MaxTime /\ cw \in CwType /\ em \in Admin \cup {None}
      /\ timer \in {"tick", "checked"} /\ history \in HistoryRecord
      /\ policy \in WindowConfig \cup {None} /\ cached_policy \in WindowConfig \cup {None}
      /\ operators \in [Admin -> {"idle", "enter", "exit"}]
      /\ history.grace \in Nat /\ now \in Nat /\ WindowGraced
  BY WindowAssumption DEF ExecInv, ExecTypeOK, WindowTypeOK, CwType, HistoryRecord
<1>2. ASSUME UNCHANGED <<now, em, enforcement, timer, execs, denied_commands, cached_policy,
                         operators, history>>,
             policy' \in WindowConfig \cup {None}, cw' \in CwType,
             cw'.state # "Expired", cw'.state = "Open" => cw'.deadline >= history.grace
      PROVE  ExecInv'
  <2>1. WindowGraced'
    BY <1>1, <1>2 DEF WindowGraced
  <2>. QED BY <1>1, <1>2, <2>1, WindowMoves, Zenon
<1>3. ASSUME NEW m \in Minutes, ExtendCommitWindow(m)
      PROVE  ExecInv'
  <2>. DEFINE secs == (m * MINUTE_SECONDS) % U32
  <2>1. m * MINUTE_SECONDS \in Nat /\ U32 \in Nat \ {0}
    BY ExecAssumption
  <2>2. secs \in Nat
    BY <2>1
  <2>. HIDE DEF secs
  <2>3. CASE cw.state = "Open"
    <3>1. cw' = [cw EXCEPT !.deadline = cw.deadline + secs]
      BY <1>3, <2>3 DEF ExtendCommitWindow, extend, secs
    <3>2. /\ cw' \in CwType /\ cw'.state = "Open" /\ cw'.deadline = cw.deadline + secs
          /\ cw.deadline \in Nat
      BY <1>1, <2>2, <2>3, <3>1 DEF CwType
    <3>3. cw'.deadline >= history.grace
      BY <1>1, <2>2, <2>3, <3>2 DEF WindowGraced
    <3>. QED BY <1>1, <1>2, <1>3, <3>2, <3>3, Zenon DEF ExtendCommitWindow
  <2>4. CASE cw.state # "Open"
    <3>1. cw' = cw
      BY <1>3, <2>4 DEF ExtendCommitWindow, extend
    <3>. QED BY <1>1, <1>2, <1>3, <2>4, <3>1, Zenon DEF ExtendCommitWindow, WindowGraced
  <2>. QED BY <2>3, <2>4
<1>4. ASSUME NEW p \in WindowConfig, PolicyChanged(p)
      PROVE  ExecInv'
  <2>1. /\ cw' = [cw EXCEPT !.config = p] /\ policy' = p
        /\ UNCHANGED <<now, em, enforcement, timer, execs, denied_commands, cached_policy,
                       operators, history>>
    BY <1>4 DEF PolicyChanged, update_config
  <2>2. cw' \in CwType /\ cw'.state = cw.state /\ cw'.deadline = cw.deadline
    BY <1>1, <2>1 DEF CwType
  <2>. QED BY <1>1, <1>2, <2>1, <2>2 DEF WindowGraced
<1>5. ASSUME Close PROVE ExecInv'
  <2>1. /\ cw' = [cw EXCEPT !.state = "Idle", !.deadline = 0] /\ policy' = policy
        /\ UNCHANGED <<now, em, enforcement, timer, execs, denied_commands, cached_policy,
                       operators, history>>
    BY <1>5 DEF Close, Closed
  <2>2. cw' \in CwType /\ cw'.state = "Idle"
    BY <1>1, <2>1, Zenon DEF CwType
  <2>. QED BY <1>1, <1>2, <2>1, <2>2
<1>6. ASSUME PolicyCached \/ Tick \/ UNCHANGED execVars PROVE ExecInv'
  <2>1. now' \in 0..MaxTime
    BY <1>1, <1>6, WindowAssumption DEF PolicyCached, Tick, execVars
  <2>2. /\ policy' \in WindowConfig \cup {None} /\ cached_policy' \in WindowConfig \cup {None}
        /\ UNCHANGED <<cw, em, enforcement, timer, execs, denied_commands, operators, history>>
    BY <1>1, <1>6, Zenon DEF PolicyCached, Tick, execVars
  <2>3. WindowGraced'
    BY <1>1, <2>2, Zenon DEF WindowGraced
  <2>. QED BY <1>1, <2>1, <2>2, <2>3, WindowMoves, Zenon
<1>7. ASSUME TimerTick PROVE ExecInv'
  <2>1. WindowGraced'
    BY <1>1, <1>7, Zenon DEF TimerTick, WindowGraced
  <2>. QED BY <1>1, <1>7, <2>1, WindowMoves, Zenon DEF TimerTick
<1>8. ASSUME TimerExpire PROVE ExecInv'
  <2>1. cw' \in CwType /\ (cw' = cw \/ cw'.state = "Idle")
    BY <1>8, TimerExpires
  <2>2. WindowGraced'
    BY <1>1, <1>8, <2>1, Zenon DEF TimerExpire, WindowGraced
  <2>. QED BY <1>1, <1>8, <2>1, <2>2, WindowMoves, Zenon DEF TimerExpire
<1>9. ASSUME NEW a \in Admin, EmergencyStart(a) \/ \E f \in BOOLEAN : EmergencyEnd(a, f)
      PROVE  ExecInv'
  <2>1. /\ em' \in Admin \cup {None} /\ operators' \in [Admin -> {"idle", "enter", "exit"}]
        /\ UNCHANGED <<now, cw, enforcement, timer, execs, denied_commands, policy, cached_policy,
                       history>>
    BY <1>1, <1>9, Zenon DEF EmergencyStart, EmergencyEnd, start, end
  <2>2. WindowGraced'
    BY <1>1, <2>1, Zenon DEF WindowGraced
  <2>. QED BY <1>1, <2>1, <2>2, WindowMoves, Zenon
<1>10. ASSUME NEW a \in Admin, EmergencyExit(a)
       PROVE  ExecInv'
  <2>1. /\ cw' = [cw EXCEPT !.emergency = FALSE]
        /\ operators' \in [Admin -> {"idle", "enter", "exit"}]
        /\ UNCHANGED <<now, em, enforcement, timer, execs, denied_commands, policy, cached_policy,
                       history>>
    BY <1>1, <1>10 DEF EmergencyExit, exit_emergency
  <2>2. cw' \in CwType /\ cw'.state = cw.state /\ cw'.deadline = cw.deadline
    BY <1>1, <2>1, Zenon DEF CwType
  <2>3. WindowGraced'
    BY <1>1, <2>1, <2>2 DEF WindowGraced
  <2>. QED BY <1>1, <2>1, <2>2, <2>3, WindowMoves, Zenon
<1>11. ASSUME NEW a \in Admin, EmergencyEnter(a)
       PROVE  ExecInv'
  <2>1. /\ history' = [history EXCEPT !.grace = 0]
        /\ operators' \in [Admin -> {"idle", "enter", "exit"}]
        /\ UNCHANGED <<now, em, enforcement, timer, execs, denied_commands, policy, cached_policy>>
    BY <1>1, <1>11 DEF EmergencyEnter
  <2>2. /\ history' \in HistoryRecord /\ history'.grace = 0
        /\ history'.changed = history.changed /\ history'.windowed = history.windowed
    BY <1>1, <2>1 DEF HistoryRecord
  <2>3. cw.config.emergency_window_seconds \in Nat
    BY <1>1, WindowAssumption, Zenon DEF CwType, Seconds
  <2>4. PICK d \in Nat : cw' = [cw EXCEPT !.emergency = TRUE, !.deadline = d]
    <3>1. CASE cw.state = "Open"
      <4>. DEFINE d == now + cw.config.emergency_window_seconds
      <4>1. d \in Nat
        BY <1>1, <2>3
      <4>2. cw' = [cw EXCEPT !.emergency = TRUE, !.deadline = d]
        BY <1>11, <3>1 DEF EmergencyEnter, enter_emergency
      <4>. QED BY <4>1, <4>2, Zenon
    <3>2. CASE cw.state # "Open"
      <4>1. cw' = [cw EXCEPT !.emergency = TRUE, !.deadline = cw.deadline] /\ cw.deadline \in Nat
        BY <1>1, <1>11, <3>2, Zenon DEF EmergencyEnter, enter_emergency, CwType
      <4>. QED BY <4>1, Zenon
    <3>. QED BY <3>1, <3>2, Zenon
  <2>5. cw' \in CwType /\ cw'.state = cw.state /\ cw'.deadline \in Nat
    BY <1>1, <2>4, Zenon DEF CwType
  <2>6. WindowGraced'
    BY <1>1, <2>1, <2>2, <2>5 DEF WindowGraced
  <2>. QED BY <1>1, <2>1, <2>2, <2>5, <2>6, WindowMoves, Zenon
<1>. QED BY <1>3, <1>4, <1>5, <1>6, <1>7, <1>8, <1>9, <1>10, <1>11

\* The invariant of exec, the commit window and the rollback timer.
THEOREM ExecInvariant == ExecSpec => []ExecInv
<1>1. ExecInit => ExecInv
  <2>. SUFFICES ASSUME ExecInit PROVE ExecInv
    OBVIOUS
  <2>1. ExecTypeOK
    BY WindowAssumption
       DEF ExecInit, WindowInit, ExecTypeOK, WindowTypeOK, NoCall, CallRecord, HistoryRecord
  <2>2. WindowGraced
    BY DEF ExecInit, WindowInit, WindowGraced
  <2>3. \A e \in Exec : CallSound(e)
    BY DEF ExecInit, CallSound, NoCall
  <2>. QED BY <2>1, <2>2, <2>3, Zenon DEF ExecInv
<1>2. ExecInv /\ [ExecNext]_execVars => ExecInv'
  BY ExecCallInv, ExecWindowInv, Zenon DEF ExecNext
<1>. QED BY <1>1, <1>2, PTL DEF ExecSpec

\* S5: outside observe mode, a state-changing exec is answered only when its commit
\* window has been opened.
THEOREM ChangesOpenWindows == ExecSpec => []ChangesWindowed
<1>1. ExecInv => ChangesWindowed
  BY Zenon DEF ExecInv, CallSound, ChangesWindowed
<1>. QED BY <1>1, ExecInvariant, PTL

\* D5: the timer rolls back outside observe mode only, never a window in emergency
\* mode, and not before the minimum window after the last change is over.
THEOREM RollbacksAreJustified == ExecSpec => RollbackJustified
<1>1. ASSUME ExecInv, [ExecNext]_execVars, AutoRollback
      PROVE  /\ enforcement # "observe" /\ now >= history.grace
             /\ ~cw.emergency
  <2>1. TimerExpire
    <3>1. timer' # timer
      BY <1>1 DEF AutoRollback
    <3>. QED
      BY <1>1, <3>1, Zenon DEF ExecNext, AutoRollback, execVars, ExecStart, ExecDenied, record_denied,
         ExecDone, ExecFails, ExecLogged, ExecOpen, ExecReturn, ExtendCommitWindow, PolicyChanged,
         PolicyCached, TimerTick, Close, EmergencyStart, EmergencyEnter, EmergencyExit,
         EmergencyEnd, Tick
  <2>2. cw' # cw
    BY <1>1 DEF AutoRollback
  <2>3. cw.state = "Open" /\ now >= cw.deadline /\ ~cw.emergency
    BY <1>1, <2>1, <2>2, TimerExpires
  <2>4. cw.deadline >= history.grace /\ enforcement # "observe"
    BY <1>1, <2>3, Zenon DEF ExecInv, WindowGraced, AutoRollback
  <2>5. now \in Int /\ cw.deadline \in Int /\ history.grace \in Int
    BY <1>1, WindowAssumption DEF ExecInv, ExecTypeOK, WindowTypeOK, HistoryRecord
  <2>. QED BY <2>3, <2>4, <2>5
<1>2. ExecInv /\ [ExecNext]_execVars =>
         [AutoRollback => /\ enforcement # "observe"
                          /\ now >= history.grace
                          /\ ~cw.emergency]_execVars
  BY <1>1
<1>. QED BY <1>2, ExecInvariant, PTL DEF ExecSpec, RollbackJustified

-----------------------------------------------------------------------------
(* Identities                                                              *)

\* The id at an offset of an index's range, without wrapping.
UidAt(i, offset) == base_uid + i * stride + offset

\* Ids are offsets already given out in the range of their organisation's index, and
\* no two members have the same index.
IdentityInv ==
    /\ IdentityTypeOK
    /\ \A s \in Subject : uid_map.users[s] # NoId =>
          /\ uid_map.org_indices[OrgOf[s]] # NoId
          /\ \E offset \in 0..(uid_map.next_uid_offset[OrgOf[s]] - 1) :
                uid_map.users[s] = UidAt(uid_map.org_indices[OrgOf[s]], offset)
    /\ \A o, p \in Org : (o # p /\ uid_map.org_indices[o] # NoId)
          => uid_map.org_indices[o] # uid_map.org_indices[p]
    /\ \A s, t \in Subject :
          s # t /\ uid_map.users[s] # NoId => uid_map.users[s] # uid_map.users[t]
    /\ \A users \in Copies, s \in Subject :
          users[s] # NoId /\ OrgOf[s] \notin departed => uid_map.users[s] = users[s]

\* A product with a natural number is one, and grows with the other factor.
LEMMA ProductGrows ==
    ASSUME NEW i \in Nat, NEW j \in Nat, i < j, NEW n \in Nat
    PROVE  i * n \in Nat /\ j * n \in Nat /\ i * n + n <= j * n
<1>. DEFINE d == j - i - 1
<1>1. d \in Nat /\ j = i + 1 + d
  OBVIOUS
<1>. HIDE DEF d
<1>2. i * n \in Nat /\ d * n \in Nat
  BY <1>1
<1>3. (i + 1 + d) * n = i * n + n + d * n
  BY <1>1
<1>. QED BY <1>1, <1>2, <1>3

\* The ranges of different indexes share no id.
LEMMA RangesDisjoint ==
    ASSUME NEW i \in OrgIndexes, NEW j \in OrgIndexes, i # j,
           NEW a \in 0..(stride - 1), NEW b \in 0..(stride - 1)
    PROVE  UidAt(i, a) # UidAt(j, b)
<1>. USE IdentityAssumption
<1>1. i \in Nat /\ j \in Nat /\ stride \in Nat /\ base_uid \in Nat
  OBVIOUS
<1>2. CASE i < j
  BY <1>1, <1>2, ProductGrows DEF UidAt
<1>3. CASE j < i
  BY <1>1, <1>3, ProductGrows DEF UidAt
<1>. QED BY <1>1, <1>2, <1>3

\* Within the ranges of the federation a u32 does not wrap.
LEMMA UidFits ==
    ASSUME NEW i \in OrgIndexes, NEW offset \in 0..(stride - 1)
    PROVE  /\ (uid_precursor(i) + offset) % UID_WIDTH = UidAt(i, offset)
           /\ UidAt(i, offset) \in 0..(UID_WIDTH - 1)
<1>. DEFINE p == i * stride
<1>1. /\ i \in Nat /\ stride \in Nat \ {0} /\ base_uid \in Nat /\ UID_WIDTH \in Nat \ {0}
      /\ base_uid + (i + 1) * stride <= UID_WIDTH
  BY IdentityAssumption
<1>2. p \in Nat /\ (i + 1) * stride = p + stride
  BY <1>1
<1>. HIDE DEF p
<1>3. base_uid + p + offset \in 0..(UID_WIDTH - 1) /\ base_uid + p \in 0..(UID_WIDTH - 1)
  BY <1>1, <1>2
<1>4. \A n \in 0..(UID_WIDTH - 1) : n % UID_WIDTH = n
  BY <1>1
<1>5. (base_uid + p) % UID_WIDTH = base_uid + p
  BY <1>3, <1>4
<1>6. (base_uid + p + offset) % UID_WIDTH = base_uid + p + offset
  BY <1>3, <1>4
<1>. QED BY <1>3, <1>5, <1>6, Zenon DEF uid_precursor, UidAt, p

\* A step that keeps the ids of the map and takes a new copy of it, or none.
LEMMA CopiesMove ==
    ASSUME IdentityInv, UNCHANGED <<uid_map, departed>>,
           IdentityTypeOK', Copies' \subseteq Copies \cup {uid_map.users, NoUsers}
    PROVE  IdentityInv'
  BY DEF IdentityInv, NoUsers

\* The steps of the map, of the agent's writer and of the NSS module.
LEMMA IdentityStepInv == IdentityInv /\ [IdentityNext]_identityVars => IdentityInv'
<1>. SUFFICES ASSUME IdentityInv, [IdentityNext]_identityVars PROVE IdentityInv'
  OBVIOUS
<1>0. /\ uid_map.users \in UserEntries /\ uid_map.org_indices \in [Org -> OrgIndexes \cup {NoId}]
      /\ uid_map.next_uid_offset \in [Org -> 0..stride]
      /\ NoId \notin OrgIndexes /\ NoUsers \in UserEntries
  BY IdentityAssumption DEF IdentityInv, IdentityTypeOK, NoId, NoUsers, UserEntries
<1>1. ASSUME NEW o \in Org, NEW i \in OrgIndexes, OrgJoins(o, i)
      PROVE  IdentityInv'
  <2>1. /\ uid_map' = [uid_map EXCEPT !.org_indices = [uid_map.org_indices EXCEPT ![o] = i]]
        /\ UNCHANGED <<manager, passwd_db, PASSWD_CACHE, departed>>
    BY <1>1, Zenon DEF OrgJoins, IdentityInv, IdentityTypeOK
  <2>2. /\ uid_map'.users = uid_map.users /\ uid_map'.next_uid_offset = uid_map.next_uid_offset
        /\ uid_map'.org_indices = [uid_map.org_indices EXCEPT ![o] = i]
    BY <2>1, Zenon DEF IdentityInv, IdentityTypeOK
  <2>3. IdentityTypeOK'
    BY <2>1, <1>0, Zenon DEF IdentityInv, IdentityTypeOK
  <2>4. Copies' = Copies
    BY <2>1 DEF Copies
  <2>5. \A s \in Subject : uid_map.users[s] # NoId => OrgOf[s] # o
    BY <1>1, Zenon DEF OrgJoins, IdentityInv
  <2>6. \A s \in Subject : OrgOf[s] \in Org
    BY IdentityAssumption, Zenon
  <2>7. \A p, q \in Org : (p # q /\ uid_map'.org_indices[p] # NoId)
          => uid_map'.org_indices[p] # uid_map'.org_indices[q]
    BY <1>0, <1>1, <2>2 DEF OrgJoins, IdentityInv
  <2>8. \A s \in Subject : uid_map'.users[s] # NoId =>
          /\ uid_map'.org_indices[OrgOf[s]] # NoId
          /\ \E offset \in 0..(uid_map'.next_uid_offset[OrgOf[s]] - 1) :
                uid_map'.users[s] = UidAt(uid_map'.org_indices[OrgOf[s]], offset)
    BY <1>0, <2>2, <2>5, <2>6 DEF IdentityInv
  <2>. QED BY <2>1, <2>2, <2>3, <2>4, <2>7, <2>8 DEF IdentityInv, UidAt
<1>2. ASSUME NEW s \in Subject, assign_uid(s)
      PROVE  IdentityInv'
  <2>. DEFINE o == OrgOf[s]
              i == uid_map.org_indices[o]
              offset == uid_map.next_uid_offset[o]
  <2>1. /\ o \in Org /\ i \in OrgIndexes /\ offset \in 0..(stride - 1)
        /\ uid_map.users[s] = NoId
    BY <1>0, <1>2, IdentityAssumption DEF assign_uid, RangeExhausted
  <2>2. uid_map' = [uid_map EXCEPT
             !.users = [uid_map.users EXCEPT ![s] = (uid_precursor(i) + offset) % UID_WIDTH],
             !.next_uid_offset = [uid_map.next_uid_offset EXCEPT ![o] = offset + 1]]
    BY <1>2, Zenon DEF assign_uid, IdentityInv, IdentityTypeOK
  <2>3. /\ uid_map'.users = [uid_map.users EXCEPT ![s] = UidAt(i, offset)]
        /\ uid_map'.next_uid_offset = [uid_map.next_uid_offset EXCEPT ![o] = offset + 1]
        /\ uid_map'.org_indices = uid_map.org_indices
    BY <2>1, <2>2, UidFits DEF IdentityInv, IdentityTypeOK
  <2>4. UidAt(i, offset) \in 0..(UID_WIDTH - 1) /\ UidAt(i, offset) # NoId
    <3>1. UidAt(i, offset) \in 0..(UID_WIDTH - 1)
      BY <2>1, UidFits, Zenon
    <3>. HIDE DEF i, offset
    <3>. QED BY <3>1 DEF NoId
  <2>5. UNCHANGED <<manager, passwd_db, PASSWD_CACHE, departed>>
    BY <1>2, Zenon DEF assign_uid
  <2>6. IdentityTypeOK'
    <3>1. uid_map'.users \in UserEntries
      BY <1>0, <2>3, <2>4, Zenon DEF UserEntries
    <3>2. uid_map'.next_uid_offset \in [Org -> 0..stride]
      BY <1>0, <2>1, <2>3, IdentityAssumption
    <3>. QED BY <1>0, <2>2, <2>3, <2>5, <3>1, <3>2, Zenon DEF IdentityInv, IdentityTypeOK
  <2>7. Copies' = Copies
    BY <2>5 DEF Copies
  <2>. HIDE DEF o, i, offset
  <2>8. ASSUME NEW t \in Subject, uid_map'.users[t] # NoId
        PROVE  /\ uid_map.org_indices[OrgOf[t]] # NoId
               /\ \E k \in 0..(uid_map'.next_uid_offset[OrgOf[t]] - 1) :
                    uid_map'.users[t] = UidAt(uid_map.org_indices[OrgOf[t]], k)
    <3>1. CASE t = s
      BY <1>0, <2>1, <2>3, <3>1, IdentityAssumption DEF o, i, UserEntries, NoId
    <3>2. CASE t # s
      <4>1. uid_map'.users[t] = uid_map.users[t]
        BY <1>0, <2>3, <3>2, Zenon DEF UserEntries
      <4>2. PICK k \in 0..(uid_map.next_uid_offset[OrgOf[t]] - 1) :
               uid_map.users[t] = UidAt(uid_map.org_indices[OrgOf[t]], k)
        BY <2>8, <4>1, Zenon DEF IdentityInv
      <4>3. OrgOf[t] \in Org
        BY IdentityAssumption, Zenon
      <4>4. k \in 0..(uid_map'.next_uid_offset[OrgOf[t]] - 1)
        BY <1>0, <2>1, <2>3, <4>2, <4>3, IdentityAssumption DEF offset
      <4>. QED BY <2>8, <4>1, <4>2, <4>4, Zenon DEF IdentityInv
    <3>. QED BY <3>1, <3>2, Zenon
  <2>9. ASSUME NEW t \in Subject, t # s, uid_map.users[t] # NoId
        PROVE  uid_map.users[t] # UidAt(i, offset)
    <3>1. PICK k \in 0..(uid_map.next_uid_offset[OrgOf[t]] - 1) :
             uid_map.users[t] = UidAt(uid_map.org_indices[OrgOf[t]], k)
      BY <2>9, Zenon DEF IdentityInv
    <3>2. /\ OrgOf[t] \in Org /\ uid_map.org_indices[OrgOf[t]] \in OrgIndexes
          /\ k \in 0..(stride - 1)
      BY <1>0, <2>9, <3>1, IdentityAssumption DEF IdentityInv
    <3>3. CASE OrgOf[t] = o
      <4>1. k < offset /\ uid_map.users[t] = UidAt(i, k)
        BY <3>1, <3>3, <1>0, <2>1 DEF offset, i
      <4>2. i * stride \in Nat /\ base_uid \in Nat
        BY <2>1, IdentityAssumption
      <4>. QED BY <2>1, <3>2, <4>1, <4>2 DEF UidAt
    <3>4. CASE OrgOf[t] # o
      <4>1. uid_map.org_indices[OrgOf[t]] # i
        BY <1>0, <2>1, <3>2, <3>4, Zenon DEF IdentityInv, i
      <4>. QED BY <2>1, <3>1, <3>2, <4>1, RangesDisjoint, Zenon
    <3>. QED BY <3>3, <3>4, Zenon
  <2>10. \A t \in Subject : uid_map'.users[t] = IF t = s THEN UidAt(i, offset) ELSE uid_map.users[t]
    BY <1>0, <2>3, Zenon DEF UserEntries
  <2>11. \A t, u \in Subject :
           t # u /\ uid_map'.users[t] # NoId => uid_map'.users[t] # uid_map'.users[u]
    BY <2>1, <2>4, <2>9, <2>10 DEF IdentityInv
  <2>12. \A users \in Copies, t \in Subject :
           users[t] # NoId /\ OrgOf[t] \notin departed => uid_map'.users[t] = users[t]
    BY <2>1, <2>10 DEF IdentityInv
  <2>13. \A t \in Subject : uid_map'.users[t] # NoId =>
           /\ uid_map'.org_indices[OrgOf[t]] # NoId
           /\ \E k \in 0..(uid_map'.next_uid_offset[OrgOf[t]] - 1) :
                uid_map'.users[t] = UidAt(uid_map'.org_indices[OrgOf[t]], k)
    BY <2>3, <2>8, ZenonT(30)
  <2>14. \A p, q \in Org : (p # q /\ uid_map'.org_indices[p] # NoId)
           => uid_map'.org_indices[p] # uid_map'.org_indices[q]
    <3>1. \A p, q \in Org : (p # q /\ uid_map.org_indices[p] # NoId)
            => uid_map.org_indices[p] # uid_map.org_indices[q]
      BY Zenon DEF IdentityInv
    <3>. QED BY <2>3, <3>1, Zenon
  <2>15. \A users \in Copies', t \in Subject :
           users[t] # NoId /\ OrgOf[t] \notin departed' => uid_map'.users[t] = users[t]
    BY <2>5, <2>7, <2>12, Zenon
  <2>. QED BY <2>6, <2>11, <2>13, <2>14, <2>15, Zenon DEF IdentityInv, UidAt
<1>3. ASSUME NEW o \in Org, gc_org(o)
      PROVE  IdentityInv'
  <2>1. /\ uid_map'.users = [s \in Subject |-> IF OrgOf[s] = o THEN NoId ELSE uid_map.users[s]]
        /\ uid_map'.org_indices = [uid_map.org_indices EXCEPT ![o] = NoId]
        /\ uid_map'.next_uid_offset = [uid_map.next_uid_offset EXCEPT ![o] = 0]
        /\ departed' = departed \cup {o}
        /\ UNCHANGED <<manager, passwd_db, PASSWD_CACHE>>
    BY <1>3, Zenon DEF gc_org
  <2>2. IdentityTypeOK'
    <3>1. uid_map' = [users |-> uid_map'.users, org_indices |-> uid_map'.org_indices,
                      next_uid_offset |-> uid_map'.next_uid_offset]
      BY <1>3, Zenon DEF gc_org
    <3>2. uid_map'.users \in UserEntries
      BY <1>0, <2>1, ZenonT(30) DEF UserEntries
    <3>3. /\ uid_map'.org_indices \in [Org -> OrgIndexes \cup {NoId}]
          /\ uid_map'.next_uid_offset \in [Org -> 0..stride]
      BY <1>0, <2>1, IdentityAssumption
    <3>. QED BY <2>1, <3>1, <3>2, <3>3, Zenon DEF IdentityInv, IdentityTypeOK
  <2>3. Copies' = Copies
    BY <2>1 DEF Copies
  <2>4. ASSUME NEW s \in Subject, uid_map'.users[s] # NoId
        PROVE  /\ OrgOf[s] # o /\ uid_map'.users[s] = uid_map.users[s]
               /\ uid_map'.org_indices[OrgOf[s]] = uid_map.org_indices[OrgOf[s]]
               /\ uid_map'.next_uid_offset[OrgOf[s]] = uid_map.next_uid_offset[OrgOf[s]]
    BY <1>0, <2>1, <2>4, IdentityAssumption, Zenon
  <2>5. \A s \in Subject : uid_map'.users[s] # NoId =>
          /\ uid_map'.org_indices[OrgOf[s]] # NoId
          /\ \E offset \in 0..(uid_map'.next_uid_offset[OrgOf[s]] - 1) :
                uid_map'.users[s] = UidAt(uid_map'.org_indices[OrgOf[s]], offset)
    BY <2>4 DEF IdentityInv
  <2>6. \A p, q \in Org : (p # q /\ uid_map'.org_indices[p] # NoId)
          => uid_map'.org_indices[p] # uid_map'.org_indices[q]
    <3>1. \A p, q \in Org : (p # q /\ uid_map.org_indices[p] # NoId)
            => uid_map.org_indices[p] # uid_map.org_indices[q]
      BY Zenon DEF IdentityInv
    <3>. QED BY <1>0, <2>1, <3>1
  <2>7. \A s, t \in Subject :
          s # t /\ uid_map'.users[s] # NoId => uid_map'.users[s] # uid_map'.users[t]
    <3>1. \A s, t \in Subject :
            s # t /\ uid_map.users[s] # NoId => uid_map.users[s] # uid_map.users[t]
      BY Zenon DEF IdentityInv
    <3>. QED BY <2>1, <2>4, <3>1
  <2>8. \A users \in Copies, s \in Subject :
          users[s] # NoId /\ OrgOf[s] \notin departed' => uid_map'.users[s] = users[s]
    BY <2>1 DEF IdentityInv
  <2>. QED BY <2>2, <2>3, <2>5, <2>6, <2>7, <2>8, Zenon DEF IdentityInv, UidAt
<1>4. ASSUME update_map \/ write_db_files \/ DbWriteFails
      PROVE  IdentityInv'
  <2>1. UNCHANGED <<uid_map, PASSWD_CACHE, departed>>
    BY <1>4 DEF update_map, write_db_files, DbWriteFails
  <2>2. /\ manager'.users \in {manager.users, uid_map.users, NoUsers}
        /\ passwd_db' \in {passwd_db, manager.users}
    BY <1>4 DEF update_map, write_db_files, DbWriteFails, IdentityInv, IdentityTypeOK
  <2>3. manager' \in [pc : {"idle", "passwd", "group"}, users : UserEntries]
    BY <1>0, <1>4 DEF update_map, write_db_files, DbWriteFails, IdentityInv, IdentityTypeOK
  <2>4. IdentityTypeOK'
    BY <2>1, <2>2, <2>3, Zenon DEF IdentityInv, IdentityTypeOK
  <2>5. Copies' \subseteq Copies \cup {uid_map.users, NoUsers}
    BY <2>1, <2>2, Zenon DEF Copies
  <2>. QED BY <2>1, <2>4, <2>5, CopiesMove
<1>5. ASSUME get_passwd_entries
      PROVE  IdentityInv'
  <2>1. IdentityTypeOK'
    BY <1>5, Zenon DEF get_passwd_entries, IdentityInv, IdentityTypeOK
  <2>2. DOMAIN PASSWD_CACHE' = {1} /\ PASSWD_CACHE'[1] = passwd_db
    BY <1>5 DEF get_passwd_entries
  <2>3. Copies' \subseteq Copies
    BY <1>5, <2>2, Zenon DEF Copies, get_passwd_entries
  <2>. QED BY <1>5, <2>1, <2>3, CopiesMove, Zenon DEF get_passwd_entries
<1>6. CASE UNCHANGED identityVars
  <2>1. UNCHANGED <<uid_map, manager, passwd_db, PASSWD_CACHE, departed>>
    BY <1>6 DEF identityVars
  <2>2. IdentityTypeOK' /\ Copies' = Copies
    BY <2>1 DEF IdentityInv, IdentityTypeOK, Copies
  <2>. QED BY <2>1, <2>2, CopiesMove
<1>. QED BY <1>1, <1>2, <1>3, <1>4, <1>5, <1>6 DEF IdentityNext

\* IM1 and IM2: assign_uid gives no two subjects one id, and the passwd.db and the NSS
\* caches of earlier maps never show a member's id as another member's.
THEOREM IdentitiesDistinct == IdentitySpec => []IdentitiesSound
<1>1. IdentityInit => IdentityInv
  <2>. SUFFICES ASSUME IdentityInit PROVE IdentityInv
    OBVIOUS
  <2>1. IdentityTypeOK
    BY IdentityAssumption DEF IdentityInit, IdentityTypeOK, UserEntries, NoUsers, NoId
  <2>2. Copies = {NoUsers}
    BY DEF IdentityInit, Copies
  <2>3. \A s \in Subject : NoUsers[s] = NoId
    BY DEF NoUsers
  <2>. QED BY <2>1, <2>2, <2>3, Zenon DEF IdentityInit, IdentityInv
<1>2. IdentityInv => IdentitiesSound
  BY ZenonT(30) DEF IdentityInv, IdentitiesSound
<1>. QED BY <1>1, <1>2, IdentityStepInv, PTL DEF IdentitySpec

-----------------------------------------------------------------------------
(* Cgroups                                                                 *)

\* A process is only in a scope that has its directory: rmdir fails on a scope with
\* members, and processes enter and fork only where there is one.
CgroupInv ==
    /\ CgroupTypeOK /\ DestroyedIsEmpty
    /\ \A p \in Process, s \in Scope : proc[p].in = {s} => s \in dirs

\* Processes that come, go and die where there are directories change no answer.
LEMMA ProcessesMove ==
    ASSUME CgroupInv, UNCHANGED <<hasKill, hierarchy, dirs, answer>>,
           handles' \subseteq Scope,
           destroying' \in [pc : {"idle", "kill", "remove"}, scope : {{}} \cup {{s} : s \in Scope},
                            todo : SUBSET Process],
           proc' \in [Process -> [in : {{}} \cup {{s} : s \in Scope},
                                  life : {"none", "live", "killed"}]],
           \A p \in Process, s \in Scope : proc'[p].in = {s} => s \in dirs
    PROVE  CgroupInv'
  BY Zenon DEF CgroupInv, CgroupTypeOK, DestroyedIsEmpty, Members

\* The calls of the manager and the kernel's own steps keep the invariant.
LEMMA CgroupStepInv == CgroupInv /\ [CgroupNext]_cgroupVars => CgroupInv'
<1>. SUFFICES ASSUME CgroupInv, [CgroupNext]_cgroupVars PROVE CgroupInv'
  OBVIOUS
<1>. USE DEF CgroupInv, CgroupTypeOK, DestroyedIsEmpty, Members
<1>1. CASE create_hierarchy
  BY <1>1 DEF create_hierarchy, Slices
<1>2. ASSUME NEW s \in Scope, NEW ok \in BOOLEAN, create_scope(s, ok)
      PROVE  CgroupInv'
  BY <1>2, Zenon DEF create_scope
<1>3. ASSUME NEW s \in Scope, destroy_scope(s)
      PROVE  CgroupInv'
  <2>1. CASE UNCHANGED <<proc, destroying>> /\ \E a \in {"Ok", "Io"} :
               /\ a = "Ok" => s \notin dirs
               /\ answer' = [answer EXCEPT ![s] = a]
    BY <1>3, <2>1 DEF destroy_scope
  <2>2. CASE /\ UNCHANGED answer
             /\ destroying' = [pc |-> "remove", scope |-> {s}, todo |-> {}]
             /\ proc' = [p \in Process |->
                    IF p \in Members(s) THEN [proc[p] EXCEPT !.life = "killed"] ELSE proc[p]]
    <3>1. \A p \in Process : /\ proc'[p].in = proc[p].in
                             /\ proc'[p].life \in {proc[p].life, "killed"}
      BY <2>2
    <3>2. proc' \in [Process -> [in : {{}} \cup {{t} : t \in Scope},
                                 life : {"none", "live", "killed"}]]
      BY <2>2
    <3>3. destroying' \in [pc : {"idle", "kill", "remove"}, scope : {{}} \cup {{t} : t \in Scope},
                           todo : SUBSET Process]
      BY <2>2
    <3>4. handles' \subseteq Scope /\ UNCHANGED <<hasKill, hierarchy, dirs, answer>>
      BY <1>3, <2>2, Zenon DEF destroy_scope
    <3>5. \A p \in Process, t \in Scope : proc'[p].in = {t} => t \in dirs
      BY <3>1, Zenon
    <3>. HIDE DEF CgroupInv
    <3>. QED BY <3>2, <3>3, <3>4, <3>5, ProcessesMove
  <2>3. CASE /\ UNCHANGED <<proc, answer>>
             /\ destroying' = [pc |-> "kill", scope |-> {s}, todo |-> Members(s)]
    <3>1. destroying' \in [pc : {"idle", "kill", "remove"}, scope : {{}} \cup {{t} : t \in Scope},
                           todo : SUBSET Process]
      BY <2>3, Zenon DEF Members
    <3>2. handles' \subseteq Scope /\ UNCHANGED <<hasKill, hierarchy, dirs>>
      BY <1>3, Zenon DEF destroy_scope
    <3>3. /\ proc' \in [Process -> [in : {{}} \cup {{t} : t \in Scope},
                                    life : {"none", "live", "killed"}]]
          /\ \A p \in Process, t \in Scope : proc'[p].in = {t} => t \in dirs
      BY <2>3
    <3>. HIDE DEF CgroupInv
    <3>. QED BY <2>3, <3>1, <3>2, <3>3, ProcessesMove, Zenon
  <2>. QED BY <1>3, <2>1, <2>2, <2>3, SMTT(30) DEF destroy_scope
<1>4. CASE kill_processes_fallback
  <2>1. /\ UNCHANGED <<hasKill, hierarchy, dirs, handles, answer>>
        /\ \/ destroying' = [destroying EXCEPT !.pc = "remove"] /\ UNCHANGED proc
           \/ \E p \in destroying.todo :
                 /\ destroying' = [destroying EXCEPT !.todo = destroying.todo \ {p}]
                 /\ proc' = proc \/ proc' = [proc EXCEPT ![p].life = "killed"]
    BY <1>4, Zenon DEF kill_processes_fallback
  <2>2. destroying' \in [pc : {"idle", "kill", "remove"}, scope : {{}} \cup {{s} : s \in Scope},
                         todo : SUBSET Process]
    BY <2>1
  <2>3. /\ proc' \in [Process -> [in : {{}} \cup {{s} : s \in Scope},
                                 life : {"none", "live", "killed"}]]
        /\ \A q \in Process : proc'[q].in = proc[q].in
    BY <2>1, SMTT(30)
  <2>4. \A p \in Process, s \in Scope : proc'[p].in = {s} => s \in dirs
    BY <2>3, Zenon
  <2>5. handles' \subseteq Scope
    BY <2>1, Zenon
  <2>. HIDE DEF CgroupInv
  <2>. QED BY <2>1, <2>2, <2>3, <2>4, <2>5, ProcessesMove
<1>5. CASE RemoveScope
  <2>. destroying.scope \subseteq Scope
    OBVIOUS
  <2>0. PICK s \in Scope :
          /\ dirs' = IF Members(s) = {} THEN dirs \ {s} ELSE dirs
          /\ answer' = [answer EXCEPT ![s] = IF Members(s) = {} THEN "Ok" ELSE "KillFailed"]
    BY <1>5, Zenon DEF RemoveScope
  <2>1. /\ destroying' = [pc |-> "idle", scope |-> {}, todo |-> {}]
        /\ UNCHANGED <<hasKill, hierarchy, handles, proc>>
    BY <1>5, Zenon DEF RemoveScope, Idle
  <2>2. CgroupTypeOK'
    BY <2>0, <2>1
  <2>3. \A p \in Process, t \in Scope : proc'[p].in = {t} => t \in dirs'
    BY <2>0, <2>1
  <2>4. DestroyedIsEmpty'
    BY <2>0, <2>1
  <2>. QED BY <2>2, <2>3, <2>4, Zenon
<1>6. ASSUME NEW p \in Process, NEW s \in Scope, Enter(p, s)
      PROVE  CgroupInv'
  <2>1. /\ proc'[p].in = {s} /\ s \in dirs
        /\ \A q \in Process \ {p} : proc'[q] = proc[q]
    BY <1>6, Zenon DEF Enter
  <2>2. \A q \in Process, t \in Scope : proc'[q].in = {t} => t \in dirs
    BY <2>1
  <2>. QED BY <1>6, <2>2, ProcessesMove, Zenon DEF Enter
<1>7. ASSUME NEW p \in Process, NEW q \in Process, Fork(p, q)
      PROVE  CgroupInv'
  <2>1. /\ UNCHANGED <<hasKill, hierarchy, dirs, handles, destroying, answer>>
        /\ proc' = [proc EXCEPT ![q] = proc[p]]
    BY <1>7, Zenon DEF Fork
  <2>2. \A r \in Process, s \in Scope : proc'[r].in = {s} => s \in dirs
    BY <2>1
  <2>. QED BY <2>1, <2>2, ProcessesMove, Zenon
<1>8. ASSUME NEW p \in Process, Die(p)
      PROVE  CgroupInv'
  BY <1>8, Zenon DEF Die, Free
<1>9. CASE UNCHANGED cgroupVars
  BY <1>9, Zenon DEF cgroupVars
<1>. HIDE DEF CgroupInv
<1>. QED BY <1>1, <1>2, <1>3, <1>4, <1>5, <1>6, <1>7, <1>8, <1>9 DEF CgroupNext

\* PS3 and F30: when destroy_scope answers Ok, its scope is gone and nothing runs in
\* it, however many processes fork and however late.
THEOREM OkMeansDestroyed == CgroupSpec => []DestroyedIsEmpty
<1>1. CgroupInit => CgroupInv
  BY DEF CgroupInit, CgroupInv, CgroupTypeOK, DestroyedIsEmpty, Members, Free, Idle, Slices
<1>2. CgroupInv => DestroyedIsEmpty
  BY DEF CgroupInv
<1>. QED BY <1>1, <1>2, CgroupStepInv, PTL DEF CgroupSpec
=============================================================================
