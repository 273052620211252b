--------------------------- MODULE PanelToolsProofs ---------------------------
(***************************************************************************)
(* What opens a database or a site, what the operator is told, and what    *)
(* the commands of root leave behind, for any number of requests, channels,*)
(* versions and commands: the safety properties of SignOns, OperatorAlerts *)
(* and PanelHost, as theorems of the panel's specification.  Of PanelHost  *)
(* two invariants are proved: what the disk and the database hold between   *)
(* any two steps, and above it how far each command has come and what its   *)
(* undoing still owes, from which its answer follows.                       *)
(***************************************************************************)
EXTENDS PanelWork, SequenceTheorems, TLAPS

\* A step of the panel is a step of its alerts, or leaves them alone.
LEMMA AlertsStep ==
  ASSUME [Next]_vars
  PROVE  [A!AlertsNext]_A!alertVars
  <1>1. CASE Alert
    BY <1>1 DEF Alert
  <1>2. CASE Login \/ User \/ SignOn \/ Host \/ UNCHANGED vars
    BY <1>2 DEF Login, User, SignOn, Host, vars, alerts, A!alertVars
  <1> QED BY <1>1, <1>2 DEF Next

\* The panel's specification implements that of its alerts.
THEOREM AlertsAreRefined == Spec => A!AlertsSpec
  <1>1. Init => A!AlertsInit
    BY DEF Init
  <1>2. [Next]_vars => [A!AlertsNext]_A!alertVars
    BY AlertsStep
  <1> QED BY <1>1, <1>2, PTL DEF Spec, A!AlertsSpec

-----------------------------------------------------------------------------
(***************************************************************************)
(* Alerts.  Opening and resolving alternate, so a phase's number tells     *)
(* whether the alert is open.  Events are numbered upwards, so a channel   *)
(* has heard what its delivery says and nothing beyond the latest event.   *)
(***************************************************************************)
AlertsInv ==
    /\ A!AlertsTypeOK
    /\ kind \in {"condition", "event"} /\ on \subseteq Channels /\ sample \in Nat
    /\ kind = "condition" => /\ state.active <=> A!Open(state.phase)
                             /\ outcome # "recorded"
    /\ kind = "event" => /\ sample \in 0..MaxPhases /\ outcome # "sent"
                         /\ \A ch \in Channels : delivery[ch].phase <= heard[ch] /\ heard[ch] <= sample
    /\ AlertsAreHeard

LEMMA AlertBounds == /\ Trigger \in Nat /\ Trigger # 0 /\ Cooldown \in Nat /\ MaxPhases \in Nat
                     /\ 0 \in 0..Trigger /\ 0 \in 0..Cooldown /\ Cooldown \in 0..Cooldown
                     /\ 0 \in 0..MaxPhases
  BY AlertAssumption DEF A!AlertAssumption

\* A phase and the next are not both open.
LEMMA PhasesAlternate == \A n \in Nat : A!Open(n + 1) <=> ~A!Open(n)
  BY DEF A!Open

\* The shape of the rows.
AlertRow    == [active : BOOLEAN, bad : 0..Trigger, good : 0..1, age : 0..Cooldown,
                phase : 0..MaxPhases]
DeliveryRow == [failed : BOOLEAN, age : 0..Cooldown, phase : 0..MaxPhases]

LEMMA AlertsBegin == ASSUME A!AlertsInit PROVE AlertsInv
  <1> USE AlertBounds DEF A!AlertsInit
  <1>1. A!NoState \in AlertRow
    BY DEF A!NoState, AlertRow
  <1>2. A!NoDelivery \in DeliveryRow /\ A!NoDelivery.phase = 0
    BY DEF A!NoDelivery, DeliveryRow
  <1>3. A!AlertsTypeOK
    BY <1>1, <1>2 DEF A!AlertsTypeOK, AlertRow, DeliveryRow
  <1>4. state.active <=> A!Open(state.phase)
    BY DEF A!NoState, A!Open
  <1>5. AlertsAreHeard
    BY DEF AlertsAreHeard, A!AlertsAreHeard
  <1> QED BY <1>2, <1>3, <1>4, <1>5 DEF AlertsInv

\* Time ages the rows and changes nothing else in them.
LEMMA AgeingKeeps ==
  ASSUME AlertsInv, A!Tick
  PROVE  /\ state' \in AlertRow /\ delivery' \in [Channels -> DeliveryRow]
         /\ state'.active = state.active /\ state'.phase = state.phase
         /\ \A ch \in Channels : /\ delivery'[ch].failed = delivery[ch].failed
                                 /\ delivery'[ch].phase = delivery[ch].phase
  <1> USE AlertBounds
  <1>0. \A n \in 0..Cooldown : A!Least(n + 1, Cooldown) \in 0..Cooldown
    BY DEF A!Least
  <1>1. state \in AlertRow /\ delivery \in [Channels -> DeliveryRow]
    BY DEF AlertsInv, A!AlertsTypeOK, AlertRow, DeliveryRow
  <1>2. \A s \in AlertRow : /\ [s EXCEPT !.age = A!Least(@ + 1, Cooldown)] \in AlertRow
                            /\ [s EXCEPT !.age = A!Least(@ + 1, Cooldown)].active = s.active
                            /\ [s EXCEPT !.age = A!Least(@ + 1, Cooldown)].phase = s.phase
    BY <1>0 DEF AlertRow
  <1>3. \A d \in DeliveryRow : /\ [d EXCEPT !.age = A!Least(@ + 1, Cooldown)] \in DeliveryRow
                               /\ [d EXCEPT !.age = A!Least(@ + 1, Cooldown)].failed = d.failed
                               /\ [d EXCEPT !.age = A!Least(@ + 1, Cooldown)].phase = d.phase
    BY <1>0 DEF DeliveryRow
  <1>4. \A ch \in Channels : delivery[ch] \in DeliveryRow
    BY <1>1
  <1>5. state' = [state EXCEPT !.age = A!Least(@ + 1, Cooldown)]
        /\ delivery' = [ch \in Channels |-> [delivery[ch] EXCEPT !.age = A!Least(@ + 1, Cooldown)]]
    BY DEF A!Tick
  <1>6. state' \in AlertRow /\ state'.active = state.active /\ state'.phase = state.phase
    BY <1>1, <1>2, <1>5
  <1>7. \A ch \in Channels : /\ delivery'[ch] \in DeliveryRow
                             /\ delivery'[ch].failed = delivery[ch].failed
                             /\ delivery'[ch].phase = delivery[ch].phase
    BY <1>3, <1>4, <1>5
  <1> QED BY <1>5, <1>6, <1>7

\* What a channel's row and ears are after a phase was sent to the channels.
LEMMA Sending ==
  ASSUME AlertsInv, NEW phase \in 0..MaxPhases, NEW result \in [on -> A!Results],
         A!send(phase, result)
  PROVE  /\ delivery' \in [Channels -> DeliveryRow]
         /\ heard' \in [Channels -> 0..MaxPhases]
         /\ \A ch \in Channels :
               \/ delivery'[ch] = delivery[ch] /\ heard'[ch] = heard[ch]
                  /\ (ch \notin on \/ ~A!Attempted(delivery[ch], phase) \/ result[ch] = "skipped")
               \/ ch \in on /\ result[ch] = "sent" /\ heard'[ch] = phase
                  /\ delivery'[ch] = [failed |-> FALSE, age |-> 0, phase |-> phase]
               \/ ch \in on /\ result[ch] = "failed" /\ heard'[ch] = heard[ch]
                  /\ delivery'[ch].failed /\ delivery'[ch].phase = delivery[ch].phase
               \/ ch \in on /\ result[ch] = "unwritten" /\ heard'[ch] = phase
                  /\ delivery'[ch] = delivery[ch]
  <1> USE AlertBounds
  <1>1. delivery \in [Channels -> DeliveryRow] /\ heard \in [Channels -> 0..MaxPhases]
    BY DEF AlertsInv, A!AlertsTypeOK, DeliveryRow
  <1> DEFINE tried == {ch \in on : A!Attempted(delivery[ch], phase) /\ result[ch] # "skipped"}
  <1>2. /\ heard' = [ch \in Channels |-> IF ch \in tried /\ result[ch] # "failed" THEN phase
                                                                            ELSE heard[ch]]
        /\ delivery' = [ch \in Channels |->
              IF ch \notin tried \/ result[ch] = "unwritten" THEN delivery[ch]
              ELSE IF result[ch] = "sent" THEN [failed |-> FALSE, age |-> 0, phase |-> phase]
              ELSE [delivery[ch] EXCEPT !.failed = TRUE, !.age = 0]]
    BY DEF A!send
  <1>3. \A d \in DeliveryRow : /\ [d EXCEPT !.failed = TRUE, !.age = 0] \in DeliveryRow
                               /\ [d EXCEPT !.failed = TRUE, !.age = 0].failed
                               /\ [d EXCEPT !.failed = TRUE, !.age = 0].phase = d.phase
    BY DEF DeliveryRow
  <1>4. [failed |-> FALSE, age |-> 0, phase |-> phase] \in DeliveryRow
    BY DEF DeliveryRow
  <1>5. ASSUME NEW ch \in Channels
        PROVE  /\ delivery'[ch] \in DeliveryRow /\ heard'[ch] \in 0..MaxPhases
               /\ \/ delivery'[ch] = delivery[ch] /\ heard'[ch] = heard[ch]
                     /\ (ch \notin on \/ ~A!Attempted(delivery[ch], phase) \/ result[ch] = "skipped")
                  \/ ch \in on /\ result[ch] = "sent" /\ heard'[ch] = phase
                     /\ delivery'[ch] = [failed |-> FALSE, age |-> 0, phase |-> phase]
                  \/ ch \in on /\ result[ch] = "failed" /\ heard'[ch] = heard[ch]
                     /\ delivery'[ch].failed /\ delivery'[ch].phase = delivery[ch].phase
                  \/ ch \in on /\ result[ch] = "unwritten" /\ heard'[ch] = phase
                     /\ delivery'[ch] = delivery[ch]
    <2>1. delivery[ch] \in DeliveryRow /\ heard[ch] \in 0..MaxPhases
      BY <1>1
    <2>2. CASE ch \notin tried
      <3>1. ch \notin on \/ ~A!Attempted(delivery[ch], phase) \/ result[ch] = "skipped"
        BY <2>2
      <3> HIDE DEF tried
      <3>2. delivery'[ch] = delivery[ch] /\ heard'[ch] = heard[ch]
        BY <1>2, <2>2
      <3> QED BY <2>1, <3>1, <3>2
    <2>3. CASE ch \in tried
      <3>1. result[ch] \in {"sent", "failed", "unwritten"} /\ ch \in on
        BY <2>3 DEF A!Results
      <3> HIDE DEF tried
      <3>2. CASE result[ch] = "sent"
        BY <1>2, <1>4, <2>3, <3>1, <3>2
      <3>3. CASE result[ch] = "failed"
        BY <1>2, <1>3, <2>1, <2>3, <3>1, <3>3
      <3>4. CASE result[ch] = "unwritten"
        BY <1>2, <2>1, <2>3, <3>1, <3>4
      <3> QED BY <3>1, <3>2, <3>3, <3>4
    <2> QED BY <2>2, <2>3
  <1> HIDE DEF tried
  <1>6. delivery' = [ch \in Channels |-> delivery'[ch]] /\ heard' = [ch \in Channels |-> heard'[ch]]
    BY <1>2
  <1>7. delivery' \in [Channels -> DeliveryRow] /\ heard' \in [Channels -> 0..MaxPhases]
    BY <1>5, <1>6
  <1> QED BY <1>5, <1>7

\* The row a sample makes of a condition: opened or resolved in a phase of its own.
LEMMA ConditionRow ==
  ASSUME AlertsInv, kind = "condition", A!condition.phase <= MaxPhases
  PROVE  /\ A!condition \in AlertRow
         /\ A!condition.active <=> A!Open(A!condition.phase)
  <1> USE AlertBounds
  <1>1. /\ state \in AlertRow
        /\ state.active <=> A!Open(state.phase)
    BY DEF AlertsInv, A!AlertsTypeOK, AlertRow
  <1> DEFINE bad     == IF sample = 1 THEN A!Least(state.bad + 1, Trigger) ELSE 0
             opens   == bad = Trigger /\ ~state.active /\ state.age = Cooldown
             good    == IF sample = 0 /\ state.active THEN state.good + 1 ELSE 0
             resolve == good = A!Recovered
             turned  == [active |-> opens, bad |-> bad, good |-> 0, age |-> 0,
                         phase |-> state.phase + 1]
             counted == [state EXCEPT !.bad = bad, !.good = good]
  <1>2. A!condition = IF opens \/ resolve THEN turned ELSE counted
    BY DEF A!condition
  <1>3. bad \in 0..Trigger /\ opens \in BOOLEAN /\ good \in 0..2 /\ (~resolve => good \in 0..1)
    BY <1>1 DEF A!Least, A!Recovered, AlertRow
  <1>4. (opens => ~state.active) /\ (resolve => state.active)
    BY <1>1 DEF A!Recovered
  <1>5. state.phase \in 0..MaxPhases
    BY <1>1 DEF AlertRow
  <1>6. CASE opens \/ resolve
    <2>1. A!condition = turned
      BY <1>2, <1>6
    <2>2. state.phase + 1 \in 0..MaxPhases
      BY <2>1, <1>5
    <2>3. opens <=> A!Open(state.phase + 1)
      BY <1>1, <1>4, <1>5, <1>6, PhasesAlternate
    <2> HIDE DEF bad, opens, good, resolve
    <2>4. turned \in AlertRow /\ turned.active = opens /\ turned.phase = state.phase + 1
      BY <1>3, <2>2 DEF AlertRow
    <2> QED BY <2>1, <2>3, <2>4
  <1>7. CASE ~(opens \/ resolve)
    <2>1. A!condition = counted
      BY <1>2, <1>7
    <2>2. good \in 0..1 /\ bad \in 0..Trigger
      BY <1>3, <1>7
    <2> HIDE DEF bad, opens, good, resolve
    <2>3. counted \in AlertRow /\ counted.active = state.active /\ counted.phase = state.phase
      BY <1>1, <2>2 DEF AlertRow
    <2> QED BY <1>1, <2>1, <2>3
  <1> QED BY <1>6, <1>7

\* Every step keeps the invariant.
LEMMA AlertsKept ==
  ASSUME AlertsInv, [A!AlertsNext]_A!alertVars
  PROVE  AlertsInv'
  <1> USE AlertBounds
  <1>0. /\ state \in AlertRow /\ delivery \in [Channels -> DeliveryRow]
        /\ heard \in [Channels -> 0..MaxPhases]
        /\ kind \in {"condition", "event"} /\ on \subseteq Channels /\ sample \in Nat
        /\ \A ch \in Channels : delivery[ch] \in DeliveryRow
    BY DEF AlertsInv, A!AlertsTypeOK, AlertRow, DeliveryRow
  <1>a. ASSUME state' \in AlertRow, delivery' \in [Channels -> DeliveryRow],
               heard' \in [Channels -> 0..MaxPhases]
        PROVE  A!AlertsTypeOK'
    BY <1>a DEF A!AlertsTypeOK, AlertRow, DeliveryRow
  <1>b. ASSUME outcome' = "none" PROVE AlertsAreHeard'
    BY <1>b DEF AlertsAreHeard, A!AlertsAreHeard
  <1>1. CASE A!Tick
    <2>1. /\ state' \in AlertRow /\ delivery' \in [Channels -> DeliveryRow]
          /\ state'.active = state.active /\ state'.phase = state.phase
          /\ \A ch \in Channels : /\ delivery'[ch].failed = delivery[ch].failed
                                  /\ delivery'[ch].phase = delivery[ch].phase
      BY <1>1, AgeingKeeps
    <2>2. UNCHANGED <<kind, on, sample, heard, outcome>>
      BY <1>1 DEF A!Tick
    <2>3. A!AlertsTypeOK'
      BY <1>0, <1>a, <2>1, <2>2
    <2>4. AlertsAreHeard'
      BY <1>0, <2>1, <2>2 DEF AlertsInv, AlertsAreHeard, A!AlertsAreHeard
    <2> QED BY <2>1, <2>2, <2>3, <2>4 DEF AlertsInv
  <1>2. CASE A!SaveOperatorAlertSettings
    <2>1. /\ on' \subseteq Channels /\ outcome' = "none"
          /\ UNCHANGED <<kind, sample, state, delivery, heard>>
      BY <1>2 DEF A!SaveOperatorAlertSettings
    <2> QED BY <1>0, <1>a, <1>b, <2>1 DEF AlertsInv
  <1>3. CASE A!Sample
    <2>1. outcome' = "none" /\ UNCHANGED <<kind, on, state, delivery, heard>>
      BY <1>3 DEF A!Sample
    <2>2. kind = "condition" => sample' \in Nat
      BY <1>3 DEF A!Sample
    <2>3. kind = "event" => sample' = sample + 1 /\ sample' \in 0..MaxPhases
      BY <1>0, <1>3 DEF A!Sample
    <2>4. kind = "event" => \A ch \in Channels : /\ delivery'[ch].phase <= heard'[ch]
                                                 /\ heard'[ch] <= sample'
      BY <1>0, <2>1, <2>3 DEF AlertsInv, DeliveryRow
    <2> QED BY <1>0, <1>a, <1>b, <2>1, <2>2, <2>3, <2>4 DEF AlertsInv
  <1>4. CASE A!Evaluate
    <2>0. UNCHANGED <<kind, on, sample>>
      BY <1>4 DEF A!Evaluate
    <2>1. ASSUME kind = "condition" PROVE AlertsInv'
      <3>1. PICK result \in [on -> A!Results] :
               /\ A!condition.phase <= MaxPhases
               /\ A!send(A!condition.phase, result)
               /\ \/ /\ \A ch \in on : result[ch] # "skipped"
                     /\ state' = A!condition /\ outcome' = "sent"
                  \/ UNCHANGED state /\ outcome' = "none"
        BY <1>4, <2>1 DEF A!Evaluate
      <3>2. A!condition \in AlertRow /\ (A!condition.active <=> A!Open(A!condition.phase))
        BY <2>1, <3>1, ConditionRow
      <3>3. A!condition.phase \in 0..MaxPhases
        BY <3>2 DEF AlertRow
      <3> DEFINE phase == A!condition.phase
      <3>4. /\ delivery' \in [Channels -> DeliveryRow] /\ heard' \in [Channels -> 0..MaxPhases]
            /\ \A ch \in Channels :
                  \/ delivery'[ch] = delivery[ch] /\ heard'[ch] = heard[ch]
                     /\ (ch \notin on \/ ~A!Attempted(delivery[ch], phase) \/ result[ch] = "skipped")
                  \/ ch \in on /\ result[ch] = "sent" /\ heard'[ch] = phase
                     /\ delivery'[ch] = [failed |-> FALSE, age |-> 0, phase |-> phase]
                  \/ ch \in on /\ result[ch] = "failed" /\ heard'[ch] = heard[ch]
                     /\ delivery'[ch].failed /\ delivery'[ch].phase = delivery[ch].phase
                  \/ ch \in on /\ result[ch] = "unwritten" /\ heard'[ch] = phase
                     /\ delivery'[ch] = delivery[ch]
        BY <3>1, <3>3, Sending
      <3>5. CASE UNCHANGED state /\ outcome' = "none"
        BY <1>0, <1>a, <1>b, <2>0, <2>1, <3>4, <3>5 DEF AlertsInv
      <3>6. CASE /\ \A ch \in on : result[ch] # "skipped"
                 /\ state' = A!condition /\ outcome' = "sent"
        <4>1. A!AlertsTypeOK'
          BY <1>a, <3>2, <3>4, <3>6
        <4>2. ASSUME NEW ch \in on
              PROVE  heard'[ch] = phase \/ delivery'[ch].failed \/ heard'[ch] # delivery'[ch].phase
          <5>1. ~A!Attempted(delivery[ch], phase) => delivery[ch].phase = phase \/ delivery[ch].failed
            BY DEF A!Attempted, A!Delivered
          <5> HIDE DEF phase
          <5>2. ch \in Channels /\ result[ch] # "skipped"
            BY <1>0, <3>6
          <5> QED BY <3>4, <5>1, <5>2
        <4>3. AlertsAreHeard'
          BY <2>0, <3>2, <3>6, <4>2 DEF AlertsAreHeard, A!AlertsAreHeard
        <4> QED BY <1>0, <2>0, <2>1, <3>2, <3>6, <4>1, <4>3 DEF AlertsInv
      <3> QED BY <3>1, <3>5, <3>6
    <2>2. ASSUME kind = "event" PROVE AlertsInv'
      <3>1. PICK result \in [on -> A!Results] :
               /\ A!event
               /\ A!send(sample, result)
               /\ \/ /\ A!AllDelivered(sample, result) /\ outcome' = "recorded"
                     /\ state' = [state EXCEPT !.phase = sample, !.age = 0]
                  \/ UNCHANGED state /\ outcome' = "none"
        BY <1>4, <2>2 DEF A!Evaluate
      <3>2. sample \in 0..MaxPhases
        BY <2>2 DEF AlertsInv
      <3>3. /\ delivery' \in [Channels -> DeliveryRow] /\ heard' \in [Channels -> 0..MaxPhases]
            /\ \A ch \in Channels :
                  \/ delivery'[ch] = delivery[ch] /\ heard'[ch] = heard[ch]
                     /\ (ch \notin on \/ ~A!Attempted(delivery[ch], sample) \/ result[ch] = "skipped")
                  \/ ch \in on /\ result[ch] = "sent" /\ heard'[ch] = sample
                     /\ delivery'[ch] = [failed |-> FALSE, age |-> 0, phase |-> sample]
                  \/ ch \in on /\ result[ch] = "failed" /\ heard'[ch] = heard[ch]
                     /\ delivery'[ch].failed /\ delivery'[ch].phase = delivery[ch].phase
                  \/ ch \in on /\ result[ch] = "unwritten" /\ heard'[ch] = sample
                     /\ delivery'[ch] = delivery[ch]
        BY <3>1, <3>2, Sending
      <3>4. ASSUME NEW ch \in Channels
            PROVE  delivery'[ch].phase <= heard'[ch] /\ heard'[ch] <= sample
        <4>1. /\ delivery[ch].phase <= heard[ch] /\ heard[ch] <= sample
              /\ delivery[ch].phase \in Nat /\ heard[ch] \in Nat
          BY <1>0, <2>2 DEF AlertsInv, DeliveryRow
        <4> QED BY <1>0, <3>3, <4>1
      <3>5. CASE UNCHANGED state /\ outcome' = "none"
        BY <1>0, <1>a, <1>b, <2>0, <2>2, <3>2, <3>3, <3>4, <3>5 DEF AlertsInv
      <3>6. CASE /\ A!AllDelivered(sample, result) /\ outcome' = "recorded"
                 /\ state' = [state EXCEPT !.phase = sample, !.age = 0]
        <4>1. state' \in AlertRow /\ state'.phase = sample
          BY <1>0, <3>2, <3>6 DEF AlertRow
        <4>2. A!AlertsTypeOK'
          BY <1>a, <3>3, <4>1
        <4>3. ASSUME NEW ch \in on PROVE heard'[ch] = sample
          <5>1. ch \in Channels /\ delivery[ch] \in DeliveryRow /\ heard[ch] \in Nat
            BY <1>0
          <5>2. CASE A!Delivered(delivery[ch], sample)
            <6>1. delivery[ch].phase = sample
              BY <5>2 DEF A!Delivered
            <6>2. heard[ch] = sample
              BY <1>0, <2>2, <5>1, <6>1 DEF AlertsInv
            <6>3. heard'[ch] = heard[ch] \/ heard'[ch] = sample
              BY <3>3, <5>1
            <6> QED BY <6>2, <6>3
          <5>3. CASE A!Attempted(delivery[ch], sample) /\ result[ch] = "sent"
            BY <3>3, <5>1, <5>3
          <5> QED BY <3>6, <5>2, <5>3 DEF A!AllDelivered
        <4>4. AlertsAreHeard'
          BY <2>0, <3>6, <4>1, <4>3 DEF AlertsAreHeard, A!AlertsAreHeard
        <4> QED BY <1>0, <2>0, <2>2, <3>2, <3>4, <3>6, <4>2, <4>4 DEF AlertsInv
      <3> QED BY <3>1, <3>5, <3>6
    <2> QED BY <1>0, <2>1, <2>2
  <1>5. CASE A!EvaluateQuietly
    <2>1. /\ kind = "condition" /\ A!condition.phase <= MaxPhases
          /\ state' = A!condition /\ outcome' = "none"
          /\ UNCHANGED <<kind, on, sample, delivery, heard>>
      BY <1>5 DEF A!EvaluateQuietly
    <2>2. A!condition \in AlertRow /\ (A!condition.active <=> A!Open(A!condition.phase))
      BY <2>1, ConditionRow
    <2> QED BY <1>0, <1>a, <1>b, <2>1, <2>2 DEF AlertsInv
  <1>6. CASE UNCHANGED A!alertVars
    BY <1>6 DEF AlertsInv, A!alertVars, A!AlertsTypeOK, AlertsAreHeard, A!AlertsAreHeard
  <1> QED BY <1>1, <1>2, <1>3, <1>4, <1>5, <1>6 DEF A!AlertsNext

\* An evaluation that found the condition bad in an open alert, or recovered, leaves
\* every channel with this very phase delivered, but for failed and unwritten
\* attempts; an event is written down only when every channel has delivered it
\* (Monitor.condition, Monitor.event and Monitor.send).
THEOREM EveryAlertIsHeard == Spec => []AlertsAreHeard
  <1>1. Init => AlertsInv
    BY AlertsBegin DEF Init
  <1>2. AlertsInv /\ [Next]_vars => AlertsInv'
    BY AlertsStep, AlertsKept
  <1>3. AlertsInv => AlertsAreHeard
    BY DEF AlertsInv
  <1> QED BY <1>1, <1>2, <1>3, PTL DEF Spec

-----------------------------------------------------------------------------
(***************************************************************************)
(* The installation of phpMyAdmin.                                         *)
(***************************************************************************)
\* A step of the panel is a step of its sign-ons, or leaves them alone.
LEMMA SignOnsStep ==
  ASSUME [Next]_vars
  PROVE  [S!SignOnsNext]_S!signOnVars
  <1>1. CASE SignOn
    BY <1>1 DEF SignOn
  <1>2. CASE Login \/ User \/ Alert \/ Host \/ UNCHANGED vars
    BY <1>2 DEF Login, User, Alert, Host, vars, signons, S!signOnVars, S!sessionVars, S!installVars
  <1> QED BY <1>1, <1>2 DEF Next

\* The panel's specification implements that of its sign-ons.
THEOREM SignOnsAreRefined == Spec => S!SignOnsSpec
  <1>1. Init => S!SignOnsInit
    BY DEF Init
  <1>2. [Next]_vars => [S!SignOnsNext]_S!signOnVars
    BY SignOnsStep
  <1> QED BY <1>1, <1>2, PTL DEF Spec, S!SignOnsSpec

\* The stages, one by one.
LEMMA StageNames ==
  /\ DOMAIN S!Stages = 1..8 /\ Len(S!Stages) = 8
  /\ S!Stages[1] = "identity" /\ S!Stages[2] = "application" /\ S!Stages[3] = "configuration"
  /\ S!Stages[4] = "pool" /\ S!Stages[5] = "php" /\ S!Stages[6] = "vhost"
  /\ S!Stages[7] = "link" /\ S!Stages[8] = "nginx"
  BY DEF S!Stages

\* What there is of phpMyAdmin.
LEMMA FactNames ==
  S!Facts = {"identity", "application", "configuration", "pool", "php", "vhost", "link", "nginx"}
  BY StageNames DEF S!Facts

\* The link is the seventh stage, after the file it names.
LEMMA StagesInOrder ==
  ASSUME NEW n \in 0..8
  PROVE  /\ S!Upto(n) \subseteq S!Facts
         /\ "link" \in S!Upto(n) => n >= 7 /\ "vhost" \in S!Upto(n)
  <1>1. S!Upto(n) \subseteq S!Facts
    BY StageNames DEF S!Upto, S!Facts
  <1>2. ASSUME "link" \in S!Upto(n) PROVE n >= 7 /\ "vhost" \in S!Upto(n)
    <2>1. PICK i \in 1..n : S!Stages[i] = "link"
      BY <1>2 DEF S!Upto
    <2>2. i \in 1..8 /\ i = 7
      BY <2>1, StageNames
    <2>3. n >= 7 /\ 6 \in 1..n
      BY <2>2
    <2> QED BY <2>3, StageNames DEF S!Upto
  <1> QED BY <1>1, <1>2

\* A failing stage takes back only what was not there before; the last one takes the
\* link with its file.
LEMMA UndoIsOfThisCall ==
  ASSUME NEW n \in 0..7
  PROVE  /\ S!Undo(n) \intersect have = {} /\ S!Undo(n) \subseteq S!Facts
         /\ "link" \notin have /\ n = 7 => "link" \in S!Undo(n)
  <1>1. S!Undo(n) = (IF S!Stages[n + 1] = "php" THEN {"pool"}
                     ELSE IF S!Stages[n + 1] = "link" THEN {"vhost"}
                     ELSE IF S!Stages[n + 1] = "nginx" THEN {"vhost", "link"} ELSE {}) \ have
    BY DEF S!Undo
  <1> QED BY <1>1, StageNames, FactNames

\* What the panel shows as installed is all there, and no link is without its file.
InstallInv == /\ have \subseteq S!Facts
              /\ InstalledIsServed

LEMMA InstallKept ==
  ASSUME InstallInv, [S!SignOnsNext]_S!signOnVars
  PROVE  InstallInv'
  <1> USE DEF InstallInv, InstalledIsServed, S!InstalledIsServed
  <1>1. CASE UNCHANGED S!installVars
    BY <1>1 DEF S!installVars
  <1>2. CASE S!InstallDatabaseAdmin \/ S!ClaimInstall
    BY <1>2 DEF S!InstallDatabaseAdmin, S!ClaimInstall
  <1>3. ASSUME NEW n \in 0..7, have' = S!Built(n) \ S!Undo(n)
        PROVE  /\ have' \subseteq S!Facts /\ (have = S!Facts => have' = S!Facts)
               /\ "link" \in have' => "vhost" \in have'
    <2>1. have' = (have \cup S!Upto(n)) \ S!Undo(n)
      BY <1>3 DEF S!Built
    <2>2. S!Upto(n) \subseteq S!Facts /\ ("link" \in S!Upto(n) => n >= 7 /\ "vhost" \in S!Upto(n))
      BY StagesInOrder
    <2>3. /\ S!Undo(n) \intersect have = {} /\ S!Undo(n) \subseteq S!Facts
          /\ "link" \notin have /\ n = 7 => "link" \in S!Undo(n)
      BY UndoIsOfThisCall
    <2>4. have = S!Facts => have' = S!Facts
      BY <2>1, <2>2, <2>3
    <2>5. ASSUME "link" \in have' PROVE "vhost" \in have'
      <3>1. "link" \in have
        BY <2>1, <2>2, <2>3, <2>5
      <3> QED BY <2>1, <2>3, <3>1
    <2> QED BY <2>1, <2>2, <2>4, <2>5
  <1>4. ASSUME NEW n \in 0..8, have' = S!Built(n)
        PROVE  /\ have' \subseteq S!Facts /\ (have = S!Facts => have' = S!Facts)
               /\ "link" \in have' => "vhost" \in have'
    BY <1>4, StagesInOrder DEF S!Built
  <1>5. CASE S!Ensure
    <2>1. CASE have' = S!Facts
      BY <2>1, FactNames
    <2>2. CASE \E n \in 0..Len(S!Stages) - 1 :
                 /\ have' = S!Built(n) \ S!Undo(n)
                 /\ \/ job = "running" /\ job' = "none" /\ admin' = "failed"
                    \/ UNCHANGED <<job, admin>>
      BY <1>3, <2>2, StageNames
    <2> QED BY <1>5, <2>1, <2>2 DEF S!Ensure
  <1>6. CASE S!BrokerStops
    BY <1>4, <1>6, StageNames DEF S!BrokerStops
  <1>7. CASE S!OthersReload
    BY <1>7, FactNames DEF S!OthersReload
  <1>8. S!SignOnsNext => \/ UNCHANGED S!installVars \/ S!InstallDatabaseAdmin \/ S!ClaimInstall
                         \/ S!Ensure \/ S!BrokerStops \/ S!OthersReload
    BY DEF S!SignOnsNext, S!OpenDatabasePage, S!WordPressLogin, S!CreateSignon, S!MagicLogin,
           S!PrepareDatabaseOpen, S!Refused, S!PhpMyAdminRead, S!PhpMyAdminSignon,
           S!HandlerClaim, S!HandlerLogin, S!SiteInterferes, S!Pass
  <1>9. UNCHANGED S!signOnVars => UNCHANGED S!installVars
    BY DEF S!signOnVars
  <1> QED BY <1>1, <1>2, <1>5, <1>6, <1>7, <1>8, <1>9

\* What the panel shows as installed is there and served, and no link is left without
\* the file it names, whatever became of calls before or after the one that succeeded
\* (PHPMyAdmin.Ensure and the worker's job that calls it).
THEOREM InstalledStaysServed == Spec => []InstalledIsServed
  <1>1. Init => InstallInv
    BY DEF Init, S!SignOnsInit, InstallInv, InstalledIsServed, S!InstalledIsServed
  <1>2. InstallInv /\ [Next]_vars => InstallInv'
    BY SignOnsStep, InstallKept
  <1>3. InstallInv => InstalledIsServed
    BY DEF InstallInv
  <1> QED BY <1>1, <1>2, <1>3, PTL DEF Spec

-----------------------------------------------------------------------------
(***************************************************************************)
(* Sign-ons.  A token names one file at most, and whoever read or claimed  *)
(* it holds that very file; only one visitor holds a claim to it; and when *)
(* it has been accepted neither a file nor a claim of it is left.          *)
(***************************************************************************)
Visits == {S!Free} \cup [at : {"read", "claimed", "checking"}, file : S!File]
Visiting(v) == visitor[v].at # "free"
Claims(v)   == visitor[v].at \in {"claimed", "checking"}

SignOnTypes ==
    /\ visitor \in [Requests -> Visits]
    /\ files \subseteq S!File /\ made \in 0..MaxSignOns
    /\ opened \in [S!Tokens -> Nat] /\ now \in Nat

FilesAreDistinct ==
    \A f \in files : f.token <= made /\ \A g \in files : g.token = f.token => g = f

VisitorsHoldTheFile ==
    \A v \in Requests : Visiting(v) =>
        /\ visitor[v].file.token <= made
        /\ visitor[v].at = "read" => visitor[v].file.kind = "phpmyadmin"
        /\ Claims(v) => visitor[v].file.kind = "wordpress" /\ visitor[v].file.name = "used"
        /\ \A f \in files : f.token = visitor[v].file.token => f = visitor[v].file

ClaimsAreApart ==
    \A v, w \in Requests :
        Claims(v) /\ Claims(w) /\ visitor[v].file.token = visitor[w].file.token => v = w

OpenedIsSpent ==
    \A t \in S!Tokens :
        /\ opened[t] <= 1
        /\ opened[t] > 0 => /\ t <= made /\ \A f \in files : f.token # t
                            /\ \A v \in Requests : Claims(v) => visitor[v].file.token # t

SignOnsInv == /\ SignOnTypes /\ FilesAreDistinct /\ VisitorsHoldTheFile
              /\ ClaimsAreApart /\ OpenedIsSpent

LEMMA SignOnBounds == /\ Lifetime \in Nat /\ PruneAge \in Nat /\ MaxTime \in Nat
                      /\ MaxSignOns \in Nat /\ MaxInstalls \in Nat
  <1>1. {Lifetime, PruneAge, MaxTime, MaxSignOns, MaxInstalls} \subseteq Nat
    BY SignOnAssumption DEF S!SignOnAssumption
  <1> QED BY <1>1

LEMMA VisitFields ==
  ASSUME NEW x \in Visits
  PROVE  /\ x.at = "free" <=> x = S!Free
         /\ x.at # "free" => /\ x.at \in {"read", "claimed", "checking"} /\ x.file \in S!File
                             /\ x = [at |-> x.at, file |-> x.file]
  BY DEF Visits, S!Free

LEMMA VisitPlaces ==
  /\ S!Free \in Visits /\ S!Free.at = "free"
  /\ \A a \in {"read", "claimed", "checking"}, f \in S!File :
        /\ [at |-> a, file |-> f] \in Visits
        /\ [at |-> a, file |-> f].at = a /\ [at |-> a, file |-> f].file = f
  BY DEF Visits, S!Free

LEMMA FileFields ==
  ASSUME NEW f \in S!File
  PROVE  /\ f.token \in 1..MaxSignOns /\ f.kind \in {"phpmyadmin", "wordpress"}
         /\ f.name \in {"pending", "used"} /\ f.expires \in Nat
         /\ S!Used(f) \in S!File /\ S!Used(f).token = f.token /\ S!Used(f).kind = f.kind
         /\ S!Used(f).name = "used"
  BY DEF S!File, S!Tokens, S!Kinds, S!Used

LEMMA NewFiles ==
  ASSUME SignOnTypes, made < MaxSignOns, NEW k \in S!Kinds
  PROVE  S!NewFile(k) \in S!File /\ S!NewFile(k).token = made + 1
  BY SignOnBounds DEF SignOnTypes, S!NewFile, S!File, S!Tokens, S!Kinds

\* Files go and visitors leave: nothing that was apart comes together.
LEMMA LeavingKeeps ==
  ASSUME SignOnsInv, files' \subseteq files, visitor' \in [Requests -> Visits],
         \A v \in Requests : visitor'[v] = visitor[v] \/ visitor'[v] = S!Free,
         UNCHANGED <<made, opened>>, now' \in Nat
  PROVE  SignOnsInv'
  <1>1. SignOnTypes'
    BY DEF SignOnsInv, SignOnTypes
  <1>2. FilesAreDistinct'
    BY DEF SignOnsInv, FilesAreDistinct
  <1>3. \A v \in Requests : (Visiting(v)' => visitor'[v] = visitor[v]) /\ (Claims(v)' => Visiting(v)')
    BY VisitPlaces DEF Visiting, Claims
  <1>4. VisitorsHoldTheFile'
    BY <1>3 DEF SignOnsInv, VisitorsHoldTheFile, Visiting, Claims
  <1>5. ClaimsAreApart'
    BY <1>3 DEF SignOnsInv, ClaimsAreApart, Visiting, Claims
  <1>6. OpenedIsSpent'
    BY <1>3 DEF SignOnsInv, OpenedIsSpent, Visiting, Claims
  <1> QED BY <1>1, <1>2, <1>4, <1>5, <1>6 DEF SignOnsInv

\* A file with a token of its own comes, and others may go.
LEMMA MakingKeeps ==
  ASSUME SignOnsInv, made < MaxSignOns, made' = made + 1, NEW kept \in SUBSET files,
         NEW k \in S!Kinds, files' = kept \cup {S!NewFile(k)}, UNCHANGED <<visitor, opened, now>>
  PROVE  SignOnsInv'
  <1> USE SignOnBounds
  <1>1. S!NewFile(k) \in S!File /\ S!NewFile(k).token = made + 1
    BY NewFiles DEF SignOnsInv
  <1>2. SignOnTypes'
    BY <1>1 DEF SignOnsInv, SignOnTypes
  <1>3. \A f \in kept : f \in files /\ f.token <= made /\ f.token \in Nat /\ f.token # made + 1
    BY FileFields DEF SignOnsInv, SignOnTypes, FilesAreDistinct
  <1>4. made \in Nat
    BY DEF SignOnsInv, SignOnTypes
  <1>5. FilesAreDistinct'
    BY <1>1, <1>3, <1>4 DEF SignOnsInv, FilesAreDistinct
  <1>6. \A v \in Requests : Visiting(v) => visitor[v].file.token \in Nat
    BY VisitFields, FileFields DEF SignOnsInv, SignOnTypes, Visiting
  <1>7. VisitorsHoldTheFile'
    BY <1>1, <1>3, <1>4, <1>6 DEF SignOnsInv, VisitorsHoldTheFile, Visiting, Claims
  <1>8. ClaimsAreApart'
    BY DEF SignOnsInv, ClaimsAreApart, Claims
  <1>9. OpenedIsSpent'
    BY <1>1, <1>3, <1>4 DEF SignOnsInv, OpenedIsSpent, Claims, S!Tokens
  <1> QED BY <1>2, <1>5, <1>7, <1>8, <1>9 DEF SignOnsInv

\* phpMyAdmin reads a file that is there.
LEMMA ReadingKeeps ==
  ASSUME SignOnsInv, NEW v \in Requests, S!PhpMyAdminRead(v)
  PROVE  SignOnsInv'
  <1>1. PICK f \in files : f.kind = "phpmyadmin" /\ visitor' = [visitor EXCEPT ![v] = [at |-> "read", file |-> f]]
    BY DEF S!PhpMyAdminRead, S!Visit
  <1>2. UNCHANGED <<files, made, opened, now>>
    BY DEF S!PhpMyAdminRead
  <1>3. f \in S!File /\ visitor \in [Requests -> Visits]
    BY DEF SignOnsInv, SignOnTypes
  <1> DEFINE x == [at |-> "read", file |-> f]
  <1>4. x \in Visits /\ x.at = "read" /\ x.file = f
    BY <1>3, VisitPlaces
  <1> HIDE DEF x
  <1>5. visitor' \in [Requests -> Visits] /\ visitor'[v] = x
        /\ \A w \in Requests : w # v => visitor'[w] = visitor[w]
    BY <1>1, <1>3, <1>4 DEF x
  <1>6. \A w \in Requests : Claims(w)' => w # v /\ Claims(w)
    BY <1>4, <1>5 DEF Claims
  <1>7. SignOnTypes' /\ FilesAreDistinct'
    BY <1>2, <1>5 DEF SignOnsInv, SignOnTypes, FilesAreDistinct
  <1>8. f.token <= made /\ \A g \in files : g.token = f.token => g = f
    BY DEF SignOnsInv, FilesAreDistinct
  <1>9. VisitorsHoldTheFile'
    <2>1. ASSUME NEW w \in Requests, Visiting(w)'
          PROVE  /\ visitor'[w].file.token <= made'
                 /\ visitor'[w].at = "read" => visitor'[w].file.kind = "phpmyadmin"
                 /\ Claims(w)' => visitor'[w].file.kind = "wordpress" /\ visitor'[w].file.name = "used"
                 /\ \A g \in files' : g.token = visitor'[w].file.token => g = visitor'[w].file
      <3>1. CASE w = v
        BY <1>1, <1>2, <1>4, <1>5, <1>6, <1>8, <3>1
      <3>2. CASE w # v
        BY <1>2, <1>5, <2>1, <3>2 DEF SignOnsInv, VisitorsHoldTheFile, Visiting, Claims
      <3> QED BY <3>1, <3>2
    <2> QED BY <2>1 DEF VisitorsHoldTheFile
  <1>10. ClaimsAreApart'
    BY <1>5, <1>6 DEF SignOnsInv, ClaimsAreApart
  <1>11. OpenedIsSpent'
    BY <1>2, <1>5, <1>6 DEF SignOnsInv, OpenedIsSpent
  <1> QED BY <1>7, <1>9, <1>10, <1>11 DEF SignOnsInv

\* A file that is there is accepted once it is removed, and with it every other trace
\* of its token but for visitors of phpMyAdmin that come too late.
LEMMA AcceptingKeeps ==
  ASSUME SignOnsInv, NEW f \in S!File, NEW v \in Requests,
         f.token <= made, opened[f.token] = 0,
         visitor' = [visitor EXCEPT ![v] = S!Free], files' = files \ {f},
         \A g \in files : g.token = f.token => g = f,
         \A w \in Requests \ {v} : Claims(w) => visitor[w].file.token # f.token,
         S!Accept(f.token), UNCHANGED <<made, now>>
  PROVE  SignOnsInv'
  <1>1. /\ visitor \in [Requests -> Visits] /\ opened \in [S!Tokens -> Nat] /\ f.token \in S!Tokens
    BY FileFields DEF SignOnsInv, SignOnTypes, S!Tokens
  <1>2. /\ visitor' \in [Requests -> Visits] /\ visitor'[v].at = "free"
        /\ \A w \in Requests : w # v => visitor'[w] = visitor[w]
    BY <1>1, VisitPlaces
  <1>3. /\ opened' \in [S!Tokens -> Nat] /\ opened'[f.token] = 1
        /\ \A t \in S!Tokens : t # f.token => opened'[t] = opened[t]
    BY <1>1 DEF S!Accept
  <1>4. \A w \in Requests : (Visiting(w)' \/ Claims(w)') => w # v /\ visitor'[w] = visitor[w]
    BY <1>2 DEF Visiting, Claims
  <1>5. SignOnTypes' /\ FilesAreDistinct'
    BY <1>2, <1>3 DEF SignOnsInv, SignOnTypes, FilesAreDistinct
  <1>6. VisitorsHoldTheFile'
    BY <1>4 DEF SignOnsInv, VisitorsHoldTheFile, Visiting, Claims
  <1>7. ClaimsAreApart'
    BY <1>4 DEF SignOnsInv, ClaimsAreApart, Claims
  <1>8. ASSUME NEW t \in S!Tokens
        PROVE  /\ opened'[t] <= 1
               /\ opened'[t] > 0 => /\ t <= made' /\ \A g \in files' : g.token # t
                                    /\ \A w \in Requests : Claims(w)' => visitor'[w].file.token # t
    <2>1. CASE t = f.token
      BY <1>3, <1>4, <2>1 DEF Claims
    <2>2. CASE t # f.token
      BY <1>3, <1>4, <2>2 DEF SignOnsInv, OpenedIsSpent, Claims
    <2> QED BY <2>1, <2>2
  <1>9. OpenedIsSpent'
    BY <1>8 DEF OpenedIsSpent
  <1> QED BY <1>5, <1>6, <1>7, <1>9 DEF SignOnsInv

\* A visitor that leaves.
LEMMA FreeingLeaves ==
  ASSUME SignOnTypes, NEW v \in Requests, S!Visit(v, S!Free)
  PROVE  /\ visitor' \in [Requests -> Visits]
         /\ \A w \in Requests : visitor'[w] = visitor[w] \/ visitor'[w] = S!Free
  BY VisitPlaces DEF SignOnTypes, S!Visit

LEMMA SigningOnKeeps ==
  ASSUME SignOnsInv, NEW v \in Requests, S!PhpMyAdminSignon(v)
  PROVE  SignOnsInv'
  <1> DEFINE f == visitor[v].file
  <1>1. /\ visitor[v].at = "read" /\ S!Visit(v, S!Free) /\ files' = files \ {f}
        /\ UNCHANGED <<made, now>>
        /\ UNCHANGED opened \/ (f \in files /\ S!Accept(f.token))
    BY DEF S!PhpMyAdminSignon
  <1>2. CASE UNCHANGED opened
    BY <1>1, <1>2, FreeingLeaves, LeavingKeeps DEF SignOnsInv, SignOnTypes
  <1>3. CASE f \in files /\ S!Accept(f.token)
    <2>1. f \in S!File /\ f.token \in S!Tokens /\ f.token <= made
          /\ \A g \in files : g.token = f.token => g = f
      BY <1>3, FileFields DEF SignOnsInv, SignOnTypes, FilesAreDistinct, S!Tokens
    <2>2. opened[f.token] = 0
      BY <1>3, <2>1 DEF SignOnsInv, SignOnTypes, OpenedIsSpent
    <2>3. f.kind = "phpmyadmin"
      BY <1>1 DEF SignOnsInv, VisitorsHoldTheFile, Visiting
    <2>4. ASSUME NEW w \in Requests, Claims(w) PROVE visitor[w].file.token # f.token
      <3>1. visitor[w].file.kind = "wordpress" /\ (visitor[w].file.token = f.token => f = visitor[w].file)
        BY <1>3, <2>4 DEF SignOnsInv, VisitorsHoldTheFile, Visiting, Claims
      <3> QED BY <2>3, <3>1
    <2> HIDE DEF f
    <2> QED BY <1>1, <1>3, <2>1, <2>2, <2>4, AcceptingKeeps DEF S!Visit
  <1> QED BY <1>1, <1>2, <1>3

\* The handler claims a file under another name.
LEMMA ClaimingKeeps ==
  ASSUME SignOnsInv, NEW v \in Requests, S!HandlerClaim(v)
  PROVE  SignOnsInv'
  <1>1. PICK f \in files : /\ f.kind = "wordpress" /\ f.name = "pending"
                           /\ files' = (files \ {f}) \cup {S!Used(f)}
                           /\ visitor' = [visitor EXCEPT ![v] = [at |-> "claimed", file |-> S!Used(f)]]
    BY DEF S!HandlerClaim, S!Visit
  <1>2. UNCHANGED <<made, opened, now>>
    BY DEF S!HandlerClaim
  <1>3. f \in S!File /\ visitor \in [Requests -> Visits] /\ files \subseteq S!File
    BY DEF SignOnsInv, SignOnTypes
  <1>4. S!Used(f) \in S!File /\ S!Used(f).token = f.token /\ S!Used(f).kind = "wordpress"
        /\ S!Used(f).name = "used" /\ f.token \in S!Tokens
    BY <1>1, <1>3, FileFields DEF S!Tokens
  <1> DEFINE u == S!Used(f)
             x == [at |-> "claimed", file |-> u]
  <1>5. x \in Visits /\ x.at = "claimed" /\ x.file = u
    BY <1>4, VisitPlaces
  <1>6. visitor' \in [Requests -> Visits] /\ visitor'[v] = x
        /\ \A w \in Requests : w # v => visitor'[w] = visitor[w]
    BY <1>1, <1>3, <1>5
  <1>7. f.token <= made /\ \A g \in files : g.token = f.token => g = f
    BY DEF SignOnsInv, FilesAreDistinct
  <1>8. \A w \in Requests : Visiting(w) => visitor[w].file.token # f.token
    <2>1. ASSUME NEW w \in Requests, Visiting(w), visitor[w].file.token = f.token PROVE FALSE
      <3>1. f = visitor[w].file
        BY <2>1 DEF SignOnsInv, VisitorsHoldTheFile
      <3>2. visitor[w].at = "read" \/ Claims(w)
        BY <1>3, <2>1, VisitFields DEF Visiting, Claims
      <3> QED BY <1>1, <2>1, <3>1, <3>2 DEF SignOnsInv, VisitorsHoldTheFile
    <2> QED BY <2>1
  <1>9. \A g \in files' : g = u \/ (g \in files /\ g.token # f.token)
    BY <1>1, <1>7
  <1> HIDE DEF u, x
  <1>10. u \in S!File /\ u.token = f.token /\ u.kind = "wordpress" /\ u.name = "used"
    BY <1>4 DEF u
  <1>11. SignOnTypes'
    BY <1>1, <1>2, <1>3, <1>6, <1>10 DEF SignOnsInv, SignOnTypes, u
  <1>12. FilesAreDistinct'
    BY <1>2, <1>7, <1>9, <1>10 DEF SignOnsInv, FilesAreDistinct
  <1>13. VisitorsHoldTheFile'
    <2>1. ASSUME NEW w \in Requests, Visiting(w)'
          PROVE  /\ visitor'[w].file.token <= made'
                 /\ visitor'[w].at = "read" => visitor'[w].file.kind = "phpmyadmin"
                 /\ Claims(w)' => visitor'[w].file.kind = "wordpress" /\ visitor'[w].file.name = "used"
                 /\ \A g \in files' : g.token = visitor'[w].file.token => g = visitor'[w].file
      <3>1. CASE w = v
        BY <1>2, <1>5, <1>6, <1>7, <1>9, <1>10, <3>1
      <3>2. CASE w # v
        <4>1. visitor'[w] = visitor[w] /\ Visiting(w)
          BY <1>6, <2>1, <3>2 DEF Visiting
        <4> QED BY <1>2, <1>8, <1>9, <1>10, <4>1 DEF SignOnsInv, VisitorsHoldTheFile, Claims
      <3> QED BY <3>1, <3>2
    <2> QED BY <2>1 DEF VisitorsHoldTheFile
  <1>14. \A w \in Requests : Claims(w)' => IF w = v THEN visitor'[w].file.token = f.token
                             ELSE /\ Claims(w) /\ visitor'[w] = visitor[w]
                                  /\ visitor[w].file.token # f.token
    BY <1>5, <1>6, <1>8, <1>10 DEF Claims, Visiting
  <1>15. ClaimsAreApart'
    BY <1>14 DEF SignOnsInv, ClaimsAreApart
  <1>16. OpenedIsSpent'
    BY <1>2, <1>4, <1>9, <1>10, <1>14 DEF SignOnsInv, OpenedIsSpent
  <1> QED BY <1>11, <1>12, <1>13, <1>15, <1>16 DEF SignOnsInv

\* The claim is looked up, then taken.
LEMMA LoggingInKeeps ==
  ASSUME SignOnsInv, NEW v \in Requests, S!HandlerLogin(v)
  PROVE  SignOnsInv'
  <1> DEFINE f == visitor[v].file
  <1>0. visitor \in [Requests -> Visits] /\ UNCHANGED <<made, now>>
    BY DEF S!HandlerLogin, SignOnsInv, SignOnTypes
  <1>1. CASE /\ visitor[v].at = "claimed" /\ UNCHANGED <<files, opened>>
             /\ S!Visit(v, IF f \in files THEN [visitor[v] EXCEPT !.at = "checking"] ELSE S!Free)
    <2>1. CASE f \notin files
      BY <1>0, <1>1, <2>1, FreeingLeaves, LeavingKeeps DEF SignOnsInv, SignOnTypes
    <2>2. CASE f \in files
      <3> DEFINE x == [visitor[v] EXCEPT !.at = "checking"]
      <3>1. visitor[v] = [at |-> "claimed", file |-> f] /\ f \in S!File
        BY <1>0, <1>1, VisitFields
      <3>2. x = [at |-> "checking", file |-> f]
        BY <3>1
      <3>3. x \in Visits /\ x.at = "checking" /\ x.file = f
        BY <3>1, <3>2, VisitPlaces
      <3>4. visitor' = [visitor EXCEPT ![v] = x]
        BY <1>1, <2>2 DEF S!Visit
      <3> HIDE DEF x
      <3>5. /\ visitor' \in [Requests -> Visits]
            /\ \A w \in Requests : /\ visitor'[w].file = visitor[w].file
                                   /\ Visiting(w)' <=> Visiting(w)
                                   /\ Claims(w)' <=> Claims(w)
                                   /\ visitor'[w].at = "read" => visitor[w].at = "read"
        BY <1>0, <1>1, <3>3, <3>4 DEF Visiting, Claims
      <3>6. SignOnTypes' /\ FilesAreDistinct'
        BY <1>0, <1>1, <3>5 DEF SignOnsInv, SignOnTypes, FilesAreDistinct
      <3>7. VisitorsHoldTheFile'
        BY <1>0, <1>1, <3>5 DEF SignOnsInv, VisitorsHoldTheFile
      <3>8. ClaimsAreApart' /\ OpenedIsSpent'
        BY <1>0, <1>1, <3>5 DEF SignOnsInv, ClaimsAreApart, OpenedIsSpent
      <3> QED BY <3>6, <3>7, <3>8 DEF SignOnsInv
    <2> QED BY <2>1, <2>2
  <1>2. CASE /\ visitor[v].at = "checking" /\ S!Visit(v, S!Free) /\ files' = files \ {f}
             /\ UNCHANGED opened \/ S!Accept(f.token)
    <2>1. CASE UNCHANGED opened
      BY <1>0, <1>2, <2>1, FreeingLeaves, LeavingKeeps DEF SignOnsInv, SignOnTypes
    <2>2. CASE S!Accept(f.token)
      <3>1. Visiting(v) /\ Claims(v) /\ f \in S!File /\ f.token \in S!Tokens
        BY <1>0, <1>2, VisitFields, FileFields DEF Visiting, Claims, S!Tokens
      <3>2. f.token <= made /\ \A g \in files : g.token = f.token => g = f
        BY <3>1 DEF SignOnsInv, VisitorsHoldTheFile
      <3>3. opened[f.token] = 0
        BY <3>1 DEF SignOnsInv, SignOnTypes, OpenedIsSpent
      <3>4. \A w \in Requests \ {v} : Claims(w) => visitor[w].file.token # f.token
        BY <3>1 DEF SignOnsInv, ClaimsAreApart
      <3> HIDE DEF f
      <3> QED BY <1>0, <1>2, <2>2, <3>1, <3>2, <3>3, <3>4, AcceptingKeeps DEF S!Visit
    <2> QED BY <1>2, <2>1, <2>2
  <1> QED BY <1>1, <1>2 DEF S!HandlerLogin

LEMMA SignOnsKept ==
  ASSUME SignOnsInv, [S!SignOnsNext]_S!signOnVars
  PROVE  SignOnsInv'
  <1>0. SignOnTypes
    BY DEF SignOnsInv
  <1>1. ASSUME UNCHANGED <<visitor, files, made, opened>>, now' \in Nat PROVE SignOnsInv'
    BY <1>0, <1>1, LeavingKeeps DEF SignOnTypes
  <1>2. ASSUME NEW o \in Openers, S!OpenDatabasePage(o) \/ S!WordPressLogin(o)
                                  \/ S!PrepareDatabaseOpen(o) \/ S!Refused(o)
        PROVE  SignOnsInv'
    BY <1>0, <1>1, <1>2 DEF S!OpenDatabasePage, S!WordPressLogin, S!PrepareDatabaseOpen, S!Refused,
                            SignOnTypes
  <1>3. ASSUME NEW o \in Openers, S!CreateSignon(o) PROVE SignOnsInv'
    <2> DEFINE aged == {f \in files : f.kind = "phpmyadmin" /\ f.expires + PruneAge < now + Lifetime}
    <2>1. /\ files' = (files \ aged) \cup {S!NewFile("phpmyadmin")} /\ "phpmyadmin" \in S!Kinds
          /\ made < MaxSignOns /\ made' = made + 1 /\ UNCHANGED <<visitor, opened, now>>
      BY <1>3 DEF S!CreateSignon, S!Make, S!Kinds
    <2>2. files \ aged \in SUBSET files
      OBVIOUS
    <2> HIDE DEF aged
    <2> QED BY <2>1, <2>2, MakingKeeps
  <1>4. ASSUME NEW o \in Openers, S!MagicLogin(o) PROVE SignOnsInv'
    <2> DEFINE kept == {f \in files : f.kind = "wordpress" => now < f.expires}
    <2>1. /\ files' = kept \cup {S!NewFile("wordpress")} /\ "wordpress" \in S!Kinds
          /\ made < MaxSignOns /\ made' = made + 1 /\ UNCHANGED <<visitor, opened, now>>
      BY <1>4 DEF S!MagicLogin, S!Make, S!Kinds
    <2>2. kept \in SUBSET files
      OBVIOUS
    <2> HIDE DEF kept
    <2> QED BY <2>1, <2>2, MakingKeeps
  <1>5. CASE S!SiteInterferes
    <2>1. CASE UNCHANGED visitor
      BY <1>0, <1>1, <1>5, <2>1 DEF S!SiteInterferes, SignOnTypes
    <2>2. CASE \E v \in Requests : visitor[v] # S!Free /\ S!Visit(v, S!Free)
      <3>1. UNCHANGED <<files, made, opened, now>>
        BY <1>5 DEF S!SiteInterferes
      <3> QED BY <1>0, <2>2, <3>1, FreeingLeaves, LeavingKeeps DEF SignOnTypes
    <2> QED BY <1>5, <2>1, <2>2 DEF S!SiteInterferes
  <1>6. CASE S!Pass
    BY <1>0, <1>1, <1>6 DEF S!Pass, S!sessionVars, SignOnTypes
  <1>7. CASE S!InstallDatabaseAdmin \/ S!ClaimInstall \/ S!Ensure \/ S!BrokerStops \/ S!OthersReload
    BY <1>0, <1>1, <1>7 DEF S!InstallDatabaseAdmin, S!ClaimInstall, S!Ensure, S!BrokerStops,
                            S!OthersReload, S!sessionVars, SignOnTypes
  <1>8. CASE UNCHANGED S!signOnVars
    BY <1>0, <1>1, <1>8 DEF S!signOnVars, S!sessionVars, SignOnTypes
  <1> QED BY <1>2, <1>3, <1>4, <1>5, <1>6, <1>7, <1>8, ReadingKeeps, SigningOnKeeps, ClaimingKeeps,
             LoggingInKeeps DEF S!SignOnsNext

\* A sign-on is accepted once, though its address reaches two PHP processes at once
\* while the broker prunes the directory (phpMyAdminSignon, magicLoginHandlerScript and
\* the pruning in CreateSignon and createMagicLoginCapability).
THEOREM SignOnsOpenOnce == Spec => []OpenedOnce
  <1>1. Init => SignOnsInv
    <2> SUFFICES ASSUME Init PROVE SignOnsInv
      OBVIOUS
    <2>1. S!SignOnsInit
      BY DEF Init
    <2>2. \A v \in Requests : ~Visiting(v) /\ ~Claims(v)
      BY <2>1, VisitPlaces DEF S!SignOnsInit, Visiting, Claims
    <2> QED BY <2>1, <2>2, VisitPlaces, SignOnBounds
            DEF S!SignOnsInit, SignOnsInv, SignOnTypes, FilesAreDistinct, VisitorsHoldTheFile,
                ClaimsAreApart, OpenedIsSpent
  <1>2. SignOnsInv /\ [Next]_vars => SignOnsInv'
    BY SignOnsStep, SignOnsKept
  <1>3. SignOnsInv => OpenedOnce
    BY DEF SignOnsInv, OpenedIsSpent, OpenedOnce, S!OpenedOnce
  <1> QED BY <1>1, <1>2, <1>3, PTL DEF Spec

-----------------------------------------------------------------------------
(***************************************************************************)
(* Lists of steps.                                                         *)
(***************************************************************************)
\* What is left of a list from its i-th step on.
From(s, i) == SubSeq(s, i, Len(s))

LEMMA Rest ==
  ASSUME NEW Items, NEW s \in Seq(Items)
  PROVE  /\ From(s, 1) = s /\ From(s, Len(s) + 1) = <<>>
         /\ \A i \in 1..Len(s) : /\ From(s, i) # <<>> /\ Head(From(s, i)) = s[i]
                                 /\ Tail(From(s, i)) = From(s, i + 1)
         /\ \A i \in 1..Len(s) + 1 : From(s, i) \in Seq(Items)
  <1>1. Len(s) \in Nat
    BY LenProperties
  <1>2. From(s, 1) = s /\ From(s, Len(s) + 1) = <<>>
    BY <1>1, SubSeqFull, SubSeqEmpty DEF From
  <1>3. ASSUME NEW i \in 1..Len(s)
        PROVE  From(s, i) # <<>> /\ Head(From(s, i)) = s[i] /\ Tail(From(s, i)) = From(s, i + 1)
    <2>1. Len(s) \in i..Len(s)
      BY <1>1
    <2>2. Head(From(s, i)) = s[i] /\ Tail(From(s, i)) = From(s, i + 1)
      BY <2>1, HeadTailOfSubSeq DEF From
    <2>3. \A j \in i..Len(s) : s[j] \in Items
      BY <1>1, ElementOfSeq
    <2>4. Len(From(s, i)) = Len(s) - i + 1
      BY <1>1, <2>3, SubSeqProperties DEF From
    <2> QED BY <1>1, <2>2, <2>4, EmptySeq
  <1>4. ASSUME NEW i \in 1..Len(s) + 1 PROVE From(s, i) \in Seq(Items)
    <2>1. \A j \in i..Len(s) : s[j] \in Items
      BY <1>1, ElementOfSeq
    <2> QED BY <1>1, <2>1, SubSeqProperties DEF From
  <1> QED BY <1>2, <1>3, <1>4

\* A step put before a list.
LEMMA Before ==
  ASSUME NEW Items, NEW s \in Seq(Items), NEW e \in Items
  PROVE  <<e>> \o s \in Seq(Items) /\ <<>> \o s = s /\ s \o <<e>> \in Seq(Items) /\ s \o <<>> = s
  <1>1. <<e>> \in Seq(Items)
    OBVIOUS
  <1> QED BY <1>1, ConcatProperties, ConcatEmptySeq

-----------------------------------------------------------------------------
(***************************************************************************)
(* The commands of root.  First what is true under any of them: the key is *)
(* the one of every copy of the database, and a configuration comes after  *)
(* the certificate and the key and before the units; an installation has   *)
(* done the steps that it does not have to do any more.                    *)
(***************************************************************************)
InstallSteps == {"mark", "packages", "binary", "certificate", "key", "config", "units", "restart",
                 "finish"}
UpgradeSteps == {"reconcile", "stop", "checkpoint", "save", "replace", "units", "start", "ready",
                 "restart old", "rollback", "restore"}
AccessSteps  == {"route", "unroute", "unlink", "http", "certbot", "https", "config",
                 "restart panel", "unconfig", "reroute", "remove route", "unproxy"}
AllSteps     == InstallSteps \cup UpgradeSteps \cup AccessSteps
Ways         == {"local", "public", "tailscale", "domain"}

Datum     == [rows : Nat, schema : Nat, key : Nat]
Places    == {"none", "local", "public"}
Proxies   == {"none", "http", "https"}
Addresses == [config : Places, proxy : Proxies, link : BOOLEAN, nginx : Proxies, route : BOOLEAN,
              listens : Places]
Earlier   == [binary : Nat, units : Nat, address : Addresses, installed : BOOLEAN]
Command   == [kind : {"install", "upgrade", "access"}, to : Versions \cup Ways,
              todo : Seq(AllSteps), undo : Seq(AllSteps), ok : BOOLEAN, stuck : BOOLEAN,
              before : Earlier, saved : Datum, at : Datum]

DiskTyped     == /\ key \in Nat /\ tls \in {"none", "certificate", "pair"}
                 /\ binary \in Nat /\ units \in Nat /\ config \in Places
AccessTyped   == /\ proxy \in Proxies /\ nginx \in Proxies /\ link \in BOOLEAN /\ route \in BOOLEAN
ServicesTyped == broker \in Nat /\ panel \in Nat /\ listens \in Places
DataTyped     == file \in Datum /\ wal \in Datum
CommandTyped  == commands \in Nat /\ (cmd = H!NoCommand \/ (cmd \in Command /\ commands # 0))
HostTypes     == DiskTyped /\ AccessTyped /\ ServicesTyped /\ DataTyped /\ CommandTyped

\* Data and the key its secrets are encrypted with.
Keyed(d) == d # H!None => d.key = key /\ key # 0

DataKept   == Keyed(file) /\ Keyed(wal) /\ Keyed(cmd.saved)
ConfigKept ==
    /\ config = "none" => file = H!None /\ wal = H!None
    /\ config # "none" => tls = "pair" /\ key # 0 /\ (marker \/ units # 0)

InstallAt(i) ==
    /\ cmd.todo = From(H!Install, i)
    /\ 1 < i /\ i < 10 => marker
    /\ 4 < i => tls = "pair"
    /\ 5 < i => key # 0
    /\ 6 < i => config # "none"
    /\ 7 < i => units # 0
    /\ 8 < i => panel = binary /\ broker = binary
    /\ 9 < i => ~marker

Installing ==
    cmd.kind = "install" =>
        /\ cmd.to \in Versions
        /\ cmd.before.installed => config # "none"
        /\ cmd.ok => \E i \in 1..10 : InstallAt(i)
        /\ ~cmd.ok => cmd.todo = <<>>

Upgrading ==
    cmd.kind = "upgrade" =>
        /\ cmd.to \in Versions
        /\ config # "none" /\ (marker \/ cmd.before.units # 0)
        /\ cmd.todo \in Seq(UpgradeSteps) /\ cmd.undo \in Seq(UpgradeSteps)

Accessing ==
    cmd.kind = "access" =>
        /\ config # "none" /\ cmd.before.address.config # "none"
        /\ cmd.todo \in Seq(AccessSteps) /\ cmd.undo \in Seq(AccessSteps)

HostInv == HostTypes /\ DataKept /\ ConfigKept /\ Installing /\ Upgrading /\ Accessing

LEMMA VersionsAreNumbers == \A v \in Versions : v \in Nat /\ v # 0
  BY HostAssumption DEF H!HostAssumption

LEMMA InstallList ==
  /\ H!Install \in Seq(InstallSteps) /\ Len(H!Install) = 9
  /\ H!Install[1] = "mark" /\ H!Install[2] = "packages" /\ H!Install[3] = "binary"
  /\ H!Install[4] = "certificate" /\ H!Install[5] = "key" /\ H!Install[6] = "config"
  /\ H!Install[7] = "units" /\ H!Install[8] = "restart" /\ H!Install[9] = "finish"
  <1>1. H!Install \in Seq(InstallSteps)
    BY DEF H!Install, InstallSteps
  <1> QED BY <1>1 DEF H!Install

LEMMA InstallRest ==
  /\ From(H!Install, 1) = H!Install /\ From(H!Install, 10) = <<>>
  /\ \A i \in 1..9 : /\ From(H!Install, i) # <<>> /\ Head(From(H!Install, i)) = H!Install[i]
                     /\ Tail(From(H!Install, i)) = From(H!Install, i + 1)
  /\ \A i \in 1..10 : From(H!Install, i) \in Seq(AllSteps)
  <1>1. H!Install \in Seq(AllSteps) /\ Len(H!Install) = 9
    BY InstallList, SeqMonotonic DEF AllSteps
  <1>2. Len(H!Install) + 1 = 10
    BY <1>1
  <1> HIDE DEF InstallSteps
  <1> QED BY <1>1, <1>2, Rest

\* The command that is not there.
LEMMA NoCommandFields ==
  /\ H!NoCommand.kind = "none" /\ H!NoCommand.todo = <<>> /\ H!NoCommand.saved = H!None
  /\ H!NoCommand.ok = TRUE /\ H!NoCommand.undo = <<>> /\ H!NoCommand.at = H!None
  /\ H!NoCommand.stuck = FALSE
  BY DEF H!NoCommand

LEMMA NoData == H!None \in Datum /\ H!None.key = 0 /\ H!None.rows = 0 /\ H!None.schema = 0
  BY DEF H!None, Datum

\* A command with a step to do is one of the three, and its steps are of its kind.
LEMMA StepsOfKind ==
  ASSUME HostInv, cmd.todo # <<>>
  PROVE  /\ cmd \in Command
         /\ cmd.kind = "install" => Head(cmd.todo) \in InstallSteps /\ cmd.ok
         /\ cmd.kind = "upgrade" => Head(cmd.todo) \in UpgradeSteps /\ Tail(cmd.todo) \in Seq(UpgradeSteps)
         /\ cmd.kind = "access" => Head(cmd.todo) \in AccessSteps /\ Tail(cmd.todo) \in Seq(AccessSteps)
         /\ cmd.kind \in {"install", "upgrade", "access"}
  <1>1. cmd \in Command
    BY NoCommandFields DEF HostInv, HostTypes, CommandTyped
  <1>2. cmd.kind \in {"install", "upgrade", "access"} /\ cmd.ok \in BOOLEAN
    BY <1>1 DEF Command
  <1>3. ASSUME cmd.kind = "install" PROVE Head(cmd.todo) \in InstallSteps /\ cmd.ok
    <2>1. cmd.ok
      BY <1>2, <1>3 DEF HostInv, Installing
    <2>2. PICK i \in 1..10 : cmd.todo = From(H!Install, i)
      BY <1>3, <2>1 DEF HostInv, Installing, InstallAt
    <2>3. i \in 1..9
      BY <2>2, InstallRest
    <2>4. H!Install[i] \in InstallSteps
      BY <2>3, InstallList, ElementOfSeq
    <2> QED BY <2>1, <2>2, <2>3, <2>4, InstallRest
  <1>4. cmd.kind = "upgrade" => Head(cmd.todo) \in UpgradeSteps /\ Tail(cmd.todo) \in Seq(UpgradeSteps)
    BY HeadTailProperties DEF HostInv, Upgrading
  <1>5. cmd.kind = "access" => Head(cmd.todo) \in AccessSteps /\ Tail(cmd.todo) \in Seq(AccessSteps)
    BY HeadTailProperties DEF HostInv, Accessing
  <1> QED BY <1>1, <1>2, <1>3, <1>4, <1>5

LEMMA StepsAreApart ==
  ASSUME HostInv
  PROVE  /\ H!InstallStep => cmd.kind = "install" \/ (cmd.kind = "upgrade" /\ H!WriteUnits)
         /\ H!UpgradeStep => cmd.kind = "upgrade"
         /\ H!AccessStep => cmd.kind = "access"
  <1>1. H!InstallStep => cmd.kind = "install" \/ (cmd.kind = "upgrade" /\ H!WriteUnits)
    BY StepsOfKind
       DEF H!InstallStep, H!Step, H!Kind, H!beginInstall, H!installPackages, H!installExecutable,
           H!ensurePanelCertificate, H!ensureSecretKey, H!installConfig, H!WriteUnits,
           H!finishInstallation, UpgradeSteps, AccessSteps
  <1>2. H!UpgradeStep => cmd.kind = "upgrade"
    BY StepsOfKind
       DEF H!UpgradeStep, H!Step, H!reconcile, H!stopServices, H!checkpointSQLite, H!copyFile,
           H!replaceFile, H!startServices, H!waitForPanel, H!restartOld, H!rollback, H!restore,
           InstallSteps, AccessSteps
  <1>3. H!AccessStep => cmd.kind = "access"
    BY StepsOfKind
       DEF H!AccessStep, H!Step, H!Kind, H!removePanelTailscale, H!addRoute, H!disableProxy,
           H!configureDomain, H!writeProxy, H!certbot, H!accessConfig, H!restartPanel,
           H!restoreConfig, H!restoreRoute, H!restoreProxy, InstallSteps, UpgradeSteps
  <1> QED BY <1>1, <1>2, <1>3

\* The two forms of the database, and what the services make of it.
LEMMA LiveData ==
  ASSUME HostTypes
  PROVE  /\ H!Live \in Datum
         /\ Keyed(file) /\ Keyed(wal) => Keyed(H!Live)
         /\ H!Live = H!None <=> file = H!None /\ wal = H!None
  BY DEF HostTypes, DataTyped, H!Live, Keyed

LEMMA MigratedData ==
  ASSUME HostTypes, Keyed(file), Keyed(wal), key # 0, NEW v \in Nat
  PROVE  /\ H!Migrated(v) \in Datum /\ H!Migrated(v).key = key /\ H!Migrated(v) # H!None
         /\ H!Live # H!None => /\ H!Migrated(v).rows = H!Live.rows
                               /\ H!Migrated(v).schema = IF H!Live.schema < v THEN v
                                                                           ELSE H!Live.schema
  <1>1. H!Live \in Datum /\ (H!Live # H!None => H!Live.key = key) /\ key \in Nat
    BY LiveData DEF Keyed, HostTypes, DiskTyped
  <1>2. CASE H!Live = H!None
    <2>1. H!Migrated(v) = [rows |-> 0, schema |-> v, key |-> key]
      BY <1>2 DEF H!Migrated
    <2> QED BY <1>1, <1>2, <2>1, NoData DEF Datum
  <1>3. CASE H!Live # H!None
    <2>1. H!Migrated(v) = [H!Live EXCEPT !.schema = IF H!Live.schema < v THEN v ELSE H!Live.schema]
      BY <1>1, <1>3 DEF H!Migrated, Datum
    <2>2. \A d \in Datum, n \in Nat : /\ [d EXCEPT !.schema = n] \in Datum
                                      /\ [d EXCEPT !.schema = n].key = d.key
                                      /\ [d EXCEPT !.schema = n].rows = d.rows
                                      /\ [d EXCEPT !.schema = n].schema = n
      BY DEF Datum
    <2>3. (IF H!Live.schema < v THEN v ELSE H!Live.schema) \in Nat
      BY <1>1 DEF Datum
    <2>4. /\ H!Migrated(v) \in Datum /\ H!Migrated(v).key = H!Live.key
          /\ H!Migrated(v).rows = H!Live.rows
          /\ H!Migrated(v).schema = IF H!Live.schema < v THEN v ELSE H!Live.schema
      BY <1>1, <2>1, <2>2, <2>3
    <2> QED BY <1>1, <1>3, <2>4, NoData
  <1> QED BY <1>2, <1>3

LEMMA Starting ==
  ASSUME HostTypes, Keyed(file), Keyed(wal), key # 0, H!StartServices
  PROVE  /\ broker' = binary /\ panel' = binary /\ listens' = config /\ file' = file
         /\ wal' \in Datum /\ wal'.key = key /\ wal' # H!None /\ wal' = H!Migrated(binary)
  BY MigratedData DEF H!StartServices, HostTypes, DiskTyped

LEMMA Stopping ==
  ASSUME HostTypes, H!StopServices
  PROVE  /\ broker' = 0 /\ panel' = 0 /\ listens' = "none"
         /\ \/ file' = file /\ wal' = wal
            \/ wal # H!None /\ file' = wal /\ wal' = H!None
         /\ H!Live' = H!Live
  BY DEF H!StopServices, H!database, H!Live

\* An installation goes on to its next step.
LEMMA InstallPosition ==
  ASSUME HostInv, cmd.kind = "install", cmd.todo # <<>>
  PROVE  /\ cmd \in Command /\ cmd.to \in Versions /\ cmd.ok
         /\ cmd.before.installed => config # "none"
         /\ \E i \in 1..9 : InstallAt(i) /\ Head(cmd.todo) = H!Install[i]
  <1>1. cmd \in Command /\ cmd.ok /\ cmd.to \in Versions
    BY StepsOfKind DEF HostInv, Installing
  <1>2. PICK i \in 1..10 : InstallAt(i)
    BY <1>1 DEF HostInv, Installing
  <1>3. cmd.todo = From(H!Install, i)
    BY <1>2 DEF InstallAt
  <1>4. i \in 1..9
    BY <1>3, InstallRest
  <1>5. Head(cmd.todo) = H!Install[i]
    BY <1>3, <1>4, InstallRest
  <1> QED BY <1>1, <1>2, <1>4, <1>5 DEF HostInv, Installing

LEMMA InstallAdvances ==
  ASSUME cmd \in Command, NEW i \in 1..9, cmd.todo = From(H!Install, i), H!Advance
  PROVE  /\ cmd' \in Command /\ cmd'.todo = From(H!Install, i + 1)
         /\ cmd'.kind = cmd.kind /\ cmd'.to = cmd.to /\ cmd'.ok = cmd.ok
         /\ cmd'.before = cmd.before /\ cmd'.saved = cmd.saved
  <1>1. cmd' = [cmd EXCEPT !.todo = From(H!Install, i + 1)]
    BY InstallRest DEF H!Advance, Command
  <1>2. i + 1 \in 1..10
    OBVIOUS
  <1>3. From(H!Install, i + 1) \in Seq(AllSteps)
    BY <1>2, InstallRest
  <1> QED BY <1>1, <1>3 DEF Command



\* What is left alone stays typed.
LEMMA StayTyped ==
  /\ AccessTyped /\ UNCHANGED H!access => AccessTyped'
  /\ ServicesTyped /\ UNCHANGED H!services => ServicesTyped'
  /\ DataTyped /\ UNCHANGED H!database => DataTyped'
  /\ DiskTyped /\ UNCHANGED H!disk => DiskTyped'
  BY DEF AccessTyped, ServicesTyped, DataTyped, DiskTyped, H!access, H!services, H!database, H!disk

LEMMA StayKept ==
  ASSUME DataKept, cmd'.saved = cmd.saved, key' = key
  PROVE  /\ UNCHANGED H!database => DataKept'
         /\ Keyed(file)' /\ Keyed(wal)' => DataKept'
  BY DEF DataKept, Keyed, H!database

LEMMA InstallStepKept ==
  ASSUME HostInv, cmd.kind = "install", H!InstallStep
  PROVE  HostInv'
  <1>0. cmd.todo # <<>>
    BY DEF H!InstallStep, H!Step, H!beginInstall, H!installPackages, H!installExecutable,
           H!ensurePanelCertificate, H!ensureSecretKey, H!installConfig, H!WriteUnits,
           H!finishInstallation
  <1>1. /\ cmd \in Command /\ cmd.to \in Versions /\ cmd.ok
        /\ cmd.before.installed => config # "none"
    BY <1>0, InstallPosition
  <1>2. PICK i \in 1..9 : InstallAt(i) /\ Head(cmd.todo) = H!Install[i]
    BY <1>0, InstallPosition
  <1>3. cmd.to \in Nat /\ cmd.to # 0
    BY <1>1, VersionsAreNumbers
  <1>4. /\ DiskTyped /\ AccessTyped /\ ServicesTyped /\ DataTyped /\ commands \in Nat \ {0}
        /\ DataKept /\ ConfigKept
    <2>1. cmd # H!NoCommand
      BY <1>0, NoCommandFields
    <2> QED BY <2>1 DEF HostInv, HostTypes, CommandTyped
  <1>5. ASSUME H!Advance, UNCHANGED commands, DiskTyped', AccessTyped', ServicesTyped', DataTyped',
               DataKept', ConfigKept', InstallAt(i + 1)', config # "none" => config' # "none"
        PROVE  HostInv'
    <2>1. /\ cmd' \in Command /\ cmd'.kind = "install" /\ cmd'.to = cmd.to /\ cmd'.ok
          /\ cmd'.before = cmd.before
      BY <1>1, <1>2, <1>5, InstallAdvances DEF InstallAt
    <2>2. i + 1 \in 1..10
      OBVIOUS
    <2>3. Installing'
      BY <1>1, <1>5, <2>1, <2>2 DEF Installing
    <2>4. HostTypes'
      BY <1>4, <1>5, <2>1 DEF HostTypes, CommandTyped
    <2> QED BY <1>5, <2>1, <2>3, <2>4 DEF HostInv, Upgrading, Accessing
  <1>6. ASSUME H!Advance
        PROVE  cmd'.todo = From(H!Install, i + 1) /\ cmd'.saved = cmd.saved
    BY <1>1, <1>2, <1>6, InstallAdvances DEF InstallAt
  <1>7. CASE H!beginInstall
    <2>1. i = 1
      BY <1>2, <1>7, InstallList DEF H!beginInstall, H!Step
    <2>2. /\ marker' = TRUE /\ H!Advance
          /\ UNCHANGED <<key, tls, binary, units, config, H!database, H!access, H!services, commands>>
      BY <1>7 DEF H!beginInstall
    <2>3. DiskTyped' /\ ConfigKept'
      BY <1>4, <2>2 DEF DiskTyped, ConfigKept, H!database
    <2>4. InstallAt(i + 1)'
      BY <1>6, <2>1, <2>2 DEF InstallAt
    <2> QED BY <1>4, <1>5, <1>6, <2>2, <2>3, <2>4, StayTyped, StayKept
  <1>8. CASE H!installPackages
    <2>1. i = 2
      BY <1>2, <1>8, InstallList DEF H!installPackages, H!Step
    <2>2. H!Advance /\ UNCHANGED <<H!disk, H!database, H!access, H!services, commands>>
      BY <1>8 DEF H!installPackages
    <2>3. ConfigKept' /\ UNCHANGED <<marker, key, config>>
      BY <1>4, <2>2 DEF ConfigKept, H!database, H!disk
    <2>4. InstallAt(i + 1)'
      BY <1>2, <1>6, <2>1, <2>2, <2>3 DEF InstallAt
    <2> QED BY <1>4, <1>5, <1>6, <2>2, <2>3, <2>4, StayTyped, StayKept
  <1>9. CASE H!installExecutable
    <2>1. i = 3
      BY <1>2, <1>9, InstallList DEF H!installExecutable, H!Step
    <2>2. /\ H!Advance /\ binary' = cmd.to
          /\ UNCHANGED <<marker, root, key, tls, units, config, H!database, H!access, H!services,
                         commands>>
      BY <1>9 DEF H!installExecutable
    <2>3. DiskTyped' /\ ConfigKept'
      BY <1>3, <1>4, <2>2 DEF DiskTyped, ConfigKept, H!database
    <2>4. InstallAt(i + 1)'
      BY <1>2, <1>6, <2>1, <2>2 DEF InstallAt
    <2> QED BY <1>4, <1>5, <1>6, <2>2, <2>3, <2>4, StayTyped, StayKept
  <1>10. CASE H!ensurePanelCertificate
    <2>1. i = 4
      BY <1>2, <1>10, InstallList DEF H!ensurePanelCertificate, H!Step
    <2>2. UNCHANGED <<marker, root, key, binary, units, config, H!database, H!access, H!services,
                      commands>>
      BY <1>10 DEF H!ensurePanelCertificate
    <2>3. CASE tls' = "pair" /\ H!Advance
      <3>1. DiskTyped' /\ ConfigKept'
        BY <1>4, <2>2, <2>3 DEF DiskTyped, ConfigKept, H!database
      <3>2. InstallAt(i + 1)'
        BY <1>2, <1>6, <2>1, <2>2, <2>3 DEF InstallAt
      <3> QED BY <1>4, <1>5, <1>6, <2>2, <2>3, <3>1, <3>2, StayTyped, StayKept
    <2>4. CASE /\ tls # "pair" /\ tls' = "certificate"
               /\ cmd' = [cmd EXCEPT !.todo = <<>>, !.ok = FALSE]
      <3>1. /\ cmd' \in Command /\ cmd'.kind = "install" /\ cmd'.to = cmd.to /\ cmd'.todo = <<>>
            /\ cmd'.ok = FALSE /\ cmd'.before = cmd.before /\ cmd'.saved = cmd.saved
        BY <1>1, <2>4, EmptySeq DEF Command
      <3>2. DiskTyped' /\ ConfigKept'
        BY <1>4, <2>2, <2>4 DEF DiskTyped, ConfigKept, H!database
      <3>3. HostTypes' /\ DataKept'
        BY <1>4, <2>2, <3>1, <3>2, StayTyped, StayKept DEF HostTypes, CommandTyped
      <3>4. Installing' /\ Upgrading' /\ Accessing'
        BY <1>1, <2>2, <3>1 DEF Installing, Upgrading, Accessing
      <3> QED BY <3>2, <3>3, <3>4 DEF HostInv
    <2> QED BY <1>10, <2>3, <2>4 DEF H!ensurePanelCertificate
  <1>11. CASE H!ensureSecretKey
    <2>1. i = 5
      BY <1>2, <1>11, InstallList DEF H!ensureSecretKey, H!Step
    <2>2. /\ H!Advance
          /\ UNCHANGED <<marker, root, tls, binary, units, config, H!database, H!access, H!services,
                         commands>>
          /\ \/ key # 0 /\ key' = key
             \/ key = 0 /\ key' = commands
      BY <1>11 DEF H!ensureSecretKey
    <2>3. DiskTyped' /\ ConfigKept' /\ key' # 0
      BY <1>4, <2>2 DEF DiskTyped, ConfigKept, H!database
    <2>4. InstallAt(i + 1)'
      BY <1>2, <1>6, <2>1, <2>2, <2>3 DEF InstallAt
    <2>5. DataKept'
      BY <1>4, <1>6, <2>2 DEF DataKept, Keyed, H!database
    <2> QED BY <1>4, <1>5, <2>2, <2>3, <2>4, <2>5, StayTyped
  <1>12. CASE H!installConfig
    <2>1. i = 6
      BY <1>2, <1>12, InstallList DEF H!installConfig, H!Step
    <2>2. /\ H!Advance /\ config' = IF cmd.before.installed THEN config ELSE "public"
          /\ UNCHANGED <<marker, root, key, tls, binary, units, H!database, H!access, H!services,
                         commands>>
      BY <1>12 DEF H!installConfig, H!saveConfig
    <2>3. config' # "none" /\ DiskTyped'
      BY <1>1, <1>4, <2>2 DEF DiskTyped, Places
    <2>4. tls = "pair" /\ key # 0 /\ marker
      BY <1>2, <2>1 DEF InstallAt
    <2>5. ConfigKept'
      BY <2>2, <2>3, <2>4 DEF ConfigKept
    <2>6. InstallAt(i + 1)'
      BY <1>6, <2>1, <2>2, <2>3, <2>4 DEF InstallAt
    <2> QED BY <1>4, <1>5, <1>6, <2>2, <2>3, <2>5, <2>6, StayTyped, StayKept
  <1>13. CASE H!WriteUnits
    <2>1. i = 7
      BY <1>2, <1>13, InstallList DEF H!WriteUnits, H!Step
    <2>2. /\ H!Advance /\ units' = cmd.to
          /\ UNCHANGED <<marker, root, key, tls, binary, config, H!database, H!access, H!services,
                         commands>>
      BY <1>13 DEF H!WriteUnits
    <2>3. DiskTyped' /\ ConfigKept'
      BY <1>3, <1>4, <2>2 DEF DiskTyped, ConfigKept, H!database
    <2>4. InstallAt(i + 1)'
      BY <1>2, <1>3, <1>6, <2>1, <2>2 DEF InstallAt
    <2> QED BY <1>4, <1>5, <1>6, <2>2, <2>3, <2>4, StayTyped, StayKept
  <1>14. CASE H!finishInstallation
    <2>1. H!Advance /\ UNCHANGED <<root, key, tls, binary, units, config, H!access, commands>>
      BY <1>14 DEF H!finishInstallation
    <2>2. CASE H!Step("restart") /\ H!StartServices /\ UNCHANGED marker
      <3>1. i = 8
        BY <1>2, <2>2, InstallList DEF H!Step
      <3>2. key # 0 /\ config # "none"
        BY <1>2, <3>1 DEF InstallAt
      <3>3. /\ broker' = binary /\ panel' = binary /\ listens' = config /\ file' = file
            /\ wal' \in Datum /\ wal'.key = key
        BY <1>4, <2>2, <3>2, Starting DEF HostInv, DataKept
      <3>4. DiskTyped' /\ ConfigKept' /\ ServicesTyped' /\ DataTyped'
        BY <1>4, <2>1, <2>2, <3>2, <3>3
           DEF DiskTyped, ConfigKept, ServicesTyped, DataTyped
      <3>5. DataKept'
        BY <1>4, <1>6, <2>1, <3>2, <3>3 DEF DataKept, Keyed
      <3>6. InstallAt(i + 1)'
        BY <1>2, <1>6, <2>1, <2>2, <3>1, <3>3 DEF InstallAt
      <3> QED BY <1>4, <1>5, <2>1, <3>4, <3>5, <3>6, StayTyped
    <2>3. CASE H!Step("finish") /\ marker' = FALSE /\ UNCHANGED <<H!services, H!database>>
      <3>1. i = 9
        BY <1>2, <2>3, InstallList DEF H!Step
      <3>2. DiskTyped' /\ ConfigKept'
        BY <1>2, <1>4, <2>1, <2>3, <3>1 DEF DiskTyped, ConfigKept, H!database, InstallAt
      <3>3. InstallAt(i + 1)'
        BY <1>2, <1>6, <2>1, <2>3, <3>1 DEF InstallAt, H!services
      <3> QED BY <1>4, <1>5, <1>6, <2>1, <2>3, <3>2, <3>3, StayTyped, StayKept
    <2> QED BY <1>14, <2>2, <2>3 DEF H!finishInstallation
  <1> QED BY <1>7, <1>8, <1>9, <1>10, <1>11, <1>12, <1>13, <1>14 DEF H!InstallStep

\* A command moves on: it stays the same command, with steps among those in T.
Move(T) == /\ cmd' \in Command /\ cmd'.kind = cmd.kind /\ cmd'.to = cmd.to
           /\ cmd'.before = cmd.before
           /\ cmd'.todo \in Seq(T) /\ cmd'.undo \in Seq(T)

LEMMA EditTodo ==
  ASSUME cmd \in Command, NEW T \in SUBSET AllSteps, cmd.undo \in Seq(T), NEW t \in Seq(T),
         \/ cmd' = [cmd EXCEPT !.todo = t]
         \/ cmd' = [cmd EXCEPT !.todo = t, !.ok = FALSE]
         \/ cmd' = [cmd EXCEPT !.todo = t, !.stuck = TRUE]
  PROVE  /\ Move(T) /\ cmd'.todo = t /\ cmd'.undo = cmd.undo /\ cmd'.saved = cmd.saved
         /\ cmd'.at = cmd.at
         /\ cmd' = [cmd EXCEPT !.todo = t] => cmd'.ok = cmd.ok /\ cmd'.stuck = cmd.stuck
         /\ cmd' = [cmd EXCEPT !.todo = t, !.ok = FALSE] => cmd'.ok = FALSE /\ cmd'.stuck = cmd.stuck
         /\ cmd' = [cmd EXCEPT !.todo = t, !.stuck = TRUE] => cmd'.ok = cmd.ok /\ cmd'.stuck = TRUE
  <1>1. t \in Seq(AllSteps)
    BY SeqMonotonic
  <1> HIDE DEF AllSteps
  <1>2. CASE cmd' = [cmd EXCEPT !.todo = t]
    BY <1>1, <1>2 DEF Command, Move
  <1>3. CASE cmd' = [cmd EXCEPT !.todo = t, !.ok = FALSE]
    BY <1>1, <1>3 DEF Command, Move
  <1>4. CASE cmd' = [cmd EXCEPT !.todo = t, !.stuck = TRUE]
    BY <1>1, <1>4 DEF Command, Move
  <1> QED BY <1>2, <1>3, <1>4

LEMMA EditUndo ==
  ASSUME cmd \in Command, NEW T \in SUBSET AllSteps, NEW t \in Seq(T), NEW u \in Seq(T),
         cmd' = [cmd EXCEPT !.todo = t, !.undo = u]
  PROVE  /\ Move(T) /\ cmd'.todo = t /\ cmd'.undo = u /\ cmd'.saved = cmd.saved
         /\ cmd'.at = cmd.at /\ cmd'.ok = cmd.ok /\ cmd'.stuck = cmd.stuck
  <1>1. t \in Seq(AllSteps) /\ u \in Seq(AllSteps)
    BY SeqMonotonic
  <1> QED BY <1>1 DEF Command, Move

\* A step that is done is taken off the list.
LEMMA Advancing ==
  ASSUME cmd \in Command, NEW T \in SUBSET AllSteps, cmd.todo \in Seq(T), cmd.todo # <<>>,
         cmd.undo \in Seq(T), H!Advance
  PROVE  /\ Move(T) /\ cmd'.todo = Tail(cmd.todo) /\ cmd'.undo = cmd.undo
         /\ cmd'.saved = cmd.saved /\ cmd'.at = cmd.at
         /\ cmd'.ok = cmd.ok /\ cmd'.stuck = cmd.stuck
  <1>1. Tail(cmd.todo) \in Seq(T)
    BY HeadTailProperties
  <1>2. cmd' = [cmd EXCEPT !.todo = Tail(cmd.todo)]
    BY DEF H!Advance, Command
  <1> QED BY <1>1, <1>2, EditTodo

\* A failing step: the first one has what was done undone, a later one is reported.
LEMMA FailingStep ==
  ASSUME cmd \in Command, NEW T \in SUBSET AllSteps, cmd.todo \in Seq(T), cmd.todo # <<>>,
         cmd.undo \in Seq(T), NEW u \in Seq(T), H!Failing(u)
  PROVE  /\ Move(T) /\ cmd'.saved = cmd.saved /\ cmd'.at = cmd.at /\ cmd'.undo = cmd.undo
         /\ cmd'.ok = FALSE
         /\ cmd.ok => cmd'.todo = u \o cmd.undo /\ cmd'.stuck = cmd.stuck
         /\ ~cmd.ok => cmd'.todo = Tail(cmd.todo) /\ cmd'.stuck = TRUE
  <1>1. cmd.ok \in BOOLEAN
    BY DEF Command
  <1>2. CASE cmd.ok
    <2>1. cmd' = [cmd EXCEPT !.todo = u \o cmd.undo, !.ok = FALSE]
      BY <1>2 DEF H!Failing, H!Undoing
    <2>2. u \o cmd.undo \in Seq(T)
      BY ConcatProperties
    <2> QED BY <1>2, <2>1, <2>2, EditTodo
  <1>3. CASE ~cmd.ok
    <2>1. cmd' = [cmd EXCEPT !.todo = Tail(cmd.todo), !.stuck = TRUE]
      BY <1>3 DEF H!Failing, H!Undoing, Command
    <2>2. Tail(cmd.todo) \in Seq(T)
      BY HeadTailProperties
    <2>3. cmd.ok = FALSE
      BY <1>1, <1>3
    <2> QED BY <1>3, <2>1, <2>2, <2>3, EditTodo
  <1> QED BY <1>1, <1>2, <1>3

\* An upgrade goes on.
LEMMA UpgradeGoesOn ==
  ASSUME HostInv, cmd.kind = "upgrade", Move(UpgradeSteps), UNCHANGED <<marker, config, commands>>,
         DiskTyped', AccessTyped', ServicesTyped', DataTyped', DataKept', ConfigKept'
  PROVE  HostInv'
  <1>1. cmd # H!NoCommand
    BY NoCommandFields
  <1>2. HostTypes'
    BY <1>1 DEF HostInv, HostTypes, CommandTyped, Move
  <1>3. Upgrading' /\ Installing' /\ Accessing'
    BY DEF HostInv, Upgrading, Installing, Accessing, Move
  <1> QED BY <1>2, <1>3 DEF HostInv

LEMMA UpgradeStepKept ==
  ASSUME HostInv, cmd.kind = "upgrade", H!UpgradeStep \/ H!WriteUnits
  PROVE  HostInv'
  <1>0. cmd.todo # <<>>
    BY DEF H!UpgradeStep, H!Step, H!reconcile, H!stopServices, H!checkpointSQLite, H!copyFile,
           H!replaceFile, H!startServices, H!waitForPanel, H!restartOld, H!rollback, H!restore,
           H!WriteUnits
  <1>1. /\ cmd \in Command /\ cmd.to \in Versions
        /\ cmd.todo \in Seq(UpgradeSteps) /\ cmd.undo \in Seq(UpgradeSteps)
        /\ config # "none" /\ (marker \/ cmd.before.units # 0)
        /\ Tail(cmd.todo) \in Seq(UpgradeSteps)
    BY <1>0, StepsOfKind DEF HostInv, Upgrading
  <1>2. /\ HostTypes /\ DiskTyped /\ AccessTyped /\ ServicesTyped /\ DataTyped
        /\ DataKept /\ ConfigKept /\ Keyed(file) /\ Keyed(wal)
        /\ key # 0 /\ binary \in Nat /\ file \in Datum /\ wal \in Datum
    BY <1>1 DEF HostInv, HostTypes, ConfigKept, DataKept, DiskTyped, DataTyped
  <1>3. cmd.to \in Nat /\ cmd.to # 0
    BY <1>1, VersionsAreNumbers
  <1>4. /\ cmd.before.binary \in Nat /\ cmd.before.units \in Nat /\ cmd.saved \in Datum
        /\ H!Live \in Datum
    BY <1>1, <1>2, LiveData DEF Command, Earlier
  <1>5. UpgradeSteps \in SUBSET AllSteps /\ <<>> \in Seq(UpgradeSteps)
        /\ <<"restart old">> \in Seq(UpgradeSteps) /\ <<"rollback">> \in Seq(UpgradeSteps)
        /\ <<"restore">> \in Seq(UpgradeSteps)
    BY DEF UpgradeSteps, AllSteps
  <1>6. H!Advance => Move(UpgradeSteps) /\ cmd'.saved = cmd.saved
    BY <1>0, <1>1, <1>5, Advancing
  <1>7. H!Failing(<<>>) => Move(UpgradeSteps) /\ cmd'.saved = cmd.saved
    BY <1>0, <1>1, <1>5, FailingStep
  <1> HIDE DEF UpgradeSteps, AllSteps
  <1>8. UNCHANGED H!disk => DiskTyped' /\ UNCHANGED <<marker, config>>
    BY <1>2, StayTyped DEF H!disk
  <1>9. ASSUME H!StartServices
        PROVE  /\ ServicesTyped' /\ DataTyped'
               /\ (key' = key /\ cmd'.saved = cmd.saved) => DataKept'
    <2>1. /\ broker' = binary /\ panel' = binary /\ listens' = config /\ file' = file
          /\ wal' \in Datum /\ wal'.key = key
      BY <1>2, <1>9, Starting
    <2> QED BY <1>2, <2>1 DEF ServicesTyped, DataTyped, DiskTyped, DataKept, Keyed
  <1>10. ASSUME H!StopServices
         PROVE  /\ ServicesTyped' /\ DataTyped'
                /\ (key' = key /\ cmd'.saved = cmd.saved) => DataKept'
    <2>1. /\ broker' = 0 /\ panel' = 0 /\ listens' = "none"
          /\ \/ file' = file /\ wal' = wal
             \/ wal # H!None /\ file' = wal /\ wal' = H!None
      BY <1>2, <1>10, Stopping
    <2> QED BY <1>2, <2>1, NoData DEF ServicesTyped, DataTyped, Places, DataKept, Keyed
  <1>11. ASSUME UNCHANGED <<marker, key, tls, units, config>> PROVE ConfigKept'
    BY <1>1, <1>2, <1>11 DEF ConfigKept
  <1>12. CASE H!reconcile \/ H!waitForPanel
    <2>1. H!Advance /\ UNCHANGED <<H!disk, H!database, H!access, H!services, commands>>
      BY <1>12 DEF H!reconcile, H!waitForPanel
    <2>2. UNCHANGED <<marker, key, tls, units, config>>
      BY <2>1 DEF H!disk
    <2> QED BY <1>2, <1>6, <1>8, <1>11, <2>1, <2>2, StayTyped, StayKept, UpgradeGoesOn
  <1>13. CASE H!stopServices
    <2>1. UNCHANGED <<H!disk, H!access, commands>>
      BY <1>13 DEF H!stopServices
    <2>2. UNCHANGED <<marker, key, tls, units, config>>
      BY <2>1 DEF H!disk
    <2>3. Move(UpgradeSteps) /\ cmd'.saved = cmd.saved
      <3>1. \/ cmd' = [cmd EXCEPT !.todo = Tail(@), !.undo = <<"restart old">>, !.at = H!Live]
            \/ cmd' = [cmd EXCEPT !.todo = <<"restart old">>, !.ok = FALSE, !.at = H!Live]
        BY <1>13 DEF H!stopServices
      <3>2. /\ Tail(cmd.todo) \in Seq(AllSteps) /\ <<"restart old">> \in Seq(AllSteps)
        BY <1>1, <1>5, SeqMonotonic
      <3>3. CASE cmd' = [cmd EXCEPT !.todo = Tail(@), !.undo = <<"restart old">>, !.at = H!Live]
        BY <1>1, <1>4, <1>5, <3>2, <3>3 DEF Command, Move
      <3>4. CASE cmd' = [cmd EXCEPT !.todo = <<"restart old">>, !.ok = FALSE, !.at = H!Live]
        BY <1>1, <1>4, <1>5, <3>2, <3>4 DEF Command, Move
      <3> QED BY <3>1, <3>3, <3>4
    <2>4. \/ H!StopServices
          \/ UNCHANGED <<H!services, H!database>>
          \/ panel' = 0 /\ listens' = "none" /\ UNCHANGED <<broker, H!database>>
      BY <1>13 DEF H!stopServices
    <2>5. ServicesTyped' /\ DataTyped' /\ DataKept'
      <3>1. CASE H!StopServices
        BY <1>10, <2>2, <2>3, <3>1
      <3>2. CASE UNCHANGED <<H!services, H!database>>
        BY <1>2, <2>2, <2>3, <3>2, StayTyped, StayKept
      <3>3. CASE panel' = 0 /\ listens' = "none" /\ UNCHANGED <<broker, H!database>>
        BY <1>2, <2>2, <2>3, <3>3, StayTyped, StayKept DEF ServicesTyped, Places
      <3> QED BY <2>4, <3>1, <3>2, <3>3
    <2> QED BY <1>2, <1>8, <1>11, <2>1, <2>2, <2>3, <2>5, StayTyped, UpgradeGoesOn
  <1>14. CASE H!checkpointSQLite
    <2>1. /\ file' = H!Live /\ wal' = H!None /\ H!Advance
          /\ UNCHANGED <<H!disk, H!access, H!services, commands>>
      BY <1>14 DEF H!checkpointSQLite
    <2>2. UNCHANGED <<marker, key, tls, units, config>>
      BY <2>1 DEF H!disk
    <2>3. DataTyped' /\ DataKept'
      BY <1>2, <1>4, <1>6, <2>1, <2>2, LiveData, NoData DEF DataTyped, DataKept, Keyed
    <2> QED BY <1>2, <1>6, <1>8, <1>11, <2>1, <2>2, <2>3, StayTyped, UpgradeGoesOn
  <1>15. CASE H!copyFile
    <2>1. /\ cmd' = [cmd EXCEPT !.todo = Tail(@), !.saved = file]
          /\ UNCHANGED <<H!disk, H!database, H!access, H!services, commands>>
      BY <1>15 DEF H!copyFile
    <2>2. UNCHANGED <<marker, key, tls, units, config>>
      BY <2>1 DEF H!disk
    <2>3. Move(UpgradeSteps) /\ cmd'.saved = file
      <3>1. Tail(cmd.todo) \in Seq(AllSteps)
        BY <1>1, <1>5, SeqMonotonic
      <3> QED BY <1>1, <1>2, <2>1, <3>1 DEF Command, Move
    <2>4. DataKept'
      BY <1>2, <2>1, <2>2, <2>3 DEF DataKept, Keyed, H!database
    <2> QED BY <1>2, <1>8, <1>11, <2>1, <2>2, <2>3, <2>4, StayTyped, UpgradeGoesOn
  <1>16. CASE H!replaceFile
    <2>1. /\ cmd' = [cmd EXCEPT !.todo = Tail(@), !.undo = <<"rollback">>] /\ binary' = cmd.to
          /\ UNCHANGED <<marker, root, key, tls, units, config, H!database, H!access, H!services,
                         commands>>
      BY <1>16 DEF H!replaceFile
    <2>2. Move(UpgradeSteps) /\ cmd'.saved = cmd.saved
      <3>1. cmd' = [cmd EXCEPT !.todo = Tail(cmd.todo), !.undo = <<"rollback">>]
        BY <1>1, <2>1 DEF Command
      <3> QED BY <1>1, <1>5, <3>1, EditUndo
    <2>3. DiskTyped'
      BY <1>2, <1>3, <2>1 DEF DiskTyped
    <2> QED BY <1>2, <1>11, <2>1, <2>2, <2>3, StayTyped, StayKept, UpgradeGoesOn
  <1>17. CASE H!WriteUnits
    <2>1. /\ H!Advance /\ units' = cmd.to
          /\ UNCHANGED <<marker, root, key, tls, binary, config, H!database, H!access, H!services,
                         commands>>
      BY <1>17 DEF H!WriteUnits
    <2>2. DiskTyped' /\ ConfigKept'
      BY <1>1, <1>2, <1>3, <2>1 DEF DiskTyped, ConfigKept
    <2> QED BY <1>2, <1>6, <2>1, <2>2, StayTyped, StayKept, UpgradeGoesOn
  <1>18. CASE H!startServices \/ H!restartOld
    <2>1. /\ UNCHANGED <<H!disk, H!access, commands>>
          /\ H!Advance \/ H!Failing(<<>>)
          /\ H!StartServices \/ UNCHANGED <<H!services, H!database>>
      BY <1>18 DEF H!startServices, H!restartOld
    <2>2. UNCHANGED <<marker, key, tls, units, config>>
      BY <2>1 DEF H!disk
    <2>3. Move(UpgradeSteps) /\ cmd'.saved = cmd.saved
      BY <1>6, <1>7, <2>1
    <2>4. ServicesTyped' /\ DataTyped' /\ DataKept'
      BY <1>2, <1>9, <2>1, <2>2, <2>3, StayTyped, StayKept
    <2> QED BY <1>2, <1>8, <1>11, <2>1, <2>2, <2>3, <2>4, StayTyped, UpgradeGoesOn
  <1>19. CASE H!rollback
    <2>1. /\ UNCHANGED <<H!disk, H!access, commands>>
          /\ \/ H!StopServices /\ cmd' = [cmd EXCEPT !.todo = <<"restore">>]
             \/ H!Failing(<<>>) /\ UNCHANGED <<H!services, H!database>>
      BY <1>19 DEF H!rollback
    <2>2. UNCHANGED <<marker, key, tls, units, config>>
      BY <2>1 DEF H!disk
    <2>3. Move(UpgradeSteps) /\ cmd'.saved = cmd.saved
      BY <1>1, <1>5, <1>7, <2>1, EditTodo
    <2>4. ServicesTyped' /\ DataTyped' /\ DataKept'
      BY <1>2, <1>10, <2>1, <2>2, <2>3, StayTyped, StayKept
    <2> QED BY <1>2, <1>8, <1>11, <2>1, <2>2, <2>3, <2>4, StayTyped, UpgradeGoesOn
  <1>20. CASE H!restore
    <2>1. /\ binary' \in {binary, cmd.before.binary} /\ units' \in {units, cmd.before.units}
          /\ file' \in {file, cmd.saved} /\ wal' \in {wal, H!None}
          /\ UNCHANGED <<marker, root, key, tls, config, H!access, H!services, commands>>
          /\ cmd' = [cmd EXCEPT !.todo = <<"restart old">>] \/ H!Failing(<<>>)
      BY <1>20 DEF H!restore
    <2>2. Move(UpgradeSteps) /\ cmd'.saved = cmd.saved
      BY <1>1, <1>5, <1>7, <2>1, EditTodo
    <2>3. DiskTyped' /\ ConfigKept'
      BY <1>1, <1>2, <1>4, <2>1 DEF DiskTyped, ConfigKept
    <2>4. DataTyped' /\ DataKept'
      BY <1>2, <1>4, <2>1, <2>2, NoData DEF DataTyped, DataKept, Keyed
    <2> QED BY <1>2, <2>1, <2>2, <2>3, <2>4, StayTyped, UpgradeGoesOn
  <1> QED BY <1>12, <1>13, <1>14, <1>15, <1>16, <1>17, <1>18, <1>19, <1>20 DEF H!UpgradeStep

\* A change of access goes on.
LEMMA AccessGoesOn ==
  ASSUME HostInv, cmd.kind = "access", Move(AccessSteps), UNCHANGED commands, config' # "none",
         DiskTyped', AccessTyped', ServicesTyped', DataTyped', DataKept', ConfigKept'
  PROVE  HostInv'
  <1>1. cmd # H!NoCommand
    BY NoCommandFields
  <1>2. HostTypes'
    BY <1>1 DEF HostInv, HostTypes, CommandTyped, Move
  <1>3. Upgrading' /\ Installing' /\ Accessing'
    BY DEF HostInv, Upgrading, Installing, Accessing, Move
  <1> QED BY <1>2, <1>3 DEF HostInv

\* A command of access keeps what it has done on a list: every form of that list.
LEMMA AccessMoves ==
  ASSUME HostInv, cmd.kind = "access", H!AccessStep
  PROVE  /\ cmd \in Command /\ cmd.todo # <<>> /\ cmd.todo \in Seq(AccessSteps)
         /\ cmd.undo \in Seq(AccessSteps) /\ Tail(cmd.todo) \in Seq(AccessSteps)
         /\ Move(AccessSteps) /\ cmd'.saved = cmd.saved /\ UNCHANGED commands
  <1>0. cmd.todo # <<>> /\ UNCHANGED commands
    BY DEF H!AccessStep, H!Step, H!removePanelTailscale, H!addRoute, H!disableProxy,
           H!configureDomain, H!writeProxy, H!certbot, H!accessConfig, H!restartPanel,
           H!restoreConfig, H!restoreRoute, H!restoreProxy
  <1>1. /\ cmd \in Command
        /\ cmd.todo \in Seq(AccessSteps) /\ cmd.undo \in Seq(AccessSteps)
        /\ Tail(cmd.todo) \in Seq(AccessSteps)
    BY <1>0, StepsOfKind DEF HostInv, Accessing
  <1>2. AccessSteps \in SUBSET AllSteps
        /\ {"unconfig", "unproxy", "reroute", "remove route", "restart panel"} \subseteq AccessSteps
    BY DEF AccessSteps, AllSteps
  <1> HIDE DEF AccessSteps, AllSteps
  <1>3. <<>> \in Seq(AccessSteps)
    BY EmptySeq
  <1>4. \A e \in {"unconfig", "unproxy", "reroute", "remove route", "restart panel"} :
           /\ <<e>> \in Seq(AccessSteps)
           /\ <<e>> \o cmd.undo \in Seq(AccessSteps) /\ cmd.undo \o <<e>> \in Seq(AccessSteps)
           /\ <<e>> \o Tail(cmd.todo) \in Seq(AccessSteps)
    <2>1. ASSUME NEW e \in AccessSteps
          PROVE  /\ <<e>> \in Seq(AccessSteps)
                 /\ <<e>> \o cmd.undo \in Seq(AccessSteps) /\ cmd.undo \o <<e>> \in Seq(AccessSteps)
                 /\ <<e>> \o Tail(cmd.todo) \in Seq(AccessSteps)
      <3>1. <<e>> \in Seq(AccessSteps)
        OBVIOUS
      <3> QED BY <1>1, <3>1, Before
    <2> QED BY <1>2, <2>1
  <1>5. <<>> \o cmd.undo \in Seq(AccessSteps)
    BY <1>1, Before
  <1> DEFINE OK == Move(AccessSteps) /\ cmd'.saved = cmd.saved
  <1>6. H!Advance => OK
    BY <1>0, <1>1, <1>2, Advancing
  <1>7. H!Failing(<<>>) => OK
    BY <1>0, <1>1, <1>2, <1>3, FailingStep
  <1>8. ASSUME NEW u \in Seq(AccessSteps), u \o cmd.undo \in Seq(AccessSteps), H!AdvanceUndoing(u)
        PROVE  OK
    <2>1. cmd' = [cmd EXCEPT !.todo = Tail(cmd.todo), !.undo = u \o cmd.undo]
      BY <1>1, <1>8 DEF H!AdvanceUndoing, Command
    <2> QED BY <1>1, <1>2, <1>8, <2>1, EditUndo
  <1>9. ASSUME NEW t \in Seq(AccessSteps), cmd' = [cmd EXCEPT !.todo = t, !.ok = FALSE] PROVE OK
    BY <1>1, <1>2, <1>9, EditTodo
  <1>10. ASSUME NEW u \in Seq(AccessSteps), cmd' = [cmd EXCEPT !.todo = Tail(cmd.todo), !.undo = u]
         PROVE  OK
    BY <1>1, <1>2, <1>10, EditUndo
  <1>11. H!removePanelTailscale => OK
    BY <1>3, <1>4, <1>5, <1>8 DEF H!removePanelTailscale
  <1>12. H!addRoute => OK
    BY <1>3, <1>4, <1>5, <1>8 DEF H!addRoute
  <1>13. ASSUME H!disableProxy PROVE OK
    <2>1. \/ H!Advance
          \/ cmd' = [cmd EXCEPT !.todo = Tail(@), !.undo = @ \o <<"unproxy">>]
          \/ cmd' = [cmd EXCEPT !.todo = cmd.undo \o <<"unproxy">>, !.ok = FALSE]
      BY <1>13 DEF H!disableProxy
    <2>2. CASE cmd' = [cmd EXCEPT !.todo = Tail(@), !.undo = @ \o <<"unproxy">>]
      <3>1. cmd' = [cmd EXCEPT !.todo = Tail(cmd.todo), !.undo = cmd.undo \o <<"unproxy">>]
        BY <1>1, <2>2 DEF Command
      <3> QED BY <1>4, <1>10, <3>1
    <2> QED BY <1>4, <1>6, <1>9, <2>1, <2>2
  <1>14. ASSUME NEW step, NEW content, H!writeProxy(step, content) PROVE OK
    <2>1. \/ cmd' = [cmd EXCEPT !.todo = Tail(@),
                        !.undo = IF step = "http" THEN @ \o <<"unproxy">> ELSE @]
          \/ cmd' = [cmd EXCEPT !.ok = FALSE,
                        !.todo = IF step = "http" THEN cmd.undo \o <<"unproxy">> ELSE cmd.undo]
      BY <1>14 DEF H!writeProxy
    <2> DEFINE u == IF step = "http" THEN cmd.undo \o <<"unproxy">> ELSE cmd.undo
    <2>2. u \in Seq(AccessSteps)
      BY <1>1, <1>4
    <2>3. \/ cmd' = [cmd EXCEPT !.todo = Tail(cmd.todo), !.undo = u]
          \/ cmd' = [cmd EXCEPT !.todo = u, !.ok = FALSE]
      BY <1>1, <2>1 DEF Command
    <2> HIDE DEF u
    <2> QED BY <1>9, <1>10, <2>2, <2>3
  <1>15. H!certbot => OK
    BY <1>6 DEF H!certbot
  <1>16. H!accessConfig => OK
    BY <1>4, <1>8 DEF H!accessConfig
  <1>17. H!restartPanel => OK
    BY <1>6, <1>7 DEF H!restartPanel
  <1>18. ASSUME H!restoreConfig PROVE OK
    <2>1. cmd' = [cmd EXCEPT !.todo = <<"restart panel">> \o Tail(@)] \/ H!Failing(<<>>)
      BY <1>18 DEF H!restoreConfig
    <2>2. CASE cmd' = [cmd EXCEPT !.todo = <<"restart panel">> \o Tail(@)]
      <3>1. cmd' = [cmd EXCEPT !.todo = <<"restart panel">> \o Tail(cmd.todo)]
        BY <1>1, <2>2 DEF Command
      <3> QED BY <1>1, <1>2, <1>4, <3>1, EditTodo
    <2> QED BY <1>7, <2>1, <2>2
  <1>19. H!restoreRoute => OK
    BY <1>6, <1>7 DEF H!restoreRoute
  <1>20. H!restoreProxy => OK
    BY <1>6, <1>7 DEF H!restoreProxy
  <1>21. OK
    BY <1>11, <1>12, <1>13, <1>14, <1>15, <1>16, <1>17, <1>18, <1>19, <1>20
       DEF H!AccessStep, H!configureDomain
  <1> QED BY <1>0, <1>1, <1>21

LEMMA AccessStepKept ==
  ASSUME HostInv, cmd.kind = "access", H!AccessStep
  PROVE  HostInv'
  <1>1. /\ cmd \in Command /\ Move(AccessSteps) /\ cmd'.saved = cmd.saved /\ UNCHANGED commands
    BY AccessMoves
  <1>2. /\ HostTypes /\ DiskTyped /\ AccessTyped /\ ServicesTyped /\ DataTyped
        /\ DataKept /\ ConfigKept /\ Keyed(file) /\ Keyed(wal)
        /\ config # "none" /\ cmd.before.address.config # "none"
        /\ key # 0 /\ binary \in Nat /\ file \in Datum /\ wal \in Datum
    BY DEF HostInv, HostTypes, ConfigKept, DataKept, DiskTyped, DataTyped, Accessing
  <1>3. cmd.before.address \in Addresses
    BY <1>1 DEF Command, Earlier
  <1>4. ASSUME UNCHANGED <<H!disk, H!database, H!services>>, AccessTyped' PROVE HostInv'
    <2>1. UNCHANGED <<marker, key, tls, units, config>>
      BY <1>4 DEF H!disk
    <2>2. ConfigKept'
      BY <1>2, <2>1 DEF ConfigKept
    <2> QED BY <1>1, <1>2, <1>4, <2>1, <2>2, StayTyped, StayKept, AccessGoesOn
  <1>5. ASSUME config' \in Places, config' # "none",
               UNCHANGED <<marker, root, key, tls, binary, units, H!database, H!access, H!services>>
        PROVE  HostInv'
    <2>1. ConfigKept' /\ DiskTyped'
      BY <1>2, <1>5 DEF ConfigKept, DiskTyped
    <2> QED BY <1>1, <1>2, <1>5, <2>1, StayTyped, StayKept, AccessGoesOn
  <1>6. CASE H!removePanelTailscale \/ H!addRoute \/ H!certbot \/ H!restoreRoute
    <2>1. UNCHANGED <<H!disk, H!database, H!services, proxy, link, nginx>>
      BY <1>6 DEF H!removePanelTailscale, H!addRoute, H!certbot, H!restoreRoute, H!access
    <2>2. route' \in BOOLEAN
      BY <1>2, <1>6 DEF H!removePanelTailscale, H!addRoute, H!certbot, H!restoreRoute, H!access,
                       H!Step, AccessTyped
    <2>3. AccessTyped'
      BY <1>2, <2>1, <2>2 DEF AccessTyped
    <2> QED BY <1>4, <2>1, <2>3
  <1>7. CASE H!disableProxy
    <2>1. UNCHANGED <<H!disk, H!database, H!services>>
      BY <1>7 DEF H!disableProxy
    <2>2. AccessTyped'
      BY <1>2, <1>7 DEF H!disableProxy, AccessTyped, Proxies
    <2> QED BY <1>4, <2>1, <2>2
  <1>8. CASE H!configureDomain
    <2>1. UNCHANGED <<H!disk, H!database, H!services>>
      BY <1>8 DEF H!configureDomain, H!writeProxy
    <2>2. AccessTyped'
      BY <1>2, <1>8 DEF H!configureDomain, H!writeProxy, AccessTyped, Proxies
    <2> QED BY <1>4, <2>1, <2>2
  <1>9. CASE H!restoreProxy
    <2>1. UNCHANGED <<H!disk, H!database, H!services, route>>
      BY <1>9 DEF H!restoreProxy
    <2>2. proxy' \in Proxies /\ link' \in BOOLEAN
      BY <1>2, <1>3, <1>9 DEF H!restoreProxy, AccessTyped, Addresses
    <2>3. nginx' = nginx \/ nginx' = H!Loaded(proxy', link')
      BY <1>9 DEF H!restoreProxy
    <2>4. nginx' \in Proxies
      BY <1>2, <2>2, <2>3 DEF H!Loaded, AccessTyped, Proxies
    <2>5. AccessTyped'
      BY <1>2, <2>1, <2>2, <2>4 DEF AccessTyped
    <2> QED BY <1>4, <2>1, <2>5
  <1>10. CASE H!accessConfig
    BY <1>5, <1>10 DEF H!accessConfig, H!saveConfig, Places
  <1>11. CASE H!restoreConfig
    <2>1. UNCHANGED <<H!database, H!access, H!services>>
      BY <1>11 DEF H!restoreConfig
    <2>2. CASE H!saveConfig(cmd.before.address.config)
      BY <1>2, <1>3, <1>5, <2>1, <2>2 DEF H!saveConfig, Addresses
    <2>3. CASE UNCHANGED H!disk
      BY <1>2, <1>4, <2>1, <2>3, StayTyped
    <2> QED BY <1>11, <2>2, <2>3 DEF H!restoreConfig
  <1>12. CASE H!restartPanel
    <2>1. UNCHANGED <<H!disk, H!access>>
      BY <1>12 DEF H!restartPanel
    <2>2. UNCHANGED <<marker, key, tls, units, config>>
      BY <2>1 DEF H!disk
    <2>3. ConfigKept'
      BY <1>2, <2>2 DEF ConfigKept
    <2>4. ServicesTyped' /\ DataTyped' /\ DataKept'
      <3>1. CASE /\ panel' = binary /\ listens' = config /\ wal' = H!Migrated(binary)
                 /\ UNCHANGED <<file, broker>>
        BY <1>1, <1>2, <2>2, <3>1, MigratedData
           DEF ServicesTyped, DataTyped, DataKept, Keyed, DiskTyped
      <3>2. CASE panel' \in {0, panel} /\ UNCHANGED <<H!database, broker>>
                 /\ listens' = IF panel' = 0 THEN "none" ELSE listens
        BY <1>1, <1>2, <2>2, <3>2, StayTyped, StayKept DEF ServicesTyped, Places
      <3> QED BY <1>12, <3>1, <3>2 DEF H!restartPanel
    <2> QED BY <1>1, <1>2, <2>1, <2>2, <2>3, <2>4, StayTyped, AccessGoesOn
  <1> QED BY <1>6, <1>7, <1>8, <1>9, <1>10, <1>11, <1>12 DEF H!AccessStep

\* The lists of steps an upgrade and a change of access begin with.
LEMMA UpgradeList ==
  /\ H!Upgrade \in Seq(UpgradeSteps) /\ Len(H!Upgrade) = 8
  /\ H!Upgrade[1] = "reconcile" /\ H!Upgrade[2] = "stop" /\ H!Upgrade[3] = "checkpoint"
  /\ H!Upgrade[4] = "save" /\ H!Upgrade[5] = "replace" /\ H!Upgrade[6] = "units"
  /\ H!Upgrade[7] = "start" /\ H!Upgrade[8] = "ready"
  <1>1. H!Upgrade \in Seq(UpgradeSteps)
    BY DEF H!Upgrade, UpgradeSteps
  <1> QED BY <1>1 DEF H!Upgrade

LEMMA AccessList ==
  ASSUME NEW to \in Ways \ {"domain"}
  PROVE  /\ H!Configure(to) \in Seq(AccessSteps) /\ Len(H!Configure(to)) = 4
         /\ H!Configure(to)[1] = IF to = "tailscale" THEN "route" ELSE "unroute"
         /\ H!Configure(to)[2] = "unlink" /\ H!Configure(to)[3] = "config"
         /\ H!Configure(to)[4] = "restart panel"
  <1> DEFINE first == IF to = "tailscale" THEN "route" ELSE "unroute"
  <1>1. H!Configure(to) = <<first>> \o H!Listener
    BY DEF H!Configure, Ways
  <1>2. /\ H!Listener \in Seq(AccessSteps) /\ Len(H!Listener) = 3
        /\ H!Listener[1] = "unlink" /\ H!Listener[2] = "config" /\ H!Listener[3] = "restart panel"
    <2>1. H!Listener \in Seq(AccessSteps)
      BY DEF H!Listener, AccessSteps
    <2> QED BY <2>1 DEF H!Listener
  <1>3. first \in AccessSteps
    BY DEF AccessSteps
  <1> HIDE DEF first
  <1>4. <<first>> \in Seq(AccessSteps) /\ Len(<<first>>) = 1 /\ <<first>>[1] = first
    BY <1>3
  <1> DEFINE all == <<first>> \o H!Listener
  <1>7. /\ all \in Seq(AccessSteps) /\ Len(all) = Len(<<first>>) + Len(H!Listener)
        /\ \A i \in 1 .. Len(<<first>>) + Len(H!Listener) :
               all[i] = IF i <= Len(<<first>>) THEN <<first>>[i] ELSE H!Listener[i - Len(<<first>>)]
    BY <1>2, <1>4, ConcatProperties
  <1> HIDE DEF all
  <1>8. Len(<<first>>) = 1 /\ Len(H!Listener) = 3
    BY <1>2, <1>4
  <1>9. /\ all \in Seq(AccessSteps) /\ Len(all) = 4
        /\ \A i \in 1 .. 4 : all[i] = IF i <= 1 THEN <<first>>[i] ELSE H!Listener[i - 1]
    BY <1>7, <1>8
  <1>5. /\ H!Configure(to) \in Seq(AccessSteps) /\ Len(H!Configure(to)) = 4
        /\ \A i \in 1..4 : H!Configure(to)[i] = IF i <= 1 THEN <<first>>[i] ELSE H!Listener[i - 1]
    BY <1>1, <1>9 DEF all
  <1>6. /\ H!Configure(to)[1] = <<first>>[1] /\ H!Configure(to)[2] = H!Listener[1]
        /\ H!Configure(to)[3] = H!Listener[2] /\ H!Configure(to)[4] = H!Listener[3]
    BY <1>5
  <1> QED BY <1>2, <1>4, <1>5, <1>6 DEF first

LEMMA DomainList ==
  /\ H!Configure("domain") \in Seq(AccessSteps) /\ Len(H!Configure("domain")) = 6
  /\ H!Configure("domain")[1] = "unroute" /\ H!Configure("domain")[2] = "http"
  /\ H!Configure("domain")[3] = "certbot" /\ H!Configure("domain")[4] = "https"
  /\ H!Configure("domain")[5] = "config" /\ H!Configure("domain")[6] = "restart panel"
  <1>1. H!Configure("domain") = <<"unroute", "http", "certbot", "https", "config", "restart panel">>
    BY DEF H!Configure
  <1> DEFINE six == <<"unroute", "http", "certbot", "https", "config", "restart panel">>
  <1>2. six \in Seq(AccessSteps)
    BY DEF AccessSteps
  <1>3. /\ Len(six) = 6 /\ six[1] = "unroute" /\ six[2] = "http" /\ six[3] = "certbot"
        /\ six[4] = "https" /\ six[5] = "config" /\ six[6] = "restart panel"
    OBVIOUS
  <1>4. H!Configure("domain") = six
    BY <1>1
  <1> HIDE DEF six
  <1> QED BY <1>2, <1>3, <1>4

\* A command begins with its list, nothing to undo and what was there before.
LEMMA Beginning ==
  ASSUME HostInv, NEW k \in {"install", "upgrade", "access"}, NEW to \in Versions \cup Ways,
         NEW steps \in Seq(AllSteps), H!Run(k, to, steps)
  PROVE  /\ HostTypes' /\ DataKept' /\ ConfigKept'
         /\ cmd' \in Command /\ cmd'.kind = k /\ cmd'.to = to /\ cmd'.todo = steps
         /\ cmd'.undo = <<>> /\ cmd'.ok = TRUE /\ cmd'.stuck = FALSE
         /\ cmd'.before.binary = binary /\ cmd'.before.units = units
         /\ cmd'.before.address = H!Address /\ (cmd'.before.installed <=> config # "none")
         /\ cmd'.saved = H!None /\ cmd'.at = H!None
         /\ UNCHANGED <<H!disk, H!database, H!access, H!services>>
  <1>1. /\ HostTypes /\ DiskTyped /\ AccessTyped /\ ServicesTyped /\ DataTyped
        /\ DataKept /\ ConfigKept
    BY DEF HostInv, HostTypes
  <1>2. H!Address \in Addresses
    BY <1>1 DEF H!Address, Addresses, DiskTyped, AccessTyped, ServicesTyped
  <1> DEFINE b == [binary |-> binary, units |-> units, address |-> H!Address,
                   installed |-> config # "none"]
             c == [kind |-> k, to |-> to, todo |-> steps, undo |-> <<>>, ok |-> TRUE,
                   stuck |-> FALSE, before |-> b, saved |-> H!None, at |-> H!None]
  <1>3. b \in Earlier /\ b.binary = binary /\ b.units = units /\ b.address = H!Address
        /\ (b.installed <=> config # "none")
    BY <1>1, <1>2 DEF Earlier, DiskTyped
  <1>4. /\ cmd' = c /\ commands' = commands + 1
        /\ UNCHANGED <<H!disk, H!database, H!access, H!services>>
    BY DEF H!Run, H!NoCommand
  <1> HIDE DEF b
  <1>5. c \in Command
    BY <1>3, NoData, EmptySeq DEF Command
  <1>6. HostTypes'
    BY <1>1, <1>4, <1>5, StayTyped DEF HostTypes, CommandTyped
  <1>7. DataKept' /\ ConfigKept'
    BY <1>1, <1>4, <1>5 DEF DataKept, ConfigKept, Keyed, H!disk, H!database
  <1> QED BY <1>3, <1>4, <1>5, <1>6, <1>7

LEMMA RunsKept ==
  ASSUME HostInv, H!RunInstall \/ H!RunUpgrade \/ H!RunAccess
  PROVE  HostInv'
  <1>1. CASE H!RunInstall
    <2>1. PICK v \in Versions : H!Run("install", v, H!Install)
      BY <1>1 DEF H!RunInstall
    <2>2. H!Install \in Seq(AllSteps) /\ From(H!Install, 1) = H!Install
      BY InstallRest
    <2>3. /\ HostTypes' /\ DataKept' /\ ConfigKept' /\ cmd'.kind = "install" /\ cmd'.to = v
          /\ cmd'.todo = H!Install /\ cmd'.ok = TRUE
          /\ cmd'.before.installed => config # "none"
          /\ UNCHANGED H!disk
      BY <2>1, <2>2, Beginning
    <2>4. InstallAt(1)'
      BY <2>2, <2>3 DEF InstallAt
    <2>5. Installing'
      BY <2>3, <2>4 DEF Installing, H!disk
    <2> QED BY <2>3, <2>5 DEF HostInv, Upgrading, Accessing
  <1>2. CASE H!RunUpgrade
    <2>1. PICK v \in Versions : H!Run("upgrade", v, H!Upgrade)
      BY <1>2 DEF H!RunUpgrade
    <2>2. H!Upgrade \in Seq(AllSteps)
      BY UpgradeList, SeqMonotonic DEF AllSteps
    <2>3. /\ HostTypes' /\ DataKept' /\ ConfigKept' /\ cmd'.kind = "upgrade" /\ cmd'.to = v
          /\ cmd'.todo = H!Upgrade /\ cmd'.undo = <<>> /\ cmd'.before.units = units
          /\ UNCHANGED H!disk
      BY <2>1, <2>2, Beginning
    <2>4. config # "none" /\ (marker \/ units # 0)
      BY <1>2 DEF H!RunUpgrade, HostInv, ConfigKept
    <2>5. Upgrading'
      BY <2>3, <2>4, UpgradeList, EmptySeq DEF Upgrading, H!disk
    <2> QED BY <2>3, <2>5 DEF HostInv, Installing, Accessing
  <1>3. CASE H!RunAccess
    <2>1. PICK to \in Ways : H!Run("access", to, H!Configure(to))
      BY <1>3 DEF H!RunAccess, Ways
    <2>2. H!Configure(to) \in Seq(AccessSteps)
      BY AccessList, DomainList
    <2>3. H!Configure(to) \in Seq(AllSteps)
      BY <2>2, SeqMonotonic DEF AllSteps
    <2>4. /\ HostTypes' /\ DataKept' /\ ConfigKept' /\ cmd'.kind = "access"
          /\ cmd'.todo = H!Configure(to) /\ cmd'.undo = <<>> /\ cmd'.before.address = H!Address
          /\ UNCHANGED H!disk
      BY <2>1, <2>3, Beginning
    <2>5. config # "none" /\ H!Address.config = config
      BY <1>3 DEF H!RunAccess, H!Address
    <2>6. Accessing'
      BY <2>2, <2>4, <2>5, EmptySeq DEF Accessing, H!disk
    <2> QED BY <2>4, <2>6 DEF HostInv, Installing, Upgrading
  <1> QED BY <1>1, <1>2, <1>3

\* A step that fails.
LEMMA FailKept ==
  ASSUME HostInv, H!Fail
  PROVE  HostInv'
  <1>1. /\ cmd.todo # <<>> /\ cmd.ok
        /\ UNCHANGED <<H!disk, H!database, H!access, H!services, commands>>
    BY DEF H!Fail, H!Undoing
  <1>2. /\ cmd \in Command /\ cmd.kind \in {"install", "upgrade", "access"}
    BY <1>1, StepsOfKind
  <1>3. /\ HostTypes /\ DiskTyped /\ AccessTyped /\ ServicesTyped /\ DataTyped
        /\ DataKept /\ ConfigKept
    BY DEF HostInv, HostTypes
  <1>4. UNCHANGED <<marker, key, tls, units, config>>
    BY <1>1 DEF H!disk
  <1>5. DiskTyped' /\ AccessTyped' /\ ServicesTyped' /\ DataTyped' /\ ConfigKept'
    BY <1>1, <1>3, <1>4, StayTyped DEF ConfigKept, H!database
  <1>6. CASE cmd.kind = "install"
    <2>1. H!Step("http") => FALSE
      BY <1>1, <1>6, StepsOfKind DEF H!Step, InstallSteps
    <2>2. H!Step("unlink") => FALSE
      BY <1>1, <1>6, StepsOfKind DEF H!Step, InstallSteps
    <2>3. cmd' = [cmd EXCEPT !.todo = <<>>, !.ok = FALSE]
      BY <1>6, <2>1, <2>2 DEF H!Fail, H!Kind
    <2>4. /\ cmd' \in Command /\ cmd'.kind = "install" /\ cmd'.to = cmd.to /\ cmd'.todo = <<>>
          /\ cmd'.ok = FALSE /\ cmd'.before = cmd.before /\ cmd'.saved = cmd.saved
      BY <1>2, <1>6, <2>3, EmptySeq DEF Command
    <2>7. cmd # H!NoCommand
      BY <1>1 DEF H!NoCommand
    <2>8. commands \in Nat \ {0} /\ commands' = commands
      BY <1>1, <1>3, <2>7 DEF HostTypes, CommandTyped
    <2>9. CommandTyped'
      BY <2>4, <2>8 DEF CommandTyped
    <2>5. HostTypes' /\ DataKept'
      <3>1. HostTypes'
        BY <1>5, <2>9 DEF HostTypes
      <3> QED BY <1>1, <1>3, <1>4, <2>4, <3>1, StayKept
    <2>6. Installing' /\ Upgrading' /\ Accessing'
      BY <1>4, <1>6, <2>4 DEF Installing, Upgrading, Accessing, HostInv
    <2> QED BY <1>5, <2>5, <2>6 DEF HostInv
  <1>7. CASE cmd.kind = "upgrade"
    <2>1. H!Step("http") => FALSE
      BY <1>1, <1>7, StepsOfKind DEF H!Step, UpgradeSteps
    <2>2. H!Step("unlink") => FALSE
      BY <1>1, <1>7, StepsOfKind DEF H!Step, UpgradeSteps
    <2>3. H!Failing(<<"rollback">>) \/ H!Failing(<<>>)
      BY <1>7, <2>1, <2>2 DEF H!Fail, H!Kind
    <2>4. cmd.todo \in Seq(UpgradeSteps) /\ cmd.undo \in Seq(UpgradeSteps)
      BY <1>7 DEF HostInv, Upgrading
    <2>6. /\ UpgradeSteps \in SUBSET AllSteps
          /\ <<>> \in Seq(UpgradeSteps) /\ <<"rollback">> \in Seq(UpgradeSteps)
      BY DEF UpgradeSteps, AllSteps
    <2>5. Move(UpgradeSteps) /\ cmd'.saved = cmd.saved
      BY <1>1, <1>2, <2>3, <2>4, <2>6, FailingStep
    <2> QED BY <1>1, <1>3, <1>4, <1>5, <1>7, <2>5, StayKept, UpgradeGoesOn
  <1>8. CASE cmd.kind = "access"
    <2>1. \/ H!Failing(<<"unconfig">>) \/ H!Failing(<<>>)
          \/ cmd' = [cmd EXCEPT !.todo = cmd.undo \o <<"unproxy">>, !.ok = FALSE]
      BY <1>8 DEF H!Fail, H!Kind
    <2>2. /\ cmd.todo \in Seq(AccessSteps) /\ cmd.undo \in Seq(AccessSteps)
          /\ config # "none"
      BY <1>8 DEF HostInv, Accessing
    <2>3. /\ AccessSteps \in SUBSET AllSteps
          /\ <<>> \in Seq(AccessSteps) /\ <<"unconfig">> \in Seq(AccessSteps)
          /\ "unproxy" \in AccessSteps
      BY DEF AccessSteps, AllSteps
    <2>4. Move(AccessSteps) /\ cmd'.saved = cmd.saved
      <3>1. CASE H!Failing(<<"unconfig">>) \/ H!Failing(<<>>)
        BY <1>1, <1>2, <2>2, <2>3, <3>1, FailingStep
      <3>2. CASE cmd' = [cmd EXCEPT !.todo = cmd.undo \o <<"unproxy">>, !.ok = FALSE]
        <4>1. cmd.undo \o <<"unproxy">> \in Seq(AccessSteps)
          BY <2>2, <2>3, Before
        <4> QED BY <1>2, <2>2, <2>3, <3>2, <4>1, EditTodo
      <3> QED BY <2>1, <3>1, <3>2
    <2> QED BY <1>1, <1>3, <1>4, <1>5, <1>8, <2>2, <2>4, StayKept, AccessGoesOn
  <1> QED BY <1>2, <1>6, <1>7, <1>8

\* A command ends, and what happens beside commands.
LEMMA BesidesKept ==
  ASSUME HostInv, H!Answer \/ H!Killed \/ H!Reboot \/ H!WriteRow \/ UNCHANGED H!hostVars
  PROVE  HostInv'
  <1>1. /\ HostTypes /\ DiskTyped /\ AccessTyped /\ ServicesTyped /\ DataTyped
        /\ DataKept /\ ConfigKept /\ CommandTyped /\ Keyed(file) /\ Keyed(wal)
    BY DEF HostInv, HostTypes, DataKept
  <1>2. CASE H!Answer \/ H!Killed
    <2>1. cmd' = H!NoCommand /\ UNCHANGED <<H!disk, H!database, H!access, H!services, commands>>
      BY <1>2 DEF H!Answer, H!Killed
    <2>2. UNCHANGED <<marker, key, tls, units, config>>
      BY <2>1 DEF H!disk
    <2>3. HostTypes'
      BY <1>1, <2>1, StayTyped DEF HostTypes, CommandTyped
    <2>4. DataKept' /\ ConfigKept'
      BY <1>1, <2>1, <2>2, NoCommandFields DEF DataKept, ConfigKept, Keyed, H!database
    <2> QED BY <2>1, <2>3, <2>4, NoCommandFields DEF HostInv, Installing, Upgrading, Accessing
  <1>3. CASE H!Reboot
    <2>1. /\ cmd = H!NoCommand /\ config # "none" /\ H!StartServices
          /\ nginx' = H!Loaded(proxy, link)
          /\ UNCHANGED <<H!disk, proxy, link, route, cmd, commands>>
      BY <1>3 DEF H!Reboot
    <2>2. UNCHANGED <<marker, key, tls, units, config>>
      BY <2>1 DEF H!disk
    <2>3. key # 0
      BY <1>1, <2>1 DEF ConfigKept
    <2>4. /\ broker' = binary /\ panel' = binary /\ listens' = config /\ file' = file
          /\ wal' \in Datum /\ wal'.key = key
      BY <1>1, <2>1, <2>3, Starting
    <2>5. ServicesTyped' /\ DataTyped' /\ DataKept' /\ ConfigKept'
      BY <1>1, <2>1, <2>2, <2>3, <2>4
         DEF ServicesTyped, DataTyped, DataKept, ConfigKept, Keyed, DiskTyped
    <2>6. AccessTyped'
      BY <1>1, <2>1 DEF AccessTyped, H!Loaded, Proxies
    <2>7. HostTypes'
      BY <1>1, <2>1, <2>5, <2>6, StayTyped DEF HostTypes, CommandTyped
    <2> QED BY <2>1, <2>5, <2>7, NoCommandFields DEF HostInv, Installing, Upgrading, Accessing
  <1>4. CASE H!WriteRow
    <2>1. /\ H!Live # H!None /\ wal' = [H!Live EXCEPT !.rows = @ + 1]
          /\ UNCHANGED <<H!disk, file, H!access, H!services, cmd, commands>>
      BY <1>4 DEF H!WriteRow
    <2>2. UNCHANGED <<marker, key, tls, binary, units, config, broker, panel>>
      BY <2>1 DEF H!disk, H!services
    <2>3. H!Live \in Datum /\ H!Live.key = key /\ key # 0
      BY <1>1, <2>1, LiveData DEF Keyed
    <2>4. wal' \in Datum /\ wal'.key = key
      BY <2>1, <2>3 DEF Datum
    <2>5. config # "none"
      BY <1>1, <2>1, LiveData DEF ConfigKept
    <2>6. DataTyped' /\ DataKept' /\ ConfigKept'
      BY <1>1, <2>1, <2>2, <2>3, <2>4, <2>5 DEF DataTyped, DataKept, ConfigKept, Keyed
    <2>7. HostTypes'
      BY <1>1, <2>1, <2>6, StayTyped DEF HostTypes, CommandTyped
    <2>8. Installing'
      BY <2>1, <2>2 DEF Installing, InstallAt, HostInv
    <2>9. Upgrading' /\ Accessing'
      BY <2>1, <2>2 DEF Upgrading, Accessing, HostInv
    <2> QED BY <2>6, <2>7, <2>8, <2>9 DEF HostInv
  <1>5. CASE UNCHANGED H!hostVars
    <2>1. UNCHANGED <<H!disk, H!database, H!access, H!services, cmd, commands>>
      BY <1>5 DEF H!hostVars
    <2>2. UNCHANGED <<marker, key, tls, binary, units, config, broker, panel, file, wal>>
      BY <2>1 DEF H!disk, H!services, H!database
    <2>3. HostTypes'
      BY <1>1, <2>1, StayTyped DEF HostTypes, CommandTyped
    <2>4. DataKept' /\ ConfigKept'
      BY <1>1, <2>1, <2>2 DEF DataKept, ConfigKept, Keyed
    <2>5. Installing'
      BY <2>1, <2>2 DEF Installing, InstallAt, HostInv
    <2>6. Upgrading' /\ Accessing'
      BY <2>1, <2>2 DEF Upgrading, Accessing, HostInv
    <2> QED BY <2>3, <2>4, <2>5, <2>6 DEF HostInv
  <1> QED BY <1>2, <1>3, <1>4, <1>5

LEMMA HostKept ==
  ASSUME HostInv, [H!HostNext]_H!hostVars
  PROVE  HostInv'
  BY RunsKept, FailKept, BesidesKept, InstallStepKept, UpgradeStepKept, AccessStepKept, StepsAreApart
     DEF H!HostNext

LEMMA HostBegins == ASSUME H!HostInit PROVE HostInv
  BY NoData, NoCommandFields
     DEF H!HostInit, HostInv, HostTypes, DiskTyped, AccessTyped, ServicesTyped, DataTyped,
         CommandTyped, DataKept, ConfigKept, Keyed, Installing, Upgrading, Accessing, Places, Proxies

\* A step of the panel is a step of its host, or leaves it alone.
LEMMA HostStep ==
  ASSUME [Next]_vars
  PROVE  [H!HostNext]_H!hostVars
  <1>1. CASE Host
    BY <1>1 DEF Host
  <1>2. CASE Login \/ User \/ SignOn \/ Alert \/ UNCHANGED vars
    BY <1>2 DEF Login, User, SignOn, Alert, vars, host, H!hostVars, H!disk, H!database, H!access,
                H!services
  <1> QED BY <1>1, <1>2 DEF Next

\* The panel's specification implements that of its host.
THEOREM HostIsRefined == Spec => H!HostSpec
  <1>1. Init => H!HostInit
    BY DEF Init
  <1>2. [Next]_vars => [H!HostNext]_H!hostVars
    BY HostStep
  <1> QED BY <1>1, <1>2, PTL DEF Spec, H!HostSpec

\* The key that the database's secrets are encrypted with is the one on the disk, and
\* an installation that was begun can be resumed, whatever was killed before
\* (ensureSecretKey, ensurePanelCertificate and restoreState).
LEMMA SecretsFollow ==
  ASSUME HostInv
  PROVE  H!SecretsReadable /\ H!Resumable
  <1>1. H!SecretsReadable
    BY LiveData DEF HostInv, DataKept, Keyed, H!SecretsReadable
  <1>2. H!Resumable
    BY LiveData DEF HostInv, ConfigKept, H!Resumable
  <1> QED BY <1>1, <1>2

-----------------------------------------------------------------------------
(***************************************************************************)
(* What a command answers.  An upgrade that goes on has done the steps that *)
(* are not on its list any more, and keeps what would take them back; one   *)
(* that is being undone has the old binary and the old data, or has yet to  *)
(* put back the copy that it took of them.                                  *)
(***************************************************************************)
StartOld   == <<"restart old">>
RollBack   == <<"rollback">>
SameBinary == binary = cmd.before.binary /\ units = cmd.before.units
RowsKept   == H!Live.rows >= cmd.at.rows
SchemaKept == cmd.at # H!None => H!Live.schema \in {cmd.at.schema, binary}

UpgradeAt(j) ==
    /\ cmd.todo = From(H!Upgrade, j)
    /\ j <= 2 => cmd.undo = <<>>
    /\ 2 < j /\ j <= 5 => cmd.undo = StartOld
    /\ 5 < j => cmd.undo = RollBack
    /\ j <= 2 => cmd.at = H!None
    /\ j <= 5 => binary = cmd.before.binary
    /\ j <= 6 => units = cmd.before.units
    /\ 2 < j /\ j < 8 => panel = 0 /\ H!Live = cmd.at
    /\ 3 < j => cmd.at # H!None
    /\ 3 < j /\ j < 8 => file = cmd.at /\ wal = H!None
    /\ 4 < j => cmd.saved = cmd.at
    /\ 5 < j => binary = cmd.to
    /\ 6 < j => units = cmd.to
    /\ 7 < j => panel = cmd.to /\ broker = cmd.to /\ RowsKept

OldServes  == /\ cmd.todo \in {<<>>, StartOld} /\ SameBinary
              /\ cmd.at # H!None => RowsKept
              /\ SchemaKept
CopyWaits  == /\ cmd.todo # <<>> /\ Head(cmd.todo) \in {"rollback", "restore"}
              /\ cmd.saved = cmd.at /\ cmd.at # H!None

UpgradeAnswers ==
    cmd.kind = "upgrade" /\ ~cmd.stuck =>
        /\ cmd.ok => \E j \in 1..9 : UpgradeAt(j)
        /\ ~cmd.ok => OldServes \/ CopyWaits

LEMMA UpgradeRest ==
  /\ From(H!Upgrade, 1) = H!Upgrade /\ From(H!Upgrade, 9) = <<>>
  /\ \A i \in 1..8 : /\ From(H!Upgrade, i) # <<>> /\ Head(From(H!Upgrade, i)) = H!Upgrade[i]
                     /\ Tail(From(H!Upgrade, i)) = From(H!Upgrade, i + 1)
  <1>1. H!Upgrade \in Seq(AllSteps) /\ Len(H!Upgrade) = 8
    BY UpgradeList, SeqMonotonic DEF AllSteps
  <1>2. Len(H!Upgrade) + 1 = 9
    BY <1>1
  <1> QED BY <1>1, <1>2, Rest

LEMMA OneStepList ==
  ASSUME NEW e
  PROVE  <<e>> # <<>> /\ Head(<<e>>) = e /\ Tail(<<e>>) = <<>>
  OBVIOUS

LEMMA PutBefore ==
  ASSUME NEW Items, NEW s \in Seq(Items), NEW e \in Items
  PROVE  <<e>> \o s # <<>> /\ Head(<<e>> \o s) = e
  <1>1. <<e>> \in Seq(Items) /\ Len(<<e>>) = 1 /\ <<e>>[1] = e
    OBVIOUS
  <1>2. Len(s) \in Nat
    BY LenProperties
  <1>3. <<e>> \o s \in Seq(Items) /\ Len(<<e>> \o s) = 1 + Len(s) /\ (<<e>> \o s)[1] = e
    BY <1>1, <1>2, ConcatProperties
  <1>4. <<e>> \o s # <<>>
    BY <1>2, <1>3, EmptySeq
  <1> QED BY <1>3, <1>4, HeadTailProperties

\* Where an upgrade stands that has a step to do.
LEMMA UpgradePosition ==
  ASSUME HostInv, UpgradeAnswers, cmd.kind = "upgrade", cmd.todo # <<>>, ~cmd.stuck
  PROVE  /\ cmd \in Command /\ cmd.to \in Nat /\ cmd.to # 0
         /\ cmd.todo \in Seq(UpgradeSteps) /\ cmd.undo \in Seq(UpgradeSteps)
         /\ cmd.ok => \E j \in 1..8 : /\ UpgradeAt(j) /\ Head(cmd.todo) = H!Upgrade[j]
                                      /\ Tail(cmd.todo) = From(H!Upgrade, j + 1)
         /\ ~cmd.ok => \/ OldServes /\ cmd.todo = StartOld /\ Head(cmd.todo) = "restart old"
                          /\ Tail(cmd.todo) = <<>>
                       \/ CopyWaits /\ Head(cmd.todo) \in {"rollback", "restore"}
  <1>1. /\ cmd \in Command /\ cmd.to \in Nat /\ cmd.to # 0
        /\ cmd.todo \in Seq(UpgradeSteps) /\ cmd.undo \in Seq(UpgradeSteps)
    BY StepsOfKind, VersionsAreNumbers DEF HostInv, Upgrading
  <1>2. ASSUME cmd.ok
        PROVE  \E j \in 1..8 : /\ UpgradeAt(j) /\ Head(cmd.todo) = H!Upgrade[j]
                               /\ Tail(cmd.todo) = From(H!Upgrade, j + 1)
    <2>1. PICK j \in 1..9 : UpgradeAt(j)
      BY <1>2 DEF UpgradeAnswers
    <2>2. cmd.todo = From(H!Upgrade, j)
      BY <2>1 DEF UpgradeAt
    <2>3. j \in 1..8
      BY <2>2, UpgradeRest
    <2> QED BY <2>1, <2>2, <2>3, UpgradeRest
  <1>3. ASSUME ~cmd.ok
        PROVE  \/ OldServes /\ cmd.todo = StartOld /\ Head(cmd.todo) = "restart old"
                  /\ Tail(cmd.todo) = <<>>
               \/ CopyWaits /\ Head(cmd.todo) \in {"rollback", "restore"}
    BY <1>3, OneStepList DEF UpgradeAnswers, OldServes, CopyWaits, StartOld
  <1> QED BY <1>1, <1>2, <1>3

\* Live is what the log, or else the file, holds: after it was put into the file, too.
LEMMA LiveInFile ==
  /\ UNCHANGED <<file, wal>> => H!Live' = H!Live
  /\ wal' = H!None => H!Live' = file'
  /\ wal' # H!None => H!Live' = wal'
  BY DEF H!Live

\* What the old services make of the data that is there.
LEMMA Restarted ==
  ASSUME HostTypes, Keyed(file), Keyed(wal), key # 0, H!StartServices
  PROVE  /\ H!Live' \in Datum /\ H!Live'.rows = H!Live.rows
         /\ H!Live'.schema \in {H!Live.schema, binary}
  <1>1. wal' = H!Migrated(binary) /\ wal' # H!None /\ wal' \in Datum
    BY Starting
  <1>2. H!Live' = H!Migrated(binary)
    BY <1>1, LiveInFile
  <1>3. binary \in Nat /\ key \in Nat
    BY DEF HostTypes, DiskTyped
  <1>4. CASE H!Live # H!None
    BY <1>1, <1>2, <1>3, <1>4, MigratedData
  <1>5. CASE H!Live = H!None
    <2>1. H!Migrated(binary) = [rows |-> 0, schema |-> binary, key |-> key]
      BY <1>5 DEF H!Migrated
    <2> QED BY <1>1, <1>2, <1>5, <2>1, NoData
  <1> QED BY <1>4, <1>5
\* A step of the list is done.
LEMMA UpgradeAdvances ==
  ASSUME cmd \in Command, cmd.todo \in Seq(UpgradeSteps), cmd.undo \in Seq(UpgradeSteps),
         cmd.todo # <<>>, H!Advance
  PROVE  /\ cmd'.kind = cmd.kind /\ cmd'.to = cmd.to /\ cmd'.before = cmd.before
         /\ cmd'.todo = Tail(cmd.todo) /\ cmd'.undo = cmd.undo
         /\ cmd'.saved = cmd.saved /\ cmd'.at = cmd.at
         /\ cmd'.ok = cmd.ok /\ cmd'.stuck = cmd.stuck
  <1>1. UpgradeSteps \in SUBSET AllSteps
    BY DEF AllSteps
  <1> QED BY <1>1, Advancing DEF Move

\* The forms in which an upgrade changes what it has to do and what it keeps.
LEMMA UpgradeEdits ==
  ASSUME cmd \in Command, NEW t, NEW u, NEW a
  PROVE  /\ cmd' = [cmd EXCEPT !.todo = t, !.undo = u, !.at = a] =>
              /\ cmd'.kind = cmd.kind /\ cmd'.to = cmd.to /\ cmd'.before = cmd.before
              /\ cmd'.todo = t /\ cmd'.undo = u /\ cmd'.at = a /\ cmd'.saved = cmd.saved
              /\ cmd'.ok = cmd.ok /\ cmd'.stuck = cmd.stuck
         /\ cmd' = [cmd EXCEPT !.todo = t, !.ok = FALSE, !.at = a] =>
              /\ cmd'.kind = cmd.kind /\ cmd'.to = cmd.to /\ cmd'.before = cmd.before
              /\ cmd'.todo = t /\ cmd'.undo = cmd.undo /\ cmd'.at = a /\ cmd'.saved = cmd.saved
              /\ cmd'.ok = FALSE /\ cmd'.stuck = cmd.stuck
         /\ cmd' = [cmd EXCEPT !.todo = t, !.undo = u] =>
              /\ cmd'.kind = cmd.kind /\ cmd'.to = cmd.to /\ cmd'.before = cmd.before
              /\ cmd'.todo = t /\ cmd'.undo = u /\ cmd'.at = cmd.at /\ cmd'.saved = cmd.saved
              /\ cmd'.ok = cmd.ok /\ cmd'.stuck = cmd.stuck
         /\ cmd' = [cmd EXCEPT !.todo = t] =>
              /\ cmd'.kind = cmd.kind /\ cmd'.to = cmd.to /\ cmd'.before = cmd.before
              /\ cmd'.todo = t /\ cmd'.undo = cmd.undo /\ cmd'.at = cmd.at
              /\ cmd'.saved = cmd.saved /\ cmd'.ok = cmd.ok /\ cmd'.stuck = cmd.stuck
  BY DEF Command

LEMMA UndoingComesLater ==
  \A i \in 1..8 : /\ H!Upgrade[i] # "restart old" /\ H!Upgrade[i] # "rollback"
                  /\ H!Upgrade[i] # "restore"
  <1> SUFFICES ASSUME NEW i \in 1..8
               PROVE  /\ H!Upgrade[i] # "restart old" /\ H!Upgrade[i] # "rollback"
                      /\ H!Upgrade[i] # "restore"
    OBVIOUS
  <1>1. i = 1 \/ i = 2 \/ i = 3 \/ i = 4 \/ i = 5 \/ i = 6 \/ i = 7 \/ i = 8
    OBVIOUS
  <1> QED BY <1>1, UpgradeList

\* The steps of an upgrade that goes on.
LEMMA UpgradeGoesOnAnswering ==
  ASSUME HostInv, UpgradeAnswers, cmd.kind = "upgrade", H!UpgradeStep \/ H!WriteUnits,
         cmd.todo # <<>>, ~cmd.stuck, cmd.ok
  PROVE  UpgradeAnswers'
  <1>1. /\ cmd \in Command /\ cmd.to \in Nat /\ cmd.to # 0
        /\ cmd.todo \in Seq(UpgradeSteps) /\ cmd.undo \in Seq(UpgradeSteps)
    BY UpgradePosition
  <1>2. PICK j \in 1..8 : /\ UpgradeAt(j) /\ Head(cmd.todo) = H!Upgrade[j]
                          /\ Tail(cmd.todo) = From(H!Upgrade, j + 1)
    BY UpgradePosition
  <1>3. /\ HostTypes /\ DiskTyped /\ DataTyped /\ Keyed(file) /\ Keyed(wal) /\ key # 0
        /\ H!Live \in Datum
    BY LiveData DEF HostInv, HostTypes, DataKept, Upgrading, ConfigKept
  <1> DEFINE Goes(i) == /\ cmd'.kind = "upgrade" /\ cmd'.to = cmd.to /\ cmd'.before = cmd.before
                        /\ cmd'.todo = From(H!Upgrade, i) /\ cmd'.ok
  <1>4. ASSUME H!Advance
        PROVE  /\ Goes(j + 1) /\ cmd'.undo = cmd.undo /\ cmd'.saved = cmd.saved /\ cmd'.at = cmd.at
    BY <1>1, <1>2, <1>4, UpgradeAdvances
  <1>5. \A i \in 1..9 : UpgradeAt(i)' /\ cmd'.ok => UpgradeAnswers'
    BY DEF UpgradeAnswers
  <1>6. (OldServes \/ CopyWaits)' /\ ~cmd'.ok => UpgradeAnswers'
    BY DEF UpgradeAnswers
  <1>7. CASE H!reconcile
    <2>1. j = 1
      BY <1>2, <1>7, UpgradeList DEF H!reconcile, H!Step
    <2>2. UpgradeAt(2)'
      BY <1>2, <1>4, <1>7, <2>1 DEF UpgradeAt, H!reconcile, H!disk, H!database, H!services
    <2> QED BY <1>4, <1>5, <1>7, <2>2 DEF H!reconcile
  <1>8. CASE H!stopServices
    <2>1. j = 2
      BY <1>2, <1>8, UpgradeList DEF H!stopServices, H!Step
    <2>2. UNCHANGED <<binary, units>>
      BY <1>8 DEF H!stopServices, H!disk
    <2>3. CASE /\ H!StopServices
               /\ cmd' = [cmd EXCEPT !.todo = Tail(@), !.undo = StartOld, !.at = H!Live]
      <3>1. panel' = 0 /\ H!Live' = H!Live
        BY <1>3, <2>3, Stopping
      <3>2. Goes(3) /\ cmd'.undo = StartOld /\ cmd'.at = H!Live
        <4>1. cmd' = [cmd EXCEPT !.todo = Tail(cmd.todo), !.undo = StartOld, !.at = H!Live]
          BY <1>1, <2>3 DEF Command, StartOld
        <4>2. Tail(cmd.todo) = From(H!Upgrade, 3)
          BY <1>2, <2>1
        <4>3. /\ cmd'.kind = cmd.kind /\ cmd'.to = cmd.to /\ cmd'.before = cmd.before
              /\ cmd'.todo = Tail(cmd.todo) /\ cmd'.undo = StartOld /\ cmd'.at = H!Live
              /\ cmd'.ok = cmd.ok
          BY <1>1, <4>1, UpgradeEdits, ZenonT(60)
        <4> QED BY <4>2, <4>3
      <3>3. UpgradeAt(3)'
        BY <1>2, <2>1, <2>2, <3>1, <3>2 DEF UpgradeAt
      <3> QED BY <1>5, <3>2, <3>3
    <2>4. CASE /\ \/ H!StopServices
                  \/ UNCHANGED <<H!services, H!database>>
                  \/ panel' = 0 /\ listens' = "none" /\ UNCHANGED <<broker, H!database>>
               /\ cmd' = [cmd EXCEPT !.todo = StartOld, !.ok = FALSE, !.at = H!Live]
      <3>1. H!Live' = H!Live
        BY <1>3, <2>4, Stopping, LiveInFile DEF H!database
      <3>2. /\ cmd'.before = cmd.before /\ cmd'.todo = StartOld /\ ~cmd'.ok
            /\ cmd'.at = H!Live
        BY <1>1, <2>4 DEF Command
      <3>3. H!Live.rows \in Nat
        BY <1>3 DEF Datum
      <3>5. SameBinary
        BY <1>2, <2>1 DEF SameBinary, UpgradeAt
      <3>6. SameBinary'
        BY <2>2, <3>2, <3>5 DEF SameBinary
      <3>7. RowsKept' /\ SchemaKept'
        BY <3>1, <3>2, <3>3 DEF RowsKept, SchemaKept
      <3>4. OldServes'
        BY <3>2, <3>6, <3>7 DEF OldServes
      <3> QED BY <1>6, <3>2, <3>4
    <2> QED BY <1>8, <2>3, <2>4 DEF H!stopServices, StartOld
  <1>9. CASE H!checkpointSQLite
    <2>1. j = 3
      BY <1>2, <1>9, UpgradeList DEF H!checkpointSQLite, H!Step
    <2>2. /\ H!Live # H!None /\ file' = H!Live /\ wal' = H!None /\ H!Live' = H!Live
          /\ UNCHANGED <<binary, units, panel>>
      BY <1>9, LiveInFile DEF H!checkpointSQLite, H!disk, H!services
    <2>3. UpgradeAt(4)'
      BY <1>2, <1>4, <1>9, <2>1, <2>2 DEF UpgradeAt, H!checkpointSQLite
    <2> QED BY <1>4, <1>5, <1>9, <2>3 DEF H!checkpointSQLite
  <1>10. CASE H!copyFile
    <2>1. j = 4
      BY <1>2, <1>10, UpgradeList DEF H!copyFile, H!Step
    <2>2. /\ UNCHANGED <<binary, units, panel, file, wal>> /\ H!Live' = H!Live
      BY <1>10, LiveInFile DEF H!copyFile, H!disk, H!services, H!database
    <2>3. Goes(5) /\ cmd'.undo = cmd.undo /\ cmd'.saved = file /\ cmd'.at = cmd.at
      BY <1>1, <1>2, <1>10, <2>1 DEF H!copyFile, Command
    <2>4. UpgradeAt(5)'
      BY <1>2, <2>1, <2>2, <2>3 DEF UpgradeAt
    <2> QED BY <1>5, <2>3, <2>4
  <1>11. CASE H!replaceFile
    <2>1. j = 5
      BY <1>2, <1>11, UpgradeList DEF H!replaceFile, H!Step
    <2>2. /\ UNCHANGED <<units, panel, file, wal>> /\ H!Live' = H!Live /\ binary' = cmd.to
      BY <1>11, LiveInFile DEF H!replaceFile, H!services, H!database
    <2>3. Goes(6) /\ cmd'.undo = RollBack /\ cmd'.saved = cmd.saved /\ cmd'.at = cmd.at
      <3>1. cmd' = [cmd EXCEPT !.todo = Tail(cmd.todo), !.undo = RollBack]
        BY <1>1, <1>11 DEF H!replaceFile, Command, RollBack
      <3>2. Tail(cmd.todo) = From(H!Upgrade, 6)
        BY <1>2, <2>1
      <3> QED BY <1>1, <3>1, <3>2, UpgradeEdits
    <2>4. UpgradeAt(6)'
      BY <1>2, <2>1, <2>2, <2>3 DEF UpgradeAt
    <2> QED BY <1>5, <2>3, <2>4
  <1>12. CASE H!WriteUnits
    <2>1. j = 6
      BY <1>2, <1>12, UpgradeList DEF H!WriteUnits, H!Step
    <2>2. /\ UNCHANGED <<binary, panel, file, wal>> /\ H!Live' = H!Live /\ units' = cmd.to
      BY <1>12, LiveInFile DEF H!WriteUnits, H!services, H!database
    <2>3. UpgradeAt(7)'
      BY <1>2, <1>4, <1>12, <2>1, <2>2 DEF UpgradeAt, H!WriteUnits
    <2> QED BY <1>4, <1>5, <1>12, <2>3 DEF H!WriteUnits
  <1>13. CASE H!startServices
    <2>1. j = 7
      BY <1>2, <1>13, UpgradeList DEF H!startServices, H!Step
    <2>2. UNCHANGED <<binary, units>>
      BY <1>13 DEF H!startServices, H!disk
    <2>3. CASE H!StartServices /\ H!Advance
      <3>1. H!Live'.rows = H!Live.rows /\ H!Live'.rows \in Nat
        BY <1>3, <2>3, Restarted DEF Datum
      <3>2. panel' = binary /\ broker' = binary
        BY <2>3 DEF H!StartServices
      <3>3. UpgradeAt(8)'
        BY <1>2, <1>4, <2>1, <2>2, <2>3, <3>1, <3>2 DEF UpgradeAt, RowsKept
      <3> QED BY <1>4, <1>5, <2>3, <3>3
    <2>4. CASE H!Failing(<<>>)
      <3>1. UpgradeSteps \in SUBSET AllSteps /\ <<>> \in Seq(UpgradeSteps)
        BY EmptySeq DEF AllSteps
      <3>2. /\ cmd'.todo = <<>> \o cmd.undo /\ cmd'.ok = FALSE /\ cmd'.saved = cmd.saved
            /\ cmd'.at = cmd.at
        BY <1>1, <2>4, <3>1, FailingStep
      <3>3. cmd'.todo = RollBack
        BY <1>1, <1>2, <2>1, <3>2, ConcatEmptySeq DEF UpgradeAt
      <3>4. CopyWaits'
        <4>1. cmd'.todo # <<>> /\ Head(cmd'.todo) = "rollback"
          BY <3>3, OneStepList DEF RollBack
        <4>2. cmd'.saved = cmd'.at /\ cmd'.at # H!None
          BY <1>2, <2>1, <3>2 DEF UpgradeAt
        <4> QED BY <4>1, <4>2 DEF CopyWaits
      <3> QED BY <1>6, <3>2, <3>4
    <2> QED BY <1>13, <2>3, <2>4 DEF H!startServices
  <1>14. CASE H!waitForPanel
    <2>1. j = 8
      BY <1>2, <1>14, UpgradeList DEF H!waitForPanel, H!Step
    <2>2. UNCHANGED <<binary, units, panel, broker, file, wal>> /\ H!Live' = H!Live
      BY <1>14, LiveInFile DEF H!waitForPanel, H!disk, H!services, H!database
    <2>3. UpgradeAt(9)'
      BY <1>2, <1>4, <1>14, <2>1, <2>2 DEF UpgradeAt, H!waitForPanel, RowsKept
    <2> QED BY <1>4, <1>5, <1>14, <2>3 DEF H!waitForPanel
  <1>15. CASE H!restartOld \/ H!rollback \/ H!restore
    <2>1. \/ Head(cmd.todo) = "restart old" \/ Head(cmd.todo) = "rollback"
          \/ Head(cmd.todo) = "restore"
      BY <1>15 DEF H!restartOld, H!rollback, H!restore, H!Step
    <2> QED BY <1>2, <2>1, UndoingComesLater
  <1> QED BY <1>7, <1>8, <1>9, <1>10, <1>11, <1>12, <1>13, <1>14, <1>15 DEF H!UpgradeStep
\* The steps of an upgrade that is being undone.
LEMMA UpgradeUndoneAnswering ==
  ASSUME HostInv, UpgradeAnswers, cmd.kind = "upgrade", H!UpgradeStep \/ H!WriteUnits,
         cmd.todo # <<>>, ~cmd.stuck, ~cmd.ok, ~cmd'.stuck
  PROVE  UpgradeAnswers'
  <1>1. /\ cmd \in Command
        /\ cmd.todo \in Seq(UpgradeSteps) /\ cmd.undo \in Seq(UpgradeSteps)
    BY UpgradePosition
  <1>2. \/ OldServes /\ cmd.todo = StartOld /\ Head(cmd.todo) = "restart old"
           /\ Tail(cmd.todo) = <<>>
        \/ CopyWaits /\ Head(cmd.todo) \in {"rollback", "restore"}
    BY UpgradePosition
  <1>3. /\ HostTypes /\ DiskTyped /\ DataTyped /\ Keyed(file) /\ Keyed(wal) /\ key # 0
        /\ H!Live \in Datum
    BY LiveData DEF HostInv, HostTypes, DataKept, Upgrading, ConfigKept
  <1>4. ASSUME H!Failing(<<>>) PROVE FALSE
    <2>1. UpgradeSteps \in SUBSET AllSteps /\ <<>> \in Seq(UpgradeSteps)
      BY EmptySeq DEF AllSteps
    <2> QED BY <1>1, <1>4, <2>1, FailingStep
  <1>5. (OldServes \/ CopyWaits)' /\ ~cmd'.ok => UpgradeAnswers'
    BY DEF UpgradeAnswers
  <1>6. CASE H!restartOld
    <2>1. OldServes /\ Tail(cmd.todo) = <<>>
      BY <1>2, <1>6 DEF H!restartOld, H!Step
    <2>2. H!StartServices /\ H!Advance /\ UNCHANGED <<binary, units>>
      BY <1>4, <1>6 DEF H!restartOld, H!disk
    <2>3. /\ cmd'.before = cmd.before /\ cmd'.todo = <<>> /\ cmd'.at = cmd.at /\ ~cmd'.ok
      BY <1>1, <2>1, <2>2, UpgradeAdvances
    <2>4. H!Live'.rows = H!Live.rows /\ H!Live'.schema \in {H!Live.schema, binary}
      BY <1>3, <2>2, Restarted
    <2>5. SameBinary'
      BY <2>1, <2>2, <2>3 DEF OldServes, SameBinary
    <2>6. cmd'.at # H!None => RowsKept'
      BY <2>1, <2>3, <2>4 DEF OldServes, RowsKept
    <2>7. SchemaKept'
      BY <2>1, <2>2, <2>3, <2>4 DEF OldServes, SchemaKept
    <2>8. OldServes'
      BY <2>3, <2>5, <2>6, <2>7 DEF OldServes
    <2> QED BY <1>5, <2>3, <2>8
  <1>7. CASE H!rollback
    <2>1. CopyWaits
      BY <1>2, <1>7 DEF H!rollback, H!Step
    <2>2. cmd' = [cmd EXCEPT !.todo = <<"restore">>]
      BY <1>4, <1>7 DEF H!rollback
    <2>3. /\ cmd'.todo = <<"restore">> /\ cmd'.saved = cmd.saved /\ cmd'.at = cmd.at
          /\ cmd'.ok = cmd.ok
      BY <1>1, <2>2 DEF Command
    <2>4. cmd'.todo # <<>> /\ Head(cmd'.todo) = "restore"
      BY <2>3, OneStepList
    <2>5. CopyWaits'
      BY <2>1, <2>3, <2>4 DEF CopyWaits
    <2> QED BY <1>5, <2>3, <2>5
  <1>8. CASE H!restore
    <2>1. CopyWaits
      BY <1>2, <1>8 DEF H!restore, H!Step
    <2>2. /\ H!restoreState /\ binary' = cmd.before.binary /\ units' = cmd.before.units
          /\ cmd' = [cmd EXCEPT !.todo = StartOld]
      BY <1>4, <1>8 DEF H!restore, StartOld
    <2>3. /\ cmd'.todo = StartOld /\ cmd'.before = cmd.before /\ cmd'.at = cmd.at
          /\ cmd'.ok = cmd.ok
      BY <1>1, <2>2, UpgradeEdits
    <2>4. H!Live' = cmd.at
      BY <2>1, <2>2, LiveInFile DEF CopyWaits, H!restoreState
    <2>5. cmd.at.rows \in Nat
      BY <1>1 DEF Command, Datum
    <2>6. SameBinary' /\ RowsKept' /\ SchemaKept'
      BY <2>2, <2>3, <2>4, <2>5 DEF SameBinary, RowsKept, SchemaKept
    <2>7. OldServes'
      BY <2>3, <2>6 DEF OldServes
    <2> QED BY <1>5, <2>3, <2>7
  <1>9. Head(cmd.todo) = "restart old" \/ Head(cmd.todo) = "rollback" \/ Head(cmd.todo) = "restore"
    BY <1>2
  <1>10. H!restartOld \/ H!rollback \/ H!restore
    BY <1>9
       DEF H!UpgradeStep, H!Step, H!reconcile, H!stopServices, H!checkpointSQLite, H!copyFile,
           H!replaceFile, H!startServices, H!waitForPanel, H!WriteUnits
  <1> QED BY <1>6, <1>7, <1>8, <1>10

\* A failure that was met while undoing is not forgotten.
LEMMA StuckStays ==
  ASSUME HostInv, cmd.kind = "upgrade", H!UpgradeStep \/ H!WriteUnits, cmd.stuck
  PROVE  cmd'.stuck
  <1>0. cmd.todo # <<>>
    BY DEF H!UpgradeStep, H!Step, H!reconcile, H!stopServices, H!checkpointSQLite, H!copyFile,
           H!replaceFile, H!startServices, H!waitForPanel, H!restartOld, H!rollback, H!restore,
           H!WriteUnits
  <1>1. /\ cmd \in Command /\ cmd.todo \in Seq(UpgradeSteps) /\ cmd.undo \in Seq(UpgradeSteps)
    BY <1>0, StepsOfKind DEF HostInv, Upgrading
  <1>2. H!Advance => cmd'.stuck
    BY <1>0, <1>1, UpgradeAdvances
  <1>3. H!Failing(<<>>) => cmd'.stuck
    BY <1>1 DEF H!Failing, Command
  <1>4. \A t : cmd' = [cmd EXCEPT !.todo = t] => cmd'.stuck
    BY <1>1, UpgradeEdits
  <1>5. CASE H!stopServices
    BY <1>1, <1>5 DEF H!stopServices, Command
  <1>6. CASE H!copyFile \/ H!replaceFile
    BY <1>1, <1>6 DEF H!copyFile, H!replaceFile, Command
  <1>7. CASE H!rollback \/ H!restore
    BY <1>3, <1>4, <1>7 DEF H!rollback, H!restore
  <1>8. CASE H!reconcile \/ H!checkpointSQLite \/ H!waitForPanel \/ H!WriteUnits
    BY <1>2, <1>8 DEF H!reconcile, H!checkpointSQLite, H!waitForPanel, H!WriteUnits
  <1>9. CASE H!startServices \/ H!restartOld
    BY <1>2, <1>3, <1>9 DEF H!startServices, H!restartOld
  <1> QED BY <1>5, <1>6, <1>7, <1>8, <1>9 DEF H!UpgradeStep

LEMMA UpgradeStepAnswers ==
  ASSUME HostInv, UpgradeAnswers, cmd.kind = "upgrade", H!UpgradeStep \/ H!WriteUnits
  PROVE  UpgradeAnswers'
  <1>1. cmd.todo # <<>>
    BY DEF H!UpgradeStep, H!Step, H!reconcile, H!stopServices, H!checkpointSQLite, H!copyFile,
           H!replaceFile, H!startServices, H!waitForPanel, H!restartOld, H!rollback, H!restore,
           H!WriteUnits
  <1>2. CASE cmd'.stuck
    BY <1>2 DEF UpgradeAnswers
  <1>3. CASE ~cmd'.stuck
    <2>1. ~cmd.stuck
      BY <1>3, StuckStays
    <2> QED BY <1>1, <1>3, <2>1, UpgradeGoesOnAnswering, UpgradeUndoneAnswering
  <1> QED BY <1>2, <1>3

\* A step of an upgrade that fails.
LEMMA UpgradeFailAnswers ==
  ASSUME HostInv, UpgradeAnswers, cmd.kind = "upgrade", H!Fail
  PROVE  UpgradeAnswers'
  <1>1. /\ cmd.todo # <<>> /\ cmd.ok
        /\ UNCHANGED <<H!disk, H!database, H!access, H!services, commands>>
    BY DEF H!Fail, H!Undoing
  <1>2. UNCHANGED <<binary, units, file, wal>> /\ H!Live' = H!Live
    BY <1>1, LiveInFile DEF H!disk, H!database
  <1>3. /\ cmd \in Command /\ cmd.todo \in Seq(UpgradeSteps) /\ cmd.undo \in Seq(UpgradeSteps)
    BY <1>1, StepsOfKind DEF HostInv, Upgrading
  <1>4. ~H!Step("http") /\ ~H!Step("unlink")
    BY <1>1, StepsOfKind DEF H!Step, UpgradeSteps
  <1>5. /\ \/ H!Step("reconcile") \/ H!Step("checkpoint") \/ H!Step("save")
           \/ H!Step("units") \/ H!Step("ready") \/ H!Step("replace")
        /\ H!Step("replace") => H!Failing(RollBack)
        /\ ~H!Step("replace") => H!Failing(<<>>)
    BY <1>4 DEF H!Fail, H!Kind, RollBack
  <1>6. UpgradeSteps \in SUBSET AllSteps /\ <<>> \in Seq(UpgradeSteps) /\ RollBack \in Seq(UpgradeSteps)
    BY EmptySeq DEF AllSteps, UpgradeSteps, RollBack
  <1>7. /\ H!Step("replace") => cmd'.todo = RollBack \o cmd.undo
        /\ ~H!Step("replace") => cmd'.todo = <<>> \o cmd.undo
        /\ cmd'.ok = FALSE /\ cmd'.saved = cmd.saved /\ cmd'.at = cmd.at
        /\ cmd'.before = cmd.before /\ cmd'.stuck = cmd.stuck
    BY <1>1, <1>3, <1>5, <1>6, FailingStep DEF Move
  <1>8. CASE cmd.stuck
    BY <1>7, <1>8 DEF UpgradeAnswers
  <1>9. CASE ~cmd.stuck
    <2>1. PICK j \in 1..8 : UpgradeAt(j) /\ Head(cmd.todo) = H!Upgrade[j]
      BY <1>1, <1>9, UpgradePosition
    <2>2. (OldServes \/ CopyWaits)' => UpgradeAnswers'
      BY <1>7 DEF UpgradeAnswers
    <2>3. H!Live.rows \in Nat
      BY LiveData DEF HostInv, HostTypes, Datum
    <2>4. CASE j = 1
      <3>1. cmd'.todo = <<>>
        BY <1>1, <1>3, <1>7, <2>1, <2>4, UpgradeList, ConcatEmptySeq DEF UpgradeAt, H!Step
      <3>2. SameBinary' /\ cmd'.at = H!None
        BY <1>2, <1>7, <2>1, <2>4 DEF SameBinary, UpgradeAt
      <3>3. OldServes'
        BY <3>1, <3>2 DEF OldServes, SchemaKept
      <3> QED BY <2>2, <3>3
    <2>5. CASE j = 3 \/ j = 4
      <3>1. cmd'.todo = StartOld
        <4>1. ~H!Step("replace")
          BY <2>1, <2>5, UpgradeList DEF H!Step
        <4>2. cmd.undo = StartOld
          BY <2>1, <2>5 DEF UpgradeAt
        <4> QED BY <1>3, <1>7, <4>1, <4>2, ConcatEmptySeq
      <3>2. binary = cmd.before.binary /\ units = cmd.before.units /\ H!Live = cmd.at
        BY <2>1, <2>5 DEF UpgradeAt
      <3>3. SameBinary' /\ RowsKept' /\ SchemaKept'
        BY <1>2, <1>7, <2>3, <3>2 DEF SameBinary, RowsKept, SchemaKept
      <3>4. OldServes'
        BY <3>1, <3>3 DEF OldServes
      <3> QED BY <2>2, <3>4
    <2>6. CASE j = 5
      <3>1. cmd'.todo = RollBack \o cmd.undo
        BY <1>1, <1>7, <2>1, <2>6, UpgradeList DEF H!Step
      <3>2. cmd'.todo # <<>> /\ Head(cmd'.todo) = "rollback"
        <4>1. "rollback" \in UpgradeSteps
          BY DEF UpgradeSteps
        <4>2. RollBack \o cmd.undo # <<>> /\ Head(RollBack \o cmd.undo) = "rollback"
          BY <1>3, <4>1, PutBefore DEF RollBack
        <4> QED BY <3>1, <4>2
      <3>3. cmd.saved = cmd.at /\ cmd.at # H!None
        BY <2>1, <2>6 DEF UpgradeAt
      <3>4. CopyWaits'
        BY <1>7, <3>2, <3>3 DEF CopyWaits
      <3> QED BY <2>2, <3>4
    <2>7. CASE j = 6 \/ j = 8
      <3>1. cmd'.todo = RollBack
        BY <1>1, <1>3, <1>7, <2>1, <2>7, UpgradeList, ConcatEmptySeq DEF UpgradeAt, H!Step
      <3>2. cmd'.todo # <<>> /\ Head(cmd'.todo) = "rollback"
        BY <3>1, OneStepList DEF RollBack
      <3>3. cmd.saved = cmd.at /\ cmd.at # H!None
        BY <2>1, <2>7 DEF UpgradeAt
      <3>4. CopyWaits'
        BY <1>7, <3>2, <3>3 DEF CopyWaits
      <3> QED BY <2>2, <3>4
    <2>8. j # 2 /\ j # 7
      BY <1>1, <1>5, <2>1, UpgradeList DEF H!Step
    <2>9. j = 1 \/ j = 2 \/ j = 3 \/ j = 4 \/ j = 5 \/ j = 6 \/ j = 7 \/ j = 8
      BY <2>1
    <2> QED BY <2>4, <2>5, <2>6, <2>7, <2>8, <2>9
  <1> QED BY <1>8, <1>9

\* A row is written under a command.
LEMMA UpgradeWriteAnswers ==
  ASSUME HostInv, UpgradeAnswers, cmd.kind = "upgrade", H!WriteRow
  PROVE  UpgradeAnswers'
  <1>1. /\ H!Live # H!None /\ wal' = [H!Live EXCEPT !.rows = @ + 1] /\ panel # 0
        /\ UNCHANGED <<H!disk, file, H!access, H!services, cmd, commands>>
    BY DEF H!WriteRow
  <1>2. UNCHANGED <<binary, units, panel, broker>>
    BY <1>1 DEF H!disk, H!services
  <1>3. H!Live \in Datum /\ H!Live.rows \in Nat
    BY LiveData DEF HostInv, HostTypes, Datum
  <1>4. /\ wal' \in Datum /\ wal'.rows = H!Live.rows + 1 /\ wal'.schema = H!Live.schema
    BY <1>1, <1>3 DEF Datum
  <1>5. wal' # H!None
    BY <1>3, <1>4, NoData
  <1>6. H!Live'.rows = H!Live.rows + 1 /\ H!Live'.schema = H!Live.schema
    BY <1>4, <1>5, LiveInFile
  <1>7. cmd.at # H!None \/ cmd.kind = "upgrade" => cmd.at.rows \in Nat
    <2>1. cmd \in Command
      BY NoCommandFields DEF HostInv, HostTypes, CommandTyped
    <2> QED BY <2>1 DEF Command, Datum
  <1>8. RowsKept => RowsKept'
    BY <1>1, <1>3, <1>6, <1>7 DEF RowsKept
  <1>9. SchemaKept => SchemaKept'
    BY <1>1, <1>2, <1>6 DEF SchemaKept
  <1>10. OldServes \/ CopyWaits => (OldServes \/ CopyWaits)'
    BY <1>1, <1>2, <1>8, <1>9 DEF OldServes, CopyWaits, SameBinary
  <1>11. ASSUME NEW j \in 1..9, UpgradeAt(j) PROVE UpgradeAt(j)'
    <2>1. j <= 2 \/ 7 < j
      BY <1>1, <1>11 DEF UpgradeAt
    <2> QED BY <1>1, <1>2, <1>8, <1>11, <2>1 DEF UpgradeAt
  <1> QED BY <1>1, <1>10, <1>11 DEF UpgradeAnswers
-----------------------------------------------------------------------------
(***************************************************************************)
(* A change of access keeps, on the list of what is to be undone, a step    *)
(* for everything that is not as it was; undoing takes a step off that list *)
(* only when it has put back what the step is for.                          *)
(***************************************************************************)
Elems(s) == {s[i] : i \in 1..Len(s)}

LEMMA ElemsConcat ==
  ASSUME NEW Items, NEW s \in Seq(Items), NEW t \in Seq(Items)
  PROVE  Elems(s \o t) = Elems(s) \cup Elems(t)
  <1>1. Len(s) \in Nat /\ Len(t) \in Nat
    BY LenProperties
  <1>2. /\ Len(s \o t) = Len(s) + Len(t)
        /\ \A i \in 1 .. Len(s) + Len(t) :
               (s \o t)[i] = IF i <= Len(s) THEN s[i] ELSE t[i - Len(s)]
    BY ConcatProperties
  <1>3. \A i \in 1 .. Len(t) : t[i] = (s \o t)[i + Len(s)] /\ i + Len(s) \in 1..Len(s \o t)
    BY <1>1, <1>2
  <1>4. \A i \in 1 .. Len(s) : s[i] = (s \o t)[i] /\ i \in 1..Len(s \o t)
    BY <1>1, <1>2
  <1>5. \A i \in 1 .. Len(s) + Len(t) : ~(i <= Len(s)) => i - Len(s) \in 1..Len(t)
    BY <1>1
  <1> QED BY <1>1, <1>2, <1>3, <1>4, <1>5 DEF Elems

LEMMA ElemsOfList ==
  ASSUME NEW Items, NEW s \in Seq(Items)
  PROVE  /\ Elems(<<>>) = {} /\ \A e : Elems(<<e>>) = {e}
         /\ Elems(s) \subseteq Items
         /\ s # <<>> => Elems(s) = {Head(s)} \cup Elems(Tail(s))
  <1>1. Len(<<>>) = 0 /\ Elems(<<>>) = {}
    BY DEF Elems
  <1>2. \A e : Elems(<<e>>) = {e}
    <2>1. ASSUME NEW e PROVE Elems(<<e>>) = {e}
      <3>1. Len(<<e>>) = 1 /\ <<e>>[1] = e
        OBVIOUS
      <3> QED BY <3>1 DEF Elems
    <2> QED BY <2>1
  <1>3. Elems(s) \subseteq Items
    BY ElementOfSeq DEF Elems
  <1>4. ASSUME s # <<>> PROVE Elems(s) = {Head(s)} \cup Elems(Tail(s))
    <2>1. /\ Len(s) \in Nat /\ Len(s) # 0 /\ Head(s) = s[1] /\ Len(Tail(s)) = Len(s) - 1
          /\ \A i \in 1 .. Len(Tail(s)) : Tail(s)[i] = s[i + 1]
      BY <1>4, HeadTailProperties, EmptySeq, LenProperties
    <2>2. \A i \in 1..Len(s) : i = 1 \/ (i - 1 \in 1..Len(Tail(s)) /\ s[i] = Tail(s)[i - 1])
      BY <2>1
    <2>3. \A i \in 1..Len(Tail(s)) : i + 1 \in 1..Len(s) /\ Tail(s)[i] = s[i + 1]
      BY <2>1
    <2>4. Elems(s) \subseteq {Head(s)} \cup Elems(Tail(s))
      BY <2>1, <2>2 DEF Elems
    <2>5. {Head(s)} \cup Elems(Tail(s)) \subseteq Elems(s)
      BY <2>1, <2>3 DEF Elems
    <2> QED BY <2>4, <2>5
  <1> QED BY <1>1, <1>2, <1>3, <1>4

Going     == cmd.ok
Was       == cmd.before.address
SameProxy == proxy = Was.proxy /\ link = Was.link /\ nginx = Was.nginx
UndoSteps == {"unconfig", "reroute", "remove route", "unproxy"}
PutBack   == UndoSteps \cup {"restart panel"}

\* Everything that is not as it was has its step in R.
Undo(R) ==
    /\ config # Was.config => "unconfig" \in R
    /\ listens # Was.listens => "unconfig" \in R \/ "restart panel" \in R
    /\ "restart panel" \in R => config = Was.config
    /\ route # Was.route => "reroute" \in R \/ "remove route" \in R
    /\ "reroute" \in R => Was.route = TRUE
    /\ "remove route" \in R => Was.route = FALSE
    /\ ~SameProxy => "unproxy" \in R

Routed == IF cmd.to = "tailscale" THEN TRUE ELSE FALSE
Chosen == IF cmd.to = "public" THEN "public" ELSE "local"

\* What the steps have done that are not on the list any more.
Plain(i) ==
    /\ cmd.to # "domain" /\ cmd.todo = From(H!Configure(cmd.to), i)
    /\ i <= 1 => route = Was.route
    /\ 1 < i => route = Routed
    /\ i <= 2 => SameProxy
    /\ 2 < i => nginx = "none"
    /\ 3 < i => /\ config = Chosen
                /\ "unconfig" \in Elems(cmd.undo)
    /\ 4 < i => listens = config

Domain(i) ==
    /\ cmd.to = "domain" /\ cmd.todo = From(H!Configure(cmd.to), i)
    /\ i <= 1 => route = Was.route
    /\ 1 < i => route = FALSE
    /\ 2 < i => "unproxy" \in Elems(cmd.undo)
    /\ 4 < i => nginx = "https"
    /\ 5 < i => config = "local" /\ "unconfig" \in Elems(cmd.undo)
    /\ 6 < i => listens = config

Configuring == (\E i \in 1..5 : Plain(i)) \/ (\E i \in 1..7 : Domain(i))
Forward     == cmd.undo \in Seq(UndoSteps) /\ Undo(Elems(cmd.undo)) /\ Configuring
Backward    == cmd.todo \in Seq(PutBack) /\ Undo(Elems(cmd.todo))

\* Nothing has failed but what is being undone, and no command before was killed.
Changing == cmd.kind = "access" /\ ~cmd.stuck /\ H!Settled(Was)

AccessAnswers ==
    Changing =>
        /\ cmd.to \in Ways
        /\ Going => Forward
        /\ ~Going => Backward

LEMMA NotAtTheEnd ==
  ASSUME NEW Items, NEW s \in Seq(Items), NEW n \in Nat, Len(s) = n, NEW i \in 1..n + 1, From(s, i) # <<>>
  PROVE  i \in 1..n /\ Head(From(s, i)) = s[i] /\ Tail(From(s, i)) = From(s, i + 1)
  <1>1. From(s, n + 1) = <<>>
    BY Rest
  <1>2. i \in 1..n
    BY <1>1
  <1> QED BY <1>2, Rest

\* Where a change of access stands that has a step to do.
LEMMA AccessPosition ==
  ASSUME AccessAnswers, Changing, Going, cmd.todo # <<>>
  PROVE  \/ \E i \in 1..4 : /\ Plain(i) /\ Head(cmd.todo) = H!Configure(cmd.to)[i]
                            /\ Tail(cmd.todo) = From(H!Configure(cmd.to), i + 1)
         \/ \E i \in 1..6 : /\ Domain(i) /\ Head(cmd.todo) = H!Configure("domain")[i]
                            /\ Tail(cmd.todo) = From(H!Configure("domain"), i + 1)
  <1>1. cmd.to \in Ways /\ Configuring
    BY DEF AccessAnswers, Forward
  <1>2. CASE \E i \in 1..5 : Plain(i)
    <2>1. PICK i \in 1..5 : Plain(i)
      BY <1>2
    <2>2. cmd.to \in Ways \ {"domain"} /\ cmd.todo = From(H!Configure(cmd.to), i)
      BY <1>1, <2>1 DEF Plain
    <2>3. H!Configure(cmd.to) \in Seq(AccessSteps) /\ Len(H!Configure(cmd.to)) = 4
      BY <2>2, AccessList
    <2>4. i \in 1..4 + 1 /\ 4 \in Nat
      OBVIOUS
    <2>5. /\ i \in 1..4 /\ Head(cmd.todo) = H!Configure(cmd.to)[i]
          /\ Tail(cmd.todo) = From(H!Configure(cmd.to), i + 1)
      <3>1. PICK s : s = H!Configure(cmd.to)
        OBVIOUS
      <3>2. s \in Seq(AccessSteps) /\ Len(s) = 4 /\ cmd.todo = From(s, i) /\ From(s, i) # <<>>
        BY <2>2, <2>3, <3>1
      <3>3. i \in 1..4 /\ Head(From(s, i)) = s[i] /\ Tail(From(s, i)) = From(s, i + 1)
        BY <2>4, <3>2, NotAtTheEnd
      <3> QED BY <3>1, <3>2, <3>3
    <2> QED BY <2>1, <2>5
  <1>3. CASE \E i \in 1..7 : Domain(i)
    <2>1. PICK i \in 1..7 : Domain(i)
      BY <1>3
    <2>2. cmd.to = "domain" /\ cmd.todo = From(H!Configure("domain"), i)
      BY <1>1, <2>1 DEF Domain
    <2>3. H!Configure("domain") \in Seq(AccessSteps) /\ Len(H!Configure("domain")) = 6
      BY DomainList
    <2>4. i \in 1..6 + 1 /\ 6 \in Nat
      OBVIOUS
    <2>5. /\ i \in 1..6 /\ Head(cmd.todo) = H!Configure("domain")[i]
          /\ Tail(cmd.todo) = From(H!Configure("domain"), i + 1)
      <3>1. PICK s : s = H!Configure("domain")
        OBVIOUS
      <3>2. s \in Seq(AccessSteps) /\ Len(s) = 6 /\ cmd.todo = From(s, i) /\ From(s, i) # <<>>
        BY <2>2, <2>3, <3>1
      <3>3. i \in 1..6 /\ Head(From(s, i)) = s[i] /\ Tail(From(s, i)) = From(s, i + 1)
        BY <2>4, <3>2, NotAtTheEnd
      <3> QED BY <3>1, <3>2, <3>3
    <2> QED BY <2>1, <2>5
  <1> QED BY <1>1, <1>2, <1>3 DEF Configuring

\* The forms in which a change of access changes what it has to do.
One(e) == <<e>>
SameCommand == /\ cmd'.kind = cmd.kind /\ cmd'.to = cmd.to /\ cmd'.before = cmd.before
               /\ cmd'.stuck = cmd.stuck

LEMMA AccessEdits ==
  ASSUME cmd \in Command, NEW t, NEW u
  PROVE  /\ cmd' = [cmd EXCEPT !.todo = t, !.undo = u] =>
              SameCommand /\ cmd'.todo = t /\ cmd'.undo = u /\ (Going => Going')
         /\ cmd' = [cmd EXCEPT !.todo = t, !.ok = FALSE] =>
              SameCommand /\ cmd'.todo = t /\ ~Going'
         /\ cmd' = [cmd EXCEPT !.todo = t] =>
              /\ SameCommand /\ cmd'.todo = t /\ cmd'.undo = cmd.undo
              /\ Going' <=> Going
  BY DEF Command, SameCommand, Going

LEMMA ElemsPut ==
  ASSUME NEW Items, NEW s \in Seq(Items), NEW e \in Items
  PROVE  /\ One(e) \o s \in Seq(Items) /\ Elems(One(e) \o s) = Elems(s) \cup {e}
         /\ s \o One(e) \in Seq(Items) /\ Elems(s \o One(e)) = Elems(s) \cup {e}
         /\ <<>> \o s = s
  <1>1. <<e>> \in Seq(Items)
    OBVIOUS
  <1>2. /\ <<e>> \o s \in Seq(Items) /\ s \o <<e>> \in Seq(Items) /\ <<>> \o s = s
    BY Before
  <1>3. Elems(<<e>>) = {e}
    BY ElemsOfList
  <1>4. Elems(<<e>> \o s) = Elems(<<e>>) \cup Elems(s)
    BY <1>1, ElemsConcat
  <1>5. Elems(s \o <<e>>) = Elems(s) \cup Elems(<<e>>)
    BY <1>1, ElemsConcat
  <1> QED BY <1>2, <1>3, <1>4, <1>5 DEF One

LEMMA UndoStepsNamed ==
  /\ "unconfig" \in UndoSteps /\ "reroute" \in UndoSteps /\ "remove route" \in UndoSteps
  /\ "unproxy" \in UndoSteps /\ UndoSteps \subseteq PutBack /\ "restart panel" \in PutBack
  BY DEF UndoSteps, PutBack

\* The types that the argument about what is as it was needs.
LEMMA AccessPlaces ==
  ASSUME HostInv, Changing
  PROVE  /\ cmd \in Command /\ route \in BOOLEAN /\ link \in BOOLEAN
         /\ Was.route \in BOOLEAN /\ Was.link \in BOOLEAN /\ Was \in Addresses
  <1>1. cmd \in Command
    BY NoCommandFields DEF HostInv, HostTypes, CommandTyped, Changing
  <1>2. Was \in Addresses
    BY <1>1 DEF Was, Command, Earlier
  <1> QED BY <1>1, <1>2 DEF Addresses, HostInv, HostTypes, AccessTyped, Command

\* How the list goes on when a step of it is done, and when it fails.
LEMMA AccessForms ==
  ASSUME cmd \in Command, Going
  PROVE  /\ H!Advance =>
                SameCommand /\ cmd'.todo = Tail(cmd.todo) /\ cmd'.undo = cmd.undo /\ Going'
         /\ \A u : H!AdvanceUndoing(u) =>
                SameCommand /\ cmd'.todo = Tail(cmd.todo) /\ cmd'.undo = u \o cmd.undo /\ Going'
         /\ \A u : H!Failing(u) => SameCommand /\ cmd'.todo = u \o cmd.undo /\ ~Going'
  <1>1. ASSUME H!Advance
        PROVE  SameCommand /\ cmd'.todo = Tail(cmd.todo) /\ cmd'.undo = cmd.undo /\ Going'
    BY <1>1 DEF H!Advance, Command, SameCommand, Going
  <1>2. ASSUME NEW u, H!AdvanceUndoing(u)
        PROVE  SameCommand /\ cmd'.todo = Tail(cmd.todo) /\ cmd'.undo = u \o cmd.undo /\ Going'
    BY <1>2 DEF H!AdvanceUndoing, Command, SameCommand, Going
  <1>3. ASSUME NEW u, H!Failing(u)
        PROVE  SameCommand /\ cmd'.todo = u \o cmd.undo /\ ~Going'
    BY <1>3 DEF H!Failing, H!Undoing, Command, SameCommand, Going
  <1> QED BY <1>1, <1>2, <1>3

\* What the step at the head of the list says about where the command stands.
PlainAt(i)  == Plain(i) /\ Tail(cmd.todo) = From(H!Configure(cmd.to), i + 1)
DomainAt(i) == Domain(i) /\ Tail(cmd.todo) = From(H!Configure("domain"), i + 1)

LEMMA AccessWhere ==
  ASSUME AccessAnswers, Changing, Going, cmd.todo # <<>>
  PROVE  /\ Head(cmd.todo) = "route" => PlainAt(1) /\ cmd.to = "tailscale"
         /\ Head(cmd.todo) = "unroute" => (PlainAt(1) /\ cmd.to # "tailscale") \/ DomainAt(1)
         /\ Head(cmd.todo) = "unlink" => PlainAt(2)
         /\ Head(cmd.todo) = "http" => DomainAt(2)
         /\ Head(cmd.todo) = "certbot" => DomainAt(3)
         /\ Head(cmd.todo) = "https" => DomainAt(4)
         /\ Head(cmd.todo) = "config" => PlainAt(3) \/ DomainAt(5)
         /\ Head(cmd.todo) = "restart panel" => PlainAt(4) \/ DomainAt(6)
         /\ \/ Head(cmd.todo) = "route" \/ Head(cmd.todo) = "unroute" \/ Head(cmd.todo) = "unlink"
            \/ Head(cmd.todo) = "http" \/ Head(cmd.todo) = "certbot" \/ Head(cmd.todo) = "https"
            \/ Head(cmd.todo) = "config" \/ Head(cmd.todo) = "restart panel"
  <1>1. CASE \E i \in 1..4 : /\ Plain(i) /\ Head(cmd.todo) = H!Configure(cmd.to)[i]
                             /\ Tail(cmd.todo) = From(H!Configure(cmd.to), i + 1)
    <2>1. PICK i \in 1..4 : /\ Plain(i) /\ Head(cmd.todo) = H!Configure(cmd.to)[i]
                            /\ Tail(cmd.todo) = From(H!Configure(cmd.to), i + 1)
      BY <1>1
    <2>2. PlainAt(i)
      BY <2>1 DEF PlainAt
    <2>3. cmd.to \in Ways \ {"domain"}
      BY <2>1 DEF AccessAnswers, Plain
    <2>4. /\ H!Configure(cmd.to)[1] = IF cmd.to = "tailscale" THEN "route" ELSE "unroute"
          /\ H!Configure(cmd.to)[2] = "unlink" /\ H!Configure(cmd.to)[3] = "config"
          /\ H!Configure(cmd.to)[4] = "restart panel"
      BY <2>3, AccessList
    <2>5. i = 1 \/ i = 2 \/ i = 3 \/ i = 4
      OBVIOUS
    <2> HIDE DEF Ways
    <2>6. CASE i = 1
      BY <2>1, <2>2, <2>4, <2>6
    <2>7. CASE i = 2
      BY <2>1, <2>2, <2>4, <2>7
    <2>8. CASE i = 3
      BY <2>1, <2>2, <2>4, <2>8
    <2>9. CASE i = 4
      BY <2>1, <2>2, <2>4, <2>9
    <2> QED BY <2>5, <2>6, <2>7, <2>8, <2>9
  <1>2. CASE \E i \in 1..6 : /\ Domain(i) /\ Head(cmd.todo) = H!Configure("domain")[i]
                             /\ Tail(cmd.todo) = From(H!Configure("domain"), i + 1)
    <2>1. PICK i \in 1..6 : /\ Domain(i) /\ Head(cmd.todo) = H!Configure("domain")[i]
                            /\ Tail(cmd.todo) = From(H!Configure("domain"), i + 1)
      BY <1>2
    <2>2. DomainAt(i)
      BY <2>1 DEF DomainAt
    <2>5. i = 1 \/ i = 2 \/ i = 3 \/ i = 4 \/ i = 5 \/ i = 6
      OBVIOUS
    <2>6. CASE i = 1
      BY <2>1, <2>2, <2>6, DomainList
    <2>7. CASE i = 2
      BY <2>1, <2>2, <2>7, DomainList
    <2>8. CASE i = 3
      BY <2>1, <2>2, <2>8, DomainList
    <2>9. CASE i = 4
      BY <2>1, <2>2, <2>9, DomainList
    <2>10. CASE i = 5
      BY <2>1, <2>2, <2>10, DomainList
    <2>11. CASE i = 6
      BY <2>1, <2>2, <2>11, DomainList
    <2> QED BY <2>5, <2>6, <2>7, <2>8, <2>9, <2>10, <2>11
  <1> QED BY <1>1, <1>2, AccessPosition

\* The next position: the steps before it are what they were.
LEMMA SameFields ==
  ASSUME SameCommand
  PROVE  /\ cmd'.kind = cmd.kind /\ cmd'.to = cmd.to /\ Was' = Was
         /\ Routed' = Routed /\ Chosen' = Chosen
         /\ Changing' <=> Changing
  BY DEF SameCommand, Was, Changing, Routed, Chosen

LEMMA GoesOn ==
  ASSUME AccessAnswers, Changing, SameCommand, Going', cmd'.undo \in Seq(UndoSteps), Undo(Elems(cmd.undo))',
         NEW i \in 1..7, (Plain(i)' /\ i <= 5) \/ Domain(i)'
  PROVE  AccessAnswers'
  <1>1. (Plain(i)' /\ i \in 1..5) \/ Domain(i)'
    OBVIOUS
  <1>2. Configuring'
    BY <1>1 DEF Configuring
  <1>3. Forward'
    BY <1>2 DEF Forward
  <1>4. cmd.to \in Ways /\ cmd'.to = cmd.to
    BY SameFields DEF AccessAnswers
  <1> QED BY <1>3, <1>4 DEF AccessAnswers

LEMMA GoesBack ==
  ASSUME AccessAnswers, Changing, SameCommand, ~Going', cmd'.todo \in Seq(PutBack), Undo(Elems(cmd.todo))'
  PROVE  AccessAnswers'
  <1>1. cmd.to \in Ways /\ cmd'.to = cmd.to
    BY SameFields DEF AccessAnswers
  <1>2. Backward'
    BY DEF Backward
  <1> QED BY <1>1, <1>2 DEF AccessAnswers

\* The way through Tailscale, the first step.
LEMMA RouteAnswers ==
  ASSUME HostInv, AccessAnswers, Changing, Going,
         cmd.todo # <<>>, H!removePanelTailscale \/ H!addRoute
  PROVE  AccessAnswers'
  <1>1. /\ cmd \in Command /\ route \in BOOLEAN /\ Was.route \in BOOLEAN
    BY AccessPlaces
  <1>2. cmd.to \in Ways /\ cmd.undo \in Seq(UndoSteps) /\ Undo(Elems(cmd.undo))
    BY DEF AccessAnswers, Forward
  <1>3. /\ route' = IF cmd.to = "tailscale" THEN TRUE ELSE FALSE
        /\ UNCHANGED <<config, listens, proxy, link, nginx>>
        /\ \/ route' = route /\ H!AdvanceUndoing(<<>>)
           \/ route = FALSE /\ route' = TRUE /\ H!AdvanceUndoing(One("remove route"))
           \/ route = TRUE /\ route' = FALSE /\ H!AdvanceUndoing(One("reroute"))
    <2>1. CASE H!removePanelTailscale
      BY <1>1, <2>1, AccessWhere
         DEF H!removePanelTailscale, H!Step, One, H!disk, H!services, DomainAt, Domain
    <2>2. CASE H!addRoute
      BY <1>1, <2>2, AccessWhere DEF H!addRoute, H!Step, One, H!disk, H!services
    <2> QED BY <2>1, <2>2
  <1>11. PlainAt(1) \/ DomainAt(1)
    BY AccessWhere DEF H!removePanelTailscale, H!addRoute, H!Step
  <1>4. route = Was.route
    BY <1>11 DEF PlainAt, DomainAt, Plain, Domain
  <1>5. /\ SameCommand /\ cmd'.todo = Tail(cmd.todo) /\ Going'
        /\ cmd'.undo \in Seq(UndoSteps)
        /\ \/ route' = route /\ Elems(cmd'.undo) = Elems(cmd.undo)
           \/ route = FALSE /\ route' = TRUE /\ Elems(cmd'.undo) = Elems(cmd.undo) \cup {"remove route"}
           \/ route = TRUE /\ route' = FALSE /\ Elems(cmd'.undo) = Elems(cmd.undo) \cup {"reroute"}
    <2>1. CASE route' = route /\ H!AdvanceUndoing(<<>>)
      <3>1. SameCommand /\ cmd'.todo = Tail(cmd.todo) /\ cmd'.undo = <<>> \o cmd.undo
            /\ Going'
        BY <1>1, <2>1, AccessForms
      <3> QED BY <1>2, <2>1, <3>1, ConcatEmptySeq
    <2>2. CASE route = FALSE /\ route' = TRUE /\ H!AdvanceUndoing(One("remove route"))
      <3>1. SameCommand /\ cmd'.todo = Tail(cmd.todo) /\ cmd'.undo = One("remove route") \o cmd.undo
            /\ Going'
        BY <1>1, <2>2, AccessForms
      <3>2. /\ One("remove route") \o cmd.undo \in Seq(UndoSteps)
            /\ Elems(One("remove route") \o cmd.undo) = Elems(cmd.undo) \cup {"remove route"}
        BY <1>2, ElemsPut, UndoStepsNamed
      <3> QED BY <2>2, <3>1, <3>2
    <2>3. CASE route = TRUE /\ route' = FALSE /\ H!AdvanceUndoing(One("reroute"))
      <3>1. SameCommand /\ cmd'.todo = Tail(cmd.todo) /\ cmd'.undo = One("reroute") \o cmd.undo
            /\ Going'
        BY <1>1, <2>3, AccessForms
      <3>2. /\ One("reroute") \o cmd.undo \in Seq(UndoSteps)
            /\ Elems(One("reroute") \o cmd.undo) = Elems(cmd.undo) \cup {"reroute"}
        BY <1>2, ElemsPut, UndoStepsNamed
      <3> QED BY <2>3, <3>1, <3>2
    <2> QED BY <1>3, <2>1, <2>2, <2>3
  <1>6. Was' = Was /\ cmd'.to = cmd.to
    BY <1>5, SameFields
  <1>12. cmd'.todo = Tail(cmd.todo)
    BY <1>5
  <1>7. SameProxy' <=> SameProxy
    BY <1>3, <1>6 DEF SameProxy
  <1>8. Undo(Elems(cmd.undo))'
    BY <1>1, <1>2, <1>3, <1>4, <1>5, <1>6, <1>7 DEF Undo
  <1>9. CASE PlainAt(1)
    <2>1. SameProxy' /\ cmd'.to = cmd.to /\ cmd'.todo = From(H!Configure(cmd.to), 2)
          /\ cmd.to # "domain"
      BY <1>6, <1>7, <1>9, <1>12 DEF PlainAt, Plain
    <2>3. route' = Routed'
      BY <1>3, <1>6 DEF Routed
    <2>2. Plain(2)' /\ 2 <= 5 /\ 2 \in 1..7
      BY <2>1, <2>3 DEF Plain
    <2> QED BY <1>5, <1>8, <2>2, GoesOn
  <1>10. CASE DomainAt(1)
    <2>1. /\ cmd'.to = "domain" /\ cmd.to = "domain"
          /\ cmd'.todo = From(H!Configure("domain"), 2)
      BY <1>6, <1>10, <1>12 DEF DomainAt, Domain
    <2>2. Domain(2)' /\ 2 \in 1..7
      BY <1>3, <2>1 DEF Domain
    <2> QED BY <1>5, <1>8, <2>2, GoesOn
  <1> QED BY <1>9, <1>10, <1>11

\* Nginx: the link of the old proxy is removed, or the proxy of the new domain written.
LEMMA ProxyAnswers ==
  ASSUME HostInv, AccessAnswers, Changing, Going, cmd.todo # <<>>,
         H!disableProxy \/ H!writeProxy("http", "http") \/ H!writeProxy("https", "https")
  PROVE  AccessAnswers'
  <1>1. /\ cmd \in Command /\ link \in BOOLEAN /\ Was.link \in BOOLEAN
    BY AccessPlaces
  <1>2. cmd.to \in Ways /\ cmd.undo \in Seq(UndoSteps) /\ Undo(Elems(cmd.undo))
    BY DEF AccessAnswers, Forward
  <1>3. UNCHANGED <<config, listens, route>>
    BY DEF H!disableProxy, H!writeProxy, H!disk, H!services
  <1>4. /\ cmd.undo \o One("unproxy") \in Seq(UndoSteps)
        /\ Elems(cmd.undo \o One("unproxy")) = Elems(cmd.undo) \cup {"unproxy"}
    BY <1>2, ElemsPut, UndoStepsNamed
  <1>5. Seq(UndoSteps) \subseteq Seq(PutBack)
    BY UndoStepsNamed, SeqMonotonic
  \* As long as the step that puts the proxy back is on the list.
  <1>6. ASSUME SameCommand, NEW R, "unproxy" \in R, R = Elems(cmd.undo) \cup {"unproxy"}
        PROVE  Undo(R)'
    <2>1. Was' = Was
      BY <1>6, SameFields
    <2> QED BY <1>2, <1>3, <1>6, <2>1 DEF Undo
  <1>7. ASSUME SameCommand, ~Going', cmd'.todo = cmd.undo \o One("unproxy")
        PROVE  AccessAnswers'
    <2>1. cmd'.todo \in Seq(PutBack) /\ Elems(cmd'.todo) = Elems(cmd.undo) \cup {"unproxy"}
      BY <1>4, <1>5, <1>7
    <2>2. Undo(Elems(cmd.todo))'
      BY <1>6, <1>7, <2>1
    <2> QED BY <1>7, <2>1, <2>2, GoesBack
  <1>8. CASE H!disableProxy
    <2>1. PlainAt(2)
      BY <1>8, AccessWhere DEF H!disableProxy, H!Step
    <2>2. /\ cmd.to # "domain" /\ Tail(cmd.todo) = From(H!Configure(cmd.to), 3) /\ SameProxy
          /\ route = Routed
      <3>1. cmd.to # "domain" /\ SameProxy
        BY <2>1 DEF PlainAt, Plain
      <3>2. Tail(cmd.todo) = From(H!Configure(cmd.to), 3)
        BY <2>1 DEF PlainAt
      <3>3. route = Routed
        BY <2>1 DEF PlainAt, Plain
      <3> QED BY <3>1, <3>2, <3>3
    <2>3. ASSUME SameCommand, cmd'.todo = Tail(cmd.todo), nginx' = "none"
          PROVE  Plain(3)' /\ 3 <= 5 /\ 3 \in 1..7
      <3>1. cmd'.to = cmd.to /\ Routed' = Routed
        BY <2>3, SameFields
      <3> QED BY <1>3, <2>2, <2>3, <3>1 DEF Plain
    <2>4. CASE ~link /\ H!Advance /\ UNCHANGED <<link, nginx>>
      <3>1. SameCommand /\ cmd'.todo = Tail(cmd.todo) /\ cmd'.undo = cmd.undo /\ Going'
        BY <1>1, <2>4, AccessForms
      <3>2. nginx' = "none"
        BY <1>1, <2>2, <2>4 DEF Changing, H!Settled, H!Loaded, SameProxy
      <3>3. proxy' = proxy /\ Was' = Was
        BY <1>8, <3>1, SameFields DEF H!disableProxy
      <3>4. SameProxy'
        BY <2>2, <2>4, <3>3 DEF SameProxy
      <3>5. cmd'.undo \in Seq(UndoSteps) /\ Elems(cmd'.undo) = Elems(cmd.undo)
        BY <1>2, <3>1
      <3>6. Undo(Elems(cmd.undo))'
        BY <1>2, <1>3, <3>3, <3>4, <3>5 DEF Undo
      <3>7. Plain(3)' /\ 3 <= 5 /\ 3 \in 1..7
        BY <2>3, <3>1, <3>2
      <3> QED BY <3>1, <3>5, <3>6, <3>7, GoesOn
    <2>5. CASE /\ nginx' = "none"
               /\ cmd' = [cmd EXCEPT !.todo = Tail(@), !.undo = @ \o <<"unproxy">>]
      <3>1. cmd' = [cmd EXCEPT !.todo = Tail(cmd.todo), !.undo = cmd.undo \o One("unproxy")]
        BY <1>1, <2>5 DEF Command, One
      <3>2. SameCommand /\ cmd'.todo = Tail(cmd.todo) /\ cmd'.undo = cmd.undo \o One("unproxy")
            /\ Going'
        BY <1>1, <3>1, AccessEdits, ZenonT(60)
      <3>3. cmd'.undo \in Seq(UndoSteps) /\ Elems(cmd'.undo) = Elems(cmd.undo) \cup {"unproxy"}
        BY <1>4, <3>2
      <3>4. Undo(Elems(cmd.undo))'
        BY <1>6, <3>2, <3>3
      <3>5. Plain(3)' /\ 3 <= 5 /\ 3 \in 1..7
        BY <2>3, <2>5, <3>2
      <3> QED BY <3>2, <3>3, <3>4, <3>5, GoesOn
    <2>6. CASE cmd' = [cmd EXCEPT !.todo = cmd.undo \o <<"unproxy">>, !.ok = FALSE]
      <3>1. cmd' = [cmd EXCEPT !.todo = cmd.undo \o One("unproxy"), !.ok = FALSE]
        BY <2>6 DEF One
      <3>2. SameCommand /\ cmd'.todo = cmd.undo \o One("unproxy") /\ ~Going'
        BY <1>1, <3>1, AccessEdits, ZenonT(60)
      <3> QED BY <1>7, <3>2
    <2> QED BY <1>8, <2>4, <2>5, <2>6 DEF H!disableProxy
  <1>9. CASE H!writeProxy("http", "http")
    <2>1. DomainAt(2)
      BY <1>9, AccessWhere DEF H!writeProxy, H!Step
    <2>2. /\ cmd.to = "domain" /\ Tail(cmd.todo) = From(H!Configure("domain"), 3)
          /\ route = FALSE
      BY <2>1 DEF DomainAt, Domain
    <2>3. CASE cmd' = [cmd EXCEPT !.todo = Tail(@), !.undo = @ \o <<"unproxy">>]
      <3>1. cmd' = [cmd EXCEPT !.todo = Tail(cmd.todo), !.undo = cmd.undo \o One("unproxy")]
        BY <1>1, <2>3 DEF Command, One
      <3>2. SameCommand /\ cmd'.todo = Tail(cmd.todo) /\ cmd'.undo = cmd.undo \o One("unproxy")
            /\ Going'
        BY <1>1, <3>1, AccessEdits, ZenonT(60)
      <3>3. cmd'.undo \in Seq(UndoSteps) /\ Elems(cmd'.undo) = Elems(cmd.undo) \cup {"unproxy"}
        BY <1>4, <3>2
      <3>4. Undo(Elems(cmd.undo))'
        BY <1>6, <3>2, <3>3
      <3>5. cmd'.to = "domain" /\ cmd'.todo = From(H!Configure("domain"), 3)
            /\ "unproxy" \in Elems(cmd'.undo)
        BY <2>2, <3>2, <3>3, SameFields
      <3>6. Domain(3)' /\ 3 \in 1..7
        BY <1>3, <2>2, <3>5 DEF Domain
      <3> QED BY <3>2, <3>3, <3>4, <3>6, GoesOn
    <2>4. CASE cmd' = [cmd EXCEPT !.ok = FALSE, !.todo = cmd.undo \o <<"unproxy">>]
      <3>1. cmd' = [cmd EXCEPT !.todo = cmd.undo \o One("unproxy"), !.ok = FALSE]
        BY <1>1, <2>4 DEF One, Command
      <3>2. SameCommand /\ cmd'.todo = cmd.undo \o One("unproxy") /\ ~Going'
        BY <1>1, <3>1, AccessEdits, ZenonT(60)
      <3> QED BY <1>7, <3>2
    <2> QED BY <1>9, <2>3, <2>4 DEF H!writeProxy
  <1>10. CASE H!writeProxy("https", "https")
    <2>1. DomainAt(4)
      BY <1>10, AccessWhere DEF H!writeProxy, H!Step
    <2>2. /\ cmd.to = "domain" /\ Tail(cmd.todo) = From(H!Configure("domain"), 5)
          /\ route = FALSE /\ "unproxy" \in Elems(cmd.undo)
      BY <2>1 DEF DomainAt, Domain
    <2>3. Elems(cmd.undo) = Elems(cmd.undo) \cup {"unproxy"}
      BY <2>2
    <2>4. CASE nginx' = "https" /\ cmd' = [cmd EXCEPT !.todo = Tail(@), !.undo = @]
      <3>1. cmd' = [cmd EXCEPT !.todo = Tail(cmd.todo), !.undo = cmd.undo]
        BY <1>1, <2>4 DEF Command
      <3>2. SameCommand /\ cmd'.todo = Tail(cmd.todo) /\ cmd'.undo = cmd.undo /\ Going'
        BY <1>1, <3>1, AccessEdits, ZenonT(60)
      <3>3. cmd'.undo \in Seq(UndoSteps) /\ Elems(cmd'.undo) = Elems(cmd.undo)
        BY <1>2, <3>2
      <3>4. Undo(Elems(cmd.undo))'
        BY <1>6, <2>2, <2>3, <3>2, <3>3
      <3>5. cmd'.to = "domain" /\ cmd'.todo = From(H!Configure("domain"), 5)
            /\ "unproxy" \in Elems(cmd'.undo)
        BY <2>2, <3>2, <3>3, SameFields
      <3>7. nginx' = "https" /\ route' = FALSE
        BY <1>3, <2>2, <2>4
      <3>6. Domain(5)' /\ 5 \in 1..7
        BY <3>5, <3>7 DEF Domain
      <3> QED BY <3>2, <3>3, <3>4, <3>6, GoesOn
    <2>5. CASE cmd' = [cmd EXCEPT !.ok = FALSE, !.todo = cmd.undo]
      <3>1. cmd' = [cmd EXCEPT !.todo = cmd.undo, !.ok = FALSE]
        BY <1>1, <2>5 DEF Command
      <3>2. SameCommand /\ cmd'.todo = cmd.undo /\ ~Going'
        BY <1>1, <3>1, AccessEdits, ZenonT(60)
      <3>3. cmd'.todo \in Seq(PutBack) /\ Elems(cmd'.todo) = Elems(cmd.undo)
        BY <1>2, <1>5, <3>2
      <3>4. Undo(Elems(cmd.todo))'
        BY <1>6, <2>2, <2>3, <3>2, <3>3
      <3> QED BY <3>2, <3>3, <3>4, GoesBack
    <2> QED BY <1>10, <2>4, <2>5 DEF H!writeProxy
  <1> QED BY <1>8, <1>9, <1>10

\* The panel's own configuration, and the panel that is started with it.
LEMMA ListenerAnswers ==
  ASSUME HostInv, AccessAnswers, Changing, Going, cmd.todo # <<>>,
         H!certbot \/ H!accessConfig \/ H!restartPanel
  PROVE  AccessAnswers'
  <1>1. cmd \in Command
    BY AccessPlaces
  <1>2. cmd.to \in Ways /\ cmd.undo \in Seq(UndoSteps) /\ Undo(Elems(cmd.undo))
    BY DEF AccessAnswers, Forward
  <1>3. UNCHANGED <<route, proxy, link, nginx>>
    BY DEF H!certbot, H!accessConfig, H!restartPanel, H!access
  <1>4. ASSUME SameCommand, Going', cmd'.undo = cmd.undo
        PROVE  cmd'.undo \in Seq(UndoSteps) /\ Elems(cmd'.undo) = Elems(cmd.undo)
    BY <1>2, <1>4
  <1>5. Was.listens = Was.config
    BY DEF Changing, H!Settled
  <1>6. ASSUME SameCommand PROVE SameProxy' <=> SameProxy
    BY <1>3, <1>6, SameFields DEF SameProxy
  <1>7. CASE H!certbot
    <2>1. DomainAt(3)
      BY <1>7, AccessWhere DEF H!certbot, H!Step
    <2>2. /\ cmd.to = "domain" /\ Tail(cmd.todo) = From(H!Configure("domain"), 4)
          /\ route = FALSE /\ "unproxy" \in Elems(cmd.undo)
      BY <2>1 DEF DomainAt, Domain
    <2>3. SameCommand /\ cmd'.todo = Tail(cmd.todo) /\ cmd'.undo = cmd.undo /\ Going'
      BY <1>1, <1>7, AccessForms DEF H!certbot
    <2>4. cmd'.undo \in Seq(UndoSteps) /\ Elems(cmd'.undo) = Elems(cmd.undo)
      BY <1>4, <2>3
    <2>5. UNCHANGED <<config, listens>>
      BY <1>7 DEF H!certbot, H!disk, H!services
    <2>6. Was' = Was /\ (SameProxy' <=> SameProxy)
      BY <1>6, <2>3, SameFields
    <2>7. Undo(Elems(cmd.undo))'
      BY <1>2, <1>3, <2>4, <2>5, <2>6 DEF Undo
    <2>8. cmd'.to = "domain" /\ cmd'.todo = From(H!Configure("domain"), 4)
          /\ "unproxy" \in Elems(cmd'.undo)
      BY <2>2, <2>3, <2>4, SameFields
    <2>9. Domain(4)' /\ 4 \in 1..7
      BY <1>3, <2>2, <2>8 DEF Domain
    <2> QED BY <2>3, <2>4, <2>7, <2>9, GoesOn
  <1>8. CASE H!accessConfig
    <2>1. PlainAt(3) \/ DomainAt(5)
      BY <1>8, AccessWhere DEF H!accessConfig, H!Step
    <2>2. H!AdvanceUndoing(One("unconfig")) /\ config' = Chosen /\ listens' = listens
      BY <1>8 DEF H!accessConfig, H!saveConfig, H!services, One, Chosen
    <2>3. SameCommand /\ cmd'.todo = Tail(cmd.todo) /\ cmd'.undo = One("unconfig") \o cmd.undo
          /\ Going'
      BY <1>1, <2>2, AccessForms
    <2>4. /\ One("unconfig") \o cmd.undo \in Seq(UndoSteps)
          /\ Elems(One("unconfig") \o cmd.undo) = Elems(cmd.undo) \cup {"unconfig"}
      BY <1>2, ElemsPut, UndoStepsNamed
    <2>5. /\ cmd'.undo \in Seq(UndoSteps) /\ Elems(cmd'.undo) = Elems(cmd.undo) \cup {"unconfig"}
          /\ "unconfig" \in Elems(cmd'.undo)
      BY <2>3, <2>4
    <2>6. Was' = Was /\ (SameProxy' <=> SameProxy)
      BY <1>6, <2>3, SameFields
    <2>7. "restart panel" \notin Elems(cmd.undo)
      <3>1. Elems(cmd.undo) \subseteq UndoSteps
        BY <1>2, ElemsOfList
      <3> QED BY <3>1 DEF UndoSteps
    <2>8. Undo(Elems(cmd.undo))'
      BY <1>2, <1>3, <2>2, <2>5, <2>6, <2>7 DEF Undo
    <2>9. CASE PlainAt(3)
      <3>1. cmd.to # "domain" /\ Tail(cmd.todo) = From(H!Configure(cmd.to), 4)
        BY <2>9 DEF PlainAt, Plain
      <3>2. route = Routed /\ nginx = "none"
        BY <2>9 DEF PlainAt, Plain
      <3>3. cmd'.to = cmd.to /\ Routed' = Routed /\ config' = Chosen'
        BY <2>2, <2>3, SameFields
      <3>4. cmd'.todo = From(H!Configure(cmd.to), 4)
        BY <2>3, <3>1
      <3>5. Plain(4)' /\ 4 <= 5 /\ 4 \in 1..7
        BY <1>3, <2>5, <3>1, <3>2, <3>3, <3>4 DEF Plain
      <3> QED BY <2>3, <2>5, <2>8, <3>5, GoesOn
    <2>10. CASE DomainAt(5)
      <3>1. /\ cmd.to = "domain" /\ Tail(cmd.todo) = From(H!Configure("domain"), 6)
            /\ route = FALSE /\ "unproxy" \in Elems(cmd.undo) /\ nginx = "https"
        BY <2>10 DEF DomainAt, Domain
      <3>2. Chosen = "local"
        BY <3>1 DEF Chosen
      <3>3. cmd'.to = "domain" /\ cmd'.todo = From(H!Configure("domain"), 6)
        BY <2>3, <3>1, SameFields
      <3>4. "unproxy" \in Elems(cmd'.undo)
        BY <2>5, <3>1
      <3>5. Domain(6)' /\ 6 \in 1..7
        BY <1>3, <2>2, <2>5, <3>1, <3>2, <3>3, <3>4 DEF Domain
      <3> QED BY <2>3, <2>5, <2>8, <3>5, GoesOn
    <2> QED BY <2>1, <2>9, <2>10
  <1>9. CASE H!restartPanel
    <2>1. PlainAt(4) \/ DomainAt(6)
      BY <1>9, AccessWhere DEF H!restartPanel, H!Step
    <2>2. config' = config /\ "unconfig" \in Elems(cmd.undo)
      <3>1. config' = config
        BY <1>9 DEF H!restartPanel, H!disk
      <3>2. PlainAt(4) => "unconfig" \in Elems(cmd.undo)
        BY DEF PlainAt, Plain
      <3>3. DomainAt(6) => "unconfig" \in Elems(cmd.undo)
        BY DEF DomainAt, Domain
      <3> QED BY <2>1, <3>1, <3>2, <3>3
    <2>3. ASSUME SameCommand, NEW R, R = Elems(cmd.undo) PROVE Undo(R)'
      <3>1. Was' = Was /\ (SameProxy' <=> SameProxy)
        BY <1>6, <2>3, SameFields
      <3>2. "restart panel" \notin R
        <4>1. Elems(cmd.undo) \subseteq UndoSteps
          BY <1>2, ElemsOfList
        <4> QED BY <2>3, <4>1 DEF UndoSteps
      <3> QED BY <1>2, <1>3, <2>2, <2>3, <3>1, <3>2 DEF Undo
    <2>4. CASE H!Advance /\ listens' = config
      <3>1. SameCommand /\ cmd'.todo = Tail(cmd.todo) /\ cmd'.undo = cmd.undo /\ Going'
        BY <1>1, <2>4, AccessForms
      <3>2. cmd'.undo \in Seq(UndoSteps) /\ Elems(cmd'.undo) = Elems(cmd.undo)
            /\ "unconfig" \in Elems(cmd'.undo)
        BY <1>4, <2>2, <3>1
      <3>3. Undo(Elems(cmd.undo))'
        BY <2>3, <3>1, <3>2
      <3>4. listens' = config'
        BY <2>2, <2>4
      <3>5. CASE PlainAt(4)
        <4>1. cmd.to # "domain" /\ Tail(cmd.todo) = From(H!Configure(cmd.to), 5)
          BY <3>5 DEF PlainAt, Plain
        <4>2. route = Routed /\ nginx = "none" /\ config = Chosen
          BY <3>5 DEF PlainAt, Plain
        <4>3. cmd'.to = cmd.to /\ Routed' = Routed /\ config' = Chosen'
          BY <2>2, <3>1, <4>2, SameFields
        <4>4. cmd'.todo = From(H!Configure(cmd.to), 5)
          BY <3>1, <4>1
        <4>5. Plain(5)' /\ 5 <= 5 /\ 5 \in 1..7
          BY <1>3, <3>2, <3>4, <4>1, <4>2, <4>3, <4>4 DEF Plain
        <4> QED BY <3>1, <3>2, <3>3, <4>5, GoesOn
      <3>6. CASE DomainAt(6)
        <4>1. /\ cmd.to = "domain" /\ Tail(cmd.todo) = From(H!Configure("domain"), 7)
              /\ route = FALSE /\ "unproxy" \in Elems(cmd.undo) /\ nginx = "https"
              /\ config = "local"
          BY <3>6 DEF DomainAt, Domain
        <4>2. cmd'.to = "domain" /\ cmd'.todo = From(H!Configure("domain"), 7)
          BY <3>1, <4>1, SameFields
        <4>3. "unproxy" \in Elems(cmd'.undo)
          BY <3>2, <4>1
        <4>4. Domain(7)' /\ 7 \in 1..7
          BY <1>3, <2>2, <3>2, <3>4, <4>1, <4>2, <4>3 DEF Domain
        <4> QED BY <3>1, <3>2, <3>3, <4>4, GoesOn
      <3> QED BY <2>1, <3>5, <3>6
    <2>5. CASE H!Failing(<<>>)
      <3>1. SameCommand /\ cmd'.todo = <<>> \o cmd.undo /\ ~Going'
        BY <1>1, <2>5, AccessForms
      <3>2. cmd'.todo = cmd.undo
        BY <1>2, <3>1, ConcatEmptySeq
      <3>3. cmd'.todo \in Seq(PutBack) /\ Elems(cmd'.todo) = Elems(cmd.undo)
        BY <1>2, <3>2, UndoStepsNamed, SeqMonotonic
      <3>4. Undo(Elems(cmd.todo))'
        BY <2>3, <3>1, <3>3
      <3> QED BY <3>1, <3>3, <3>4, GoesBack
    <2> QED BY <1>9, <2>4, <2>5 DEF H!restartPanel
  <1> QED BY <1>7, <1>8, <1>9

\* What is being undone.
LEMMA BackwardAnswers ==
  ASSUME HostInv, AccessAnswers, Changing, ~Going, cmd.todo # <<>>, Changing', H!AccessStep
  PROVE  AccessAnswers'
  <1>1. /\ cmd \in Command /\ route \in BOOLEAN /\ link \in BOOLEAN
        /\ Was.route \in BOOLEAN /\ Was.link \in BOOLEAN
    BY AccessPlaces
  <1>2. cmd.to \in Ways /\ cmd.todo \in Seq(PutBack) /\ Undo(Elems(cmd.todo))
    BY DEF AccessAnswers, Backward
  <1>3. /\ Tail(cmd.todo) \in Seq(PutBack) /\ Head(cmd.todo) \in PutBack
        /\ Elems(cmd.todo) = {Head(cmd.todo)} \cup Elems(Tail(cmd.todo))
    BY <1>2, ElemsOfList, HeadTailProperties
  <1>4. Was.nginx = H!Loaded(Was.proxy, Was.link) /\ Was.listens = Was.config
    BY DEF Changing, H!Settled
  <1>5. ASSUME NEW u, H!Failing(u) PROVE FALSE
    <2>1. cmd' = [cmd EXCEPT !.todo = Tail(@), !.stuck = TRUE]
      BY <1>5 DEF H!Failing, H!Undoing, Going
    <2>2. cmd'.stuck
      BY <1>1, <2>1 DEF Command
    <2> QED BY <2>2 DEF Changing
  <1>6. ASSUME H!Advance
        PROVE  SameCommand /\ cmd'.todo = Tail(cmd.todo) /\ ~Going' /\ Was' = Was
    <2>1. cmd' = [cmd EXCEPT !.todo = Tail(cmd.todo)]
      BY <1>1, <1>6 DEF H!Advance, Command
    <2>2. SameCommand /\ cmd'.todo = Tail(cmd.todo) /\ ~Going'
      BY <1>1, <2>1, AccessEdits, ZenonT(60)
    <2> QED BY <2>2, SameFields
  <1>7. CASE H!restartPanel
    <2>1. Head(cmd.todo) = "restart panel"
      BY <1>7 DEF H!restartPanel, H!Step
    <2>2. H!Advance /\ listens' = config /\ UNCHANGED <<config, route, proxy, link, nginx>>
      BY <1>5, <1>7 DEF H!restartPanel, H!disk, H!access
    <2>3. SameCommand /\ cmd'.todo = Tail(cmd.todo) /\ ~Going' /\ Was' = Was
      BY <1>6, <2>2
    <2>4. SameProxy' <=> SameProxy
      BY <2>2, <2>3 DEF SameProxy
    <2>5. cmd'.todo \in Seq(PutBack) /\ Elems(cmd'.todo) = Elems(Tail(cmd.todo))
      BY <1>3, <2>3
    <2>6. config = Was.config
      BY <1>2, <1>3, <2>1 DEF Undo
    <2>7. Undo(Elems(cmd.todo))'
      BY <1>2, <1>3, <1>4, <2>1, <2>2, <2>3, <2>4, <2>5, <2>6 DEF Undo
    <2> QED BY <2>3, <2>5, <2>7, GoesBack
  <1>8. CASE H!restoreConfig
    <2>1. Head(cmd.todo) = "unconfig"
      BY <1>8 DEF H!restoreConfig, H!Step
    <2>2. /\ cmd' = [cmd EXCEPT !.todo = <<"restart panel">> \o Tail(@)]
          /\ config' = Was.config /\ UNCHANGED <<listens, route, proxy, link, nginx>>
      BY <1>5, <1>8 DEF H!restoreConfig, H!saveConfig, H!services, H!access, Was
    <2>3. cmd' = [cmd EXCEPT !.todo = One("restart panel") \o Tail(cmd.todo)]
      BY <1>1, <2>2 DEF Command, One
    <2>4. SameCommand /\ cmd'.todo = One("restart panel") \o Tail(cmd.todo) /\ ~Going'
      BY <1>1, <2>3, AccessEdits, ZenonT(60)
    <2>5. /\ One("restart panel") \o Tail(cmd.todo) \in Seq(PutBack)
          /\ Elems(One("restart panel") \o Tail(cmd.todo))
                = Elems(Tail(cmd.todo)) \cup {"restart panel"}
      <3>1. \A s \in Seq(PutBack), e \in PutBack :
               One(e) \o s \in Seq(PutBack) /\ Elems(One(e) \o s) = Elems(s) \cup {e}
        BY ElemsPut
      <3>2. Tail(cmd.todo) \in Seq(PutBack) /\ "restart panel" \in PutBack
        BY <1>3, UndoStepsNamed
      <3> QED BY <3>1, <3>2
    <2>6. /\ cmd'.todo \in Seq(PutBack)
          /\ Elems(cmd'.todo) = Elems(Tail(cmd.todo)) \cup {"restart panel"}
      BY <2>4, <2>5
    <2>7. Was' = Was
      BY <2>4, SameFields
    <2>8. UNCHANGED <<listens, route>> /\ config' = Was.config /\ (SameProxy' <=> SameProxy)
      BY <2>2, <2>7 DEF SameProxy
    <2>9. Undo(Elems(cmd.todo))'
      BY <1>2, <1>3, <2>1, <2>6, <2>7, <2>8 DEF Undo
    <2> QED BY <2>4, <2>6, <2>9, GoesBack
  <1>9. CASE H!restoreRoute
    <2>1. \/ Head(cmd.todo) = "reroute" /\ route' = TRUE
          \/ Head(cmd.todo) = "remove route" /\ route' = FALSE
      BY <1>5, <1>9 DEF H!restoreRoute, H!Step
    <2>2. H!Advance /\ UNCHANGED <<config, listens, proxy, link, nginx>>
      BY <1>5, <1>9 DEF H!restoreRoute, H!disk, H!services
    <2>3. SameCommand /\ cmd'.todo = Tail(cmd.todo) /\ ~Going' /\ Was' = Was
      BY <1>6, <2>2
    <2>4. SameProxy' <=> SameProxy
      BY <2>2, <2>3 DEF SameProxy
    <2>5. cmd'.todo \in Seq(PutBack) /\ Elems(cmd'.todo) = Elems(Tail(cmd.todo))
      BY <1>3, <2>3
    <2>6. route' = Was.route
      BY <1>2, <1>3, <2>1 DEF Undo
    <2>7. Head(cmd.todo) # "unconfig" /\ Head(cmd.todo) # "restart panel"
          /\ Head(cmd.todo) # "unproxy"
      BY <2>1
    <2>8. Undo(Elems(cmd.todo))'
      BY <1>2, <1>3, <2>2, <2>3, <2>4, <2>5, <2>6, <2>7 DEF Undo
    <2> QED BY <2>3, <2>5, <2>8, GoesBack
  <1>10. CASE H!restoreProxy
    <2>1. Head(cmd.todo) = "unproxy"
      BY <1>10 DEF H!restoreProxy, H!Step
    <2>2. /\ H!Advance /\ UNCHANGED <<config, listens, route>>
          /\ proxy' = Was.proxy /\ link' = Was.link /\ nginx' = H!Loaded(proxy', link')
      BY <1>5, <1>10 DEF H!restoreProxy, H!disk, H!services, Was
    <2>3. SameCommand /\ cmd'.todo = Tail(cmd.todo) /\ ~Going' /\ Was' = Was
      BY <1>6, <2>2
    <2>4. nginx' = Was.nginx
      BY <1>4, <2>2
    <2>5. SameProxy'
      BY <2>2, <2>3, <2>4 DEF SameProxy
    <2>6. cmd'.todo \in Seq(PutBack) /\ Elems(cmd'.todo) = Elems(Tail(cmd.todo))
      BY <1>3, <2>3
    <2>7. UNCHANGED <<config, listens, route>>
      BY <2>2
    <2>8. Undo(Elems(cmd.todo))'
      BY <1>2, <1>3, <2>1, <2>3, <2>5, <2>6, <2>7 DEF Undo
    <2> QED BY <2>3, <2>6, <2>8, GoesBack
  <1>11. \/ Head(cmd.todo) = "unconfig" \/ Head(cmd.todo) = "reroute"
         \/ Head(cmd.todo) = "remove route" \/ Head(cmd.todo) = "unproxy"
         \/ Head(cmd.todo) = "restart panel"
    BY <1>3 DEF PutBack, UndoSteps
  <1>12. H!restartPanel \/ H!restoreConfig \/ H!restoreRoute \/ H!restoreProxy
    BY <1>11
       DEF H!AccessStep, H!Step, H!removePanelTailscale, H!addRoute, H!disableProxy,
           H!configureDomain, H!writeProxy, H!certbot, H!accessConfig
  <1> QED BY <1>7, <1>8, <1>9, <1>10, <1>12

\* A failure that was met while undoing is not forgotten, and what was there before a
\* command does not change under it.
LEMMA ChangingStays ==
  ASSUME HostInv, cmd.kind = "access", H!AccessStep \/ H!Fail, Changing'
  PROVE  Changing /\ cmd.todo # <<>>
  <1>1. cmd.todo # <<>>
    BY DEF H!AccessStep, H!Step, H!removePanelTailscale, H!addRoute, H!disableProxy,
           H!configureDomain, H!writeProxy, H!certbot, H!accessConfig, H!restartPanel,
           H!restoreConfig, H!restoreRoute, H!restoreProxy, H!Fail
  <1>2. cmd \in Command
    BY <1>1, StepsOfKind
  <1> DEFINE Kept == cmd'.before = cmd.before /\ (cmd.stuck => cmd'.stuck)
  <1>3. H!Advance => Kept
    BY <1>2 DEF H!Advance, Command
  <1>4. \A u : H!AdvanceUndoing(u) => Kept
    BY <1>2 DEF H!AdvanceUndoing, Command
  <1>5. \A u : H!Failing(u) => Kept
    BY <1>2 DEF H!Failing, Command
  <1>6. \A t, u : /\ cmd' = [cmd EXCEPT !.todo = t, !.undo = u] => Kept
                  /\ cmd' = [cmd EXCEPT !.todo = t, !.ok = FALSE] => Kept
                  /\ cmd' = [cmd EXCEPT !.ok = FALSE, !.todo = t] => Kept
                  /\ cmd' = [cmd EXCEPT !.todo = t] => Kept
    BY <1>2 DEF Command
  <1> HIDE DEF Kept
  <1>7. Kept
    <2>1. CASE H!removePanelTailscale \/ H!addRoute \/ H!accessConfig
      BY <1>4, <2>1 DEF H!removePanelTailscale, H!addRoute, H!accessConfig
    <2>2. CASE H!certbot \/ H!restartPanel \/ H!restoreRoute \/ H!restoreProxy
      BY <1>3, <1>5, <2>2 DEF H!certbot, H!restartPanel, H!restoreRoute, H!restoreProxy
    <2>3. CASE H!disableProxy
      BY <1>3, <1>6, <2>3 DEF H!disableProxy
    <2>4. CASE H!configureDomain
      BY <1>6, <2>4 DEF H!configureDomain, H!writeProxy
    <2>5. CASE H!restoreConfig
      BY <1>5, <1>6, <2>5 DEF H!restoreConfig
    <2>6. CASE H!Fail
      BY <1>5, <1>6, <2>6 DEF H!Fail, H!Kind
    <2> QED BY <2>1, <2>2, <2>3, <2>4, <2>5, <2>6 DEF H!AccessStep
  <1>8. cmd'.before = cmd.before /\ (cmd.stuck => cmd'.stuck)
    BY <1>7 DEF Kept
  <1> QED BY <1>1, <1>8 DEF Changing, Was

LEMMA AccessStepAnswers ==
  ASSUME HostInv, AccessAnswers, cmd.kind = "access", H!AccessStep
  PROVE  AccessAnswers'
  <1>1. CASE ~Changing'
    BY <1>1 DEF AccessAnswers
  <1>2. CASE Changing'
    <2>1. Changing /\ cmd.todo # <<>>
      BY <1>2, ChangingStays
    <2>2. CASE Going
      <3>1. Head(cmd.todo) # "unconfig" /\ Head(cmd.todo) # "reroute"
            /\ Head(cmd.todo) # "remove route" /\ Head(cmd.todo) # "unproxy"
        BY <2>1, <2>2, AccessWhere
      <3>2. ~H!restoreConfig /\ ~H!restoreRoute /\ ~H!restoreProxy
        BY <3>1 DEF H!restoreConfig, H!restoreRoute, H!restoreProxy, H!Step
      <3> QED BY <2>1, <2>2, <3>2, RouteAnswers, ProxyAnswers, ListenerAnswers
              DEF H!AccessStep, H!configureDomain
    <2>3. CASE ~Going
      BY <1>2, <2>1, <2>3, BackwardAnswers
    <2> QED BY <2>2, <2>3
  <1> QED BY <1>1, <1>2

\* A step of a change of access that fails.
LEMMA AccessFailAnswers ==
  ASSUME HostInv, AccessAnswers, cmd.kind = "access", H!Fail
  PROVE  AccessAnswers'
  <1>1. CASE ~Changing'
    BY <1>1 DEF AccessAnswers
  <1>2. CASE Changing'
    <2>1. Changing /\ cmd.todo # <<>> /\ cmd \in Command
      BY <1>2, ChangingStays, StepsOfKind
    <2>2. Going /\ UNCHANGED <<config, listens, route, proxy, link, nginx>>
      BY DEF H!Fail, H!Undoing, H!disk, H!services, H!access, Going
    <2>3. cmd.undo \in Seq(UndoSteps) /\ Undo(Elems(cmd.undo))
      BY <2>1, <2>2 DEF AccessAnswers, Forward
    <2>4. Seq(UndoSteps) \subseteq Seq(PutBack)
      BY UndoStepsNamed, SeqMonotonic
    <2>5. \/ H!Failing(One("unconfig")) \/ H!Failing(<<>>)
          \/ cmd' = [cmd EXCEPT !.todo = cmd.undo \o One("unproxy"), !.ok = FALSE]
      BY DEF H!Fail, H!Kind, One
    <2>6. ASSUME SameCommand, NEW R, NEW e \in {"unconfig", "unproxy"},
                 R = Elems(cmd.undo) \/ R = Elems(cmd.undo) \cup {e}
          PROVE  Undo(R)'
      <3>1. Was' = Was
        BY <2>6, SameFields
      <3>2. SameProxy' <=> SameProxy
        BY <2>2, <3>1 DEF SameProxy
      <3>3. e # "restart panel" /\ e # "reroute" /\ e # "remove route"
        BY <2>6
      <3> QED BY <2>2, <2>3, <2>6, <3>1, <3>2, <3>3 DEF Undo
    <2>7. CASE H!Failing(<<>>)
      <3>1. SameCommand /\ cmd'.todo = <<>> \o cmd.undo /\ ~Going'
        BY <2>1, <2>2, <2>7, AccessForms
      <3>2. cmd'.todo \in Seq(PutBack) /\ Elems(cmd'.todo) = Elems(cmd.undo)
        BY <2>3, <2>4, <3>1, ConcatEmptySeq
      <3>3. Undo(Elems(cmd.todo))'
        BY <2>6, <3>1, <3>2
      <3> QED BY <2>1, <3>1, <3>2, <3>3, GoesBack
    <2>8. CASE H!Failing(One("unconfig"))
      <3>1. SameCommand /\ cmd'.todo = One("unconfig") \o cmd.undo /\ ~Going'
        BY <2>1, <2>2, <2>8, AccessForms
      <3>2. /\ One("unconfig") \o cmd.undo \in Seq(UndoSteps)
            /\ Elems(One("unconfig") \o cmd.undo) = Elems(cmd.undo) \cup {"unconfig"}
        BY <2>3, ElemsPut, UndoStepsNamed
      <3>3. cmd'.todo \in Seq(PutBack) /\ Elems(cmd'.todo) = Elems(cmd.undo) \cup {"unconfig"}
        BY <2>4, <3>1, <3>2
      <3>4. Undo(Elems(cmd.todo))'
        BY <2>6, <3>1, <3>3
      <3> QED BY <2>1, <3>1, <3>3, <3>4, GoesBack
    <2>9. CASE cmd' = [cmd EXCEPT !.todo = cmd.undo \o One("unproxy"), !.ok = FALSE]
      <3>1. SameCommand /\ cmd'.todo = cmd.undo \o One("unproxy") /\ ~Going'
        BY <2>1, <2>9, AccessEdits, ZenonT(60)
      <3>2. /\ cmd.undo \o One("unproxy") \in Seq(UndoSteps)
            /\ Elems(cmd.undo \o One("unproxy")) = Elems(cmd.undo) \cup {"unproxy"}
        BY <2>3, ElemsPut, UndoStepsNamed
      <3>3. cmd'.todo \in Seq(PutBack) /\ Elems(cmd'.todo) = Elems(cmd.undo) \cup {"unproxy"}
        BY <2>4, <3>1, <3>2
      <3>4. Undo(Elems(cmd.todo))'
        BY <2>6, <3>1, <3>3
      <3> QED BY <2>1, <3>1, <3>3, <3>4, GoesBack
    <2> QED BY <2>5, <2>7, <2>8, <2>9
  <1> QED BY <1>1, <1>2

\* A command begins: nothing is done yet, and nothing is to be undone.
LEMMA RunsAnswer ==
  ASSUME HostInv, H!RunInstall \/ H!RunUpgrade \/ H!RunAccess
  PROVE  UpgradeAnswers' /\ AccessAnswers'
  <1>1. CASE H!RunInstall
    <2>1. PICK v \in Versions : H!Run("install", v, H!Install)
      BY <1>1 DEF H!RunInstall
    <2>2. H!Install \in Seq(AllSteps)
      BY InstallRest
    <2>3. cmd'.kind = "install"
      BY <2>1, <2>2, Beginning
    <2> QED BY <2>3 DEF UpgradeAnswers, AccessAnswers, Changing
  <1>2. CASE H!RunUpgrade
    <2>1. PICK v \in Versions : H!Run("upgrade", v, H!Upgrade)
      BY <1>2 DEF H!RunUpgrade
    <2>2. H!Upgrade \in Seq(AllSteps)
      BY UpgradeList, SeqMonotonic DEF AllSteps
    <2>3. /\ cmd'.kind = "upgrade" /\ cmd'.todo = H!Upgrade /\ cmd'.undo = <<>> /\ cmd'.ok = TRUE
          /\ cmd'.at = H!None /\ cmd'.before.units = units /\ cmd'.before.binary = binary
          /\ UNCHANGED H!disk
      BY <2>1, <2>2, Beginning
    <2>4. UNCHANGED <<binary, units>>
      BY <2>3 DEF H!disk
    <2>5. UpgradeAt(1)'
      BY <2>3, <2>4, UpgradeRest DEF UpgradeAt
    <2>6. UpgradeAnswers'
      BY <2>3, <2>5 DEF UpgradeAnswers
    <2>7. AccessAnswers'
      BY <2>3 DEF AccessAnswers, Changing
    <2> QED BY <2>6, <2>7
  <1>3. CASE H!RunAccess
    <2>1. PICK to \in Ways : H!Run("access", to, H!Configure(to))
      BY <1>3 DEF H!RunAccess, Ways
    <2>2. H!Configure(to) \in Seq(AccessSteps)
      BY AccessList, DomainList
    <2>3. H!Configure(to) \in Seq(AllSteps)
      BY <2>2, SeqMonotonic DEF AllSteps
    <2>4. /\ cmd'.kind = "access" /\ cmd'.to = to /\ cmd'.todo = H!Configure(to)
          /\ cmd'.undo = <<>> /\ cmd'.before.address = H!Address
          /\ UNCHANGED <<H!disk, H!access, H!services>>
      BY <2>1, <2>3, Beginning
    <2>11. cmd'.ok = TRUE
      BY <2>1, <2>3, Beginning
    <2>5. UNCHANGED <<config, listens, route, proxy, link, nginx>>
      BY <2>4 DEF H!disk, H!access, H!services
    <2>6. Was' = [config |-> config', proxy |-> proxy', link |-> link', nginx |-> nginx',
                  route |-> route', listens |-> listens']
      BY <2>4, <2>5 DEF Was, H!Address
    <2>7. /\ config' = Was'.config /\ listens' = Was'.listens /\ route' = Was'.route /\ SameProxy'
      BY <2>6 DEF SameProxy
    <2>8. cmd'.undo \in Seq(UndoSteps) /\ Elems(cmd'.undo) = {}
      BY <2>4, EmptySeq, ElemsOfList
    <2>9. Undo(Elems(cmd.undo))'
      BY <2>7, <2>8 DEF Undo
    <2>10. cmd'.todo = From(H!Configure(cmd'.to), 1)
      BY <2>2, <2>4, Rest
    <2>12. Configuring'
      <3>1. CASE to = "domain"
        <4>1. Domain(1)' /\ 1 \in 1..7
          BY <2>4, <2>7, <2>10, <3>1 DEF Domain
        <4> QED BY <4>1 DEF Configuring
      <3>2. CASE to # "domain"
        <4>1. Plain(1)' /\ 1 \in 1..5
          BY <2>4, <2>7, <2>10, <3>2 DEF Plain
        <4> QED BY <4>1 DEF Configuring
      <3> QED BY <3>1, <3>2
    <2>13. Going'
      BY <2>11 DEF Going
    <2>14. AccessAnswers'
      BY <2>4, <2>8, <2>9, <2>12, <2>13 DEF AccessAnswers, Forward
    <2>15. UpgradeAnswers'
      BY <2>4 DEF UpgradeAnswers
    <2> QED BY <2>14, <2>15
  <1> QED BY <1>1, <1>2, <1>3
\* No step makes another command of a command.
LEMMA KindStays ==
  ASSUME HostInv, H!InstallStep \/ H!UpgradeStep \/ H!AccessStep \/ H!Fail
  PROVE  cmd'.kind = cmd.kind /\ cmd.kind \in {"install", "upgrade", "access"}
  <1>1. cmd.todo # <<>>
    BY DEF H!InstallStep, H!UpgradeStep, H!AccessStep, H!Step, H!Fail,
           H!beginInstall, H!installPackages, H!installExecutable, H!ensurePanelCertificate,
           H!ensureSecretKey, H!installConfig, H!WriteUnits, H!finishInstallation,
           H!reconcile, H!stopServices, H!checkpointSQLite, H!copyFile, H!replaceFile,
           H!startServices, H!waitForPanel, H!restartOld, H!rollback, H!restore,
           H!removePanelTailscale, H!addRoute, H!disableProxy, H!configureDomain, H!writeProxy,
           H!certbot, H!accessConfig, H!restartPanel, H!restoreConfig, H!restoreRoute,
           H!restoreProxy
  <1>2. cmd \in Command
    BY <1>1, StepsOfKind
  <1> DEFINE Same == cmd'.kind = cmd.kind
  <1>3. H!Advance => Same
    BY <1>2 DEF H!Advance, Command
  <1>4. \A u : H!AdvanceUndoing(u) => Same
    BY <1>2 DEF H!AdvanceUndoing, Command
  <1>5. \A u : H!Failing(u) => Same
    BY <1>2 DEF H!Failing, Command
  <1>6. \A t, u : /\ cmd' = [cmd EXCEPT !.todo = t, !.undo = u] => Same
                  /\ cmd' = [cmd EXCEPT !.todo = t, !.ok = FALSE] => Same
                  /\ cmd' = [cmd EXCEPT !.ok = FALSE, !.todo = t] => Same
                  /\ cmd' = [cmd EXCEPT !.todo = t, !.saved = u] => Same
                  /\ cmd' = [cmd EXCEPT !.todo = t, !.ok = FALSE, !.at = u] => Same
                  /\ cmd' = [cmd EXCEPT !.todo = t] => Same
    BY <1>2 DEF Command
  <1>7. \A t, u, a : cmd' = [cmd EXCEPT !.todo = t, !.undo = u, !.at = a] => Same
    BY <1>2 DEF Command
  <1> HIDE DEF Same
  <1>8. ASSUME H!InstallStep PROVE Same
    <2>1. CASE H!ensurePanelCertificate
      BY <1>3, <1>6, <2>1 DEF H!ensurePanelCertificate
    <2>2. CASE ~H!ensurePanelCertificate
      BY <1>3, <1>8, <2>2
         DEF H!InstallStep, H!beginInstall, H!installPackages, H!installExecutable,
             H!ensureSecretKey, H!installConfig, H!WriteUnits, H!finishInstallation
    <2> QED BY <2>1, <2>2
  <1>9. ASSUME H!UpgradeStep PROVE Same
    <2>1. CASE H!stopServices
      <3>1. \/ cmd' = [cmd EXCEPT !.todo = Tail(cmd.todo), !.undo = StartOld, !.at = H!Live]
            \/ cmd' = [cmd EXCEPT !.todo = StartOld, !.ok = FALSE, !.at = H!Live]
        BY <2>1 DEF H!stopServices, StartOld
      <3>2. cmd' = [cmd EXCEPT !.todo = Tail(cmd.todo), !.undo = StartOld, !.at = H!Live] => Same
        BY <1>7, ZenonT(60)
      <3>3. cmd' = [cmd EXCEPT !.todo = StartOld, !.ok = FALSE, !.at = H!Live] => Same
        BY <1>6, ZenonT(60)
      <3> QED BY <3>1, <3>2, <3>3
    <2>2. CASE H!copyFile \/ H!replaceFile
      BY <1>6, <2>2 DEF H!copyFile, H!replaceFile
    <2>3. CASE H!rollback \/ H!restore
      BY <1>5, <1>6, <2>3 DEF H!rollback, H!restore
    <2>4. CASE H!reconcile \/ H!checkpointSQLite \/ H!waitForPanel \/ H!startServices \/ H!restartOld
      BY <1>3, <1>5, <2>4
         DEF H!reconcile, H!checkpointSQLite, H!waitForPanel, H!startServices, H!restartOld
    <2> QED BY <1>9, <2>1, <2>2, <2>3, <2>4 DEF H!UpgradeStep
  <1>10. ASSUME H!AccessStep PROVE Same
    BY <1>10, StepsAreApart, AccessMoves DEF Move, Same
  <1>11. ASSUME H!Fail PROVE Same
    BY <1>5, <1>6, <1>11 DEF H!Fail, H!Kind
  <1>12. cmd.kind \in {"install", "upgrade", "access"}
    BY <1>1, StepsOfKind
  <1> QED BY <1>8, <1>9, <1>10, <1>11, <1>12 DEF Same

\* What says nothing of a command leaves what it answers.
LEMMA AccessAnswersStay ==
  ASSUME AccessAnswers, UNCHANGED <<cmd, config, listens, route, proxy, link, nginx>>
  PROVE  AccessAnswers'
  <1>1. Was' = Was /\ Routed' = Routed /\ Chosen' = Chosen /\ (Going' <=> Going)
        /\ (Changing' <=> Changing)
    BY DEF Was, Routed, Chosen, Going, Changing
  <1>2. SameProxy' <=> SameProxy
    BY <1>1 DEF SameProxy
  <1>3. Undo(Elems(cmd.undo)) => Undo(Elems(cmd.undo))'
    BY <1>1, <1>2 DEF Undo
  <1>4. Undo(Elems(cmd.todo)) => Undo(Elems(cmd.todo))'
    BY <1>1, <1>2 DEF Undo
  <1>5. \A i \in 1..5 : Plain(i) => Plain(i)'
    BY <1>1, <1>2 DEF Plain
  <1>6. \A i \in 1..7 : Domain(i) => Domain(i)'
    BY <1>1 DEF Domain
  <1>7. Configuring => Configuring'
    BY <1>5, <1>6 DEF Configuring
  <1>8. (Forward => Forward') /\ (Backward => Backward')
    BY <1>3, <1>4, <1>7 DEF Forward, Backward
  <1>9. cmd' = cmd
    OBVIOUS
  <1> QED BY <1>1, <1>8, <1>9 DEF AccessAnswers

AnswersInv == HostInv /\ UpgradeAnswers /\ AccessAnswers

LEMMA AnswersKept ==
  ASSUME AnswersInv, [H!HostNext]_H!hostVars
  PROVE  AnswersInv'
  <1>1. HostInv /\ UpgradeAnswers /\ AccessAnswers /\ HostInv'
    BY HostKept DEF AnswersInv
  <1>2. CASE H!RunInstall \/ H!RunUpgrade \/ H!RunAccess
    BY <1>1, <1>2, RunsAnswer DEF AnswersInv
  <1>3. CASE H!InstallStep \/ H!UpgradeStep \/ H!AccessStep \/ H!Fail
    <2>1. cmd'.kind = cmd.kind /\ cmd.kind \in {"install", "upgrade", "access"}
      BY <1>1, <1>3, KindStays
    <2>2. CASE cmd.kind = "install"
      BY <1>1, <2>1, <2>2 DEF AnswersInv, UpgradeAnswers, AccessAnswers, Changing
    <2>3. CASE cmd.kind = "upgrade"
      <3>1. H!UpgradeStep \/ H!WriteUnits \/ H!Fail
        BY <1>1, <1>3, <2>3, StepsAreApart
      <3>2. UpgradeAnswers'
        BY <1>1, <2>3, <3>1, UpgradeStepAnswers, UpgradeFailAnswers
      <3> QED BY <1>1, <2>1, <2>3, <3>2 DEF AnswersInv, AccessAnswers, Changing
    <2>4. CASE cmd.kind = "access"
      <3>1. H!AccessStep \/ H!Fail
        BY <1>1, <1>3, <2>4, StepsAreApart
      <3>2. AccessAnswers'
        BY <1>1, <2>4, <3>1, AccessStepAnswers, AccessFailAnswers
      <3> QED BY <1>1, <2>1, <2>4, <3>2 DEF AnswersInv, UpgradeAnswers
    <2> QED BY <2>1, <2>2, <2>3, <2>4
  <1>4. CASE H!Answer \/ H!Killed
    <2>1. cmd'.kind = "none"
      BY <1>4, NoCommandFields DEF H!Answer, H!Killed
    <2> QED BY <1>1, <2>1 DEF AnswersInv, UpgradeAnswers, AccessAnswers, Changing
  <1>5. CASE H!Reboot
    <2>1. cmd'.kind = "none"
      BY <1>5, NoCommandFields DEF H!Reboot
    <2> QED BY <1>1, <2>1 DEF AnswersInv, UpgradeAnswers, AccessAnswers, Changing
  <1>6. CASE H!WriteRow
    <2>1. UNCHANGED <<cmd, config, listens, route, proxy, link, nginx>>
      BY <1>6 DEF H!WriteRow, H!disk, H!access, H!services
    <2>2. AccessAnswers'
      BY <1>1, <2>1, AccessAnswersStay
    <2>3. UpgradeAnswers'
      BY <1>1, <1>6, <2>1, UpgradeWriteAnswers DEF UpgradeAnswers
    <2> QED BY <1>1, <2>2, <2>3 DEF AnswersInv
  <1>7. CASE UNCHANGED H!hostVars
    <2>1. /\ UNCHANGED <<cmd, config, listens, route, proxy, link, nginx>>
          /\ UNCHANGED <<binary, units, panel, broker, file, wal>>
      BY <1>7 DEF H!hostVars, H!disk, H!access, H!services, H!database
    <2>2. AccessAnswers'
      BY <1>1, <2>1, AccessAnswersStay
    <2>3. H!Live' = H!Live
      BY <2>1, LiveInFile
    <2>4. UpgradeAnswers'
      BY <1>1, <2>1, <2>3
         DEF UpgradeAnswers, UpgradeAt, OldServes, CopyWaits, SameBinary, RowsKept, SchemaKept
    <2> QED BY <1>1, <2>2, <2>4 DEF AnswersInv
  <1> QED BY <1>2, <1>3, <1>4, <1>5, <1>6, <1>7 DEF H!HostNext

\* A list of which nothing is left has been gone through.
LEMMA RestOver ==
  \A Items : \A s \in Seq(Items) : \A i \in 1..Len(s) + 1 : From(s, i) = <<>> => i = Len(s) + 1
  <1> SUFFICES ASSUME NEW Items, NEW s \in Seq(Items), NEW i \in 1..Len(s) + 1, From(s, i) = <<>>
               PROVE  i = Len(s) + 1
    OBVIOUS
  <1>1. Len(s) \in Nat
    BY LenProperties
  <1>2. i \notin 1..Len(s)
    BY Rest
  <1> QED BY <1>1, <1>2

LEMMA InstallOver == \A i \in 1..10 : From(H!Install, i) = <<>> => i = 10
  <1>1. \A i \in 1..9 : From(H!Install, i) # <<>>
    BY InstallRest
  <1> QED BY <1>1

LEMMA UpgradeOver == \A i \in 1..9 : From(H!Upgrade, i) = <<>> => i = 9
  <1>1. \A i \in 1..8 : From(H!Upgrade, i) # <<>>
    BY UpgradeRest
  <1> QED BY <1>1

\* A command that has nothing left to do.
LEMMA InstallEnds ==
  ASSUME HostInv, cmd.kind = "install", cmd.todo = <<>>, cmd.ok
  PROVE  ~marker /\ panel = binary /\ broker = binary
  <1>1. PICK i \in 1..10 : InstallAt(i)
    BY DEF HostInv, Installing
  <1>2. From(H!Install, i) = <<>>
    BY <1>1 DEF InstallAt
  <1>3. i = 10
    BY <1>2, InstallOver
  <1> QED BY <1>1, <1>3 DEF InstallAt

LEMMA UpgradeEnds ==
  ASSUME UpgradeAnswers, cmd.kind = "upgrade", cmd.todo = <<>>, ~cmd.stuck
  PROVE  /\ cmd.ok => /\ binary = cmd.to /\ units = cmd.to /\ panel = cmd.to /\ broker = cmd.to
                      /\ H!Live.rows >= cmd.at.rows
         /\ ~cmd.ok => /\ binary = cmd.before.binary /\ units = cmd.before.units
                       /\ cmd.at # H!None => H!Live.schema \in {cmd.at.schema, binary}
                       /\ cmd.at # H!None => H!Live.rows >= cmd.at.rows
  <1>1. CASE cmd.ok
    <2>1. PICK j \in 1..9 : UpgradeAt(j)
      BY <1>1 DEF UpgradeAnswers
    <2>2. From(H!Upgrade, j) = <<>>
      BY <2>1 DEF UpgradeAt
    <2>3. j = 9
      BY <2>2, UpgradeOver
    <2> QED BY <1>1, <2>1, <2>3 DEF UpgradeAt, RowsKept
  <1>2. CASE ~cmd.ok
    <2>1. OldServes
      BY <1>2 DEF UpgradeAnswers, CopyWaits
    <2> QED BY <1>2, <2>1 DEF OldServes, SameBinary, RowsKept, SchemaKept
  <1> QED BY <1>1, <1>2

LEMMA AccessEnds ==
  ASSUME HostInv, AccessAnswers, Changing, cmd.todo = <<>>
  PROVE  /\ Going => H!Reached(cmd.to)
         /\ ~Going => H!Address = Was
  <1>1. ASSUME Going PROVE H!Reached(cmd.to)
    <2>1. cmd.to \in Ways /\ Configuring
      BY <1>1 DEF AccessAnswers, Forward
    <2>2. CASE \E i \in 1..5 : Plain(i)
      <3>1. PICK i \in 1..5 : Plain(i)
        BY <2>2
      <3>2. cmd.to \in Ways \ {"domain"} /\ cmd.todo = From(H!Configure(cmd.to), i)
        BY <2>1, <3>1 DEF Plain
      <3>3. PICK s : s = H!Configure(cmd.to)
        OBVIOUS
      <3>4. s \in Seq(AccessSteps) /\ Len(s) = 4 /\ From(s, i) = <<>>
        BY <3>2, <3>3, AccessList
      <3>5. i = 5
        <4>1. \A k \in 1..Len(s) + 1 : From(s, k) = <<>> => k = Len(s) + 1
          BY <3>4, RestOver
        <4>2. Len(s) + 1 = 5
          BY <3>4
        <4> QED BY <3>4, <4>1, <4>2
      <3>6. route = Routed /\ nginx = "none" /\ config = Chosen /\ listens = config
        BY <3>1, <3>5 DEF Plain
      <3>7. cmd.to = "local" \/ cmd.to = "public" \/ cmd.to = "tailscale"
        BY <3>2 DEF Ways
      <3> QED BY <3>6, <3>7 DEF H!Reached, Routed, Chosen
    <2>3. CASE \E i \in 1..7 : Domain(i)
      <3>1. PICK i \in 1..7 : Domain(i)
        BY <2>3
      <3>2. cmd.to = "domain" /\ cmd.todo = From(H!Configure("domain"), i)
        BY <3>1 DEF Domain
      <3>3. PICK s : s = H!Configure("domain")
        OBVIOUS
      <3>4. s \in Seq(AccessSteps) /\ Len(s) = 6 /\ From(s, i) = <<>>
        BY <3>2, <3>3, DomainList
      <3>5. i = 7
        <4>1. \A k \in 1..Len(s) + 1 : From(s, k) = <<>> => k = Len(s) + 1
          BY <3>4, RestOver
        <4>2. Len(s) + 1 = 7
          BY <3>4
        <4> QED BY <3>4, <4>1, <4>2
      <3>6. route = FALSE /\ nginx = "https" /\ config = "local" /\ listens = config
        BY <3>1, <3>5 DEF Domain
      <3> QED BY <3>2, <3>6 DEF H!Reached
    <2> QED BY <2>1, <2>2, <2>3 DEF Configuring
  <1>2. ASSUME ~Going PROVE H!Address = Was
    <2>1. Undo(Elems(cmd.todo))
      BY <1>2 DEF AccessAnswers, Backward
    <2>2. Elems(cmd.todo) = {}
      BY EmptySeq, ElemsOfList
    <2>3. /\ config = Was.config /\ listens = Was.listens /\ route = Was.route
          /\ proxy = Was.proxy /\ link = Was.link /\ nginx = Was.nginx
      BY <2>1, <2>2 DEF Undo, SameProxy
    <2>4. Was \in Addresses
      BY AccessPlaces
    <2> QED BY <2>3, <2>4 DEF H!Address, Addresses
  <1> QED BY <1>1, <1>2

LEMMA AnswersFollow ==
  ASSUME AnswersInv
  PROVE  H!AnswersHold
  <1> SUFFICES ASSUME cmd # H!NoCommand, cmd.todo = <<>>, ~cmd.stuck PROVE H!AnswersHold
    BY DEF H!AnswersHold
  <1>1. HostInv /\ UpgradeAnswers /\ AccessAnswers
    BY DEF AnswersInv
  <1>2. cmd \in Command /\ cmd.ok \in BOOLEAN /\ cmd.kind \in {"install", "upgrade", "access"}
    BY <1>1 DEF HostInv, HostTypes, CommandTyped, Command
  <1>3. CASE cmd.kind = "install"
    <2>1. cmd.ok => ~marker /\ panel = binary /\ broker = binary
      BY <1>1, <1>3, InstallEnds
    <2> QED BY <1>2, <1>3, <2>1 DEF H!AnswersHold, H!Kind
  <1>4. CASE cmd.kind = "upgrade"
    BY <1>1, <1>2, <1>4, UpgradeEnds DEF H!AnswersHold, H!Kind
  <1>5. CASE cmd.kind = "access"
    <2>1. H!Settled(cmd.before.address) =>
             IF cmd.ok THEN H!Reached(cmd.to) ELSE H!Address = cmd.before.address
      BY <1>1, <1>5, AccessEnds DEF Changing, Going, Was
    <2> QED BY <1>2, <1>5, <2>1 DEF H!AnswersHold, H!Kind
  <1> QED BY <1>2, <1>3, <1>4, <1>5
\* The three promises together: the secrets stay readable, an installation can be
\* resumed, and a command that ended without getting stuck left what it answered: the
\* versions asked for or the ones before, no row lost, the access asked for or the one
\* before (upgrade.go, install.go, access.go).
THEOREM CommandsAlwaysKeepThePanel == Spec => []CommandsKeepThePanel
  <1>1. ASSUME Init PROVE AnswersInv
    <2>1. HostInv /\ cmd = H!NoCommand
      BY <1>1, HostBegins DEF Init, H!HostInit
    <2>2. UpgradeAnswers /\ AccessAnswers
      BY <2>1, NoCommandFields DEF UpgradeAnswers, AccessAnswers, Changing
    <2> QED BY <2>1, <2>2 DEF AnswersInv
  <1>2. AnswersInv /\ [Next]_vars => AnswersInv'
    BY HostStep, AnswersKept
  <1>3. ASSUME AnswersInv PROVE CommandsKeepThePanel
    <2>1. HostInv
      BY <1>3 DEF AnswersInv
    <2>2. H!SecretsReadable /\ H!Resumable
      BY <2>1, SecretsFollow
    <2>3. H!AnswersHold
      BY <1>3, AnswersFollow
    <2> QED BY <2>2, <2>3 DEF CommandsKeepThePanel, H!CommandsKeepThePanel
  <1> QED BY <1>1, <1>2, <1>3, PTL DEF Spec
=============================================================================
