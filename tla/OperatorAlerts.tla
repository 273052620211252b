---------------------------- MODULE OperatorAlerts ----------------------------
(***************************************************************************)
(* What the operator is told about one condition (a processor, a disk, a   *)
(* service, a certificate) or one kind of event, on each channel.  The     *)
(* monitor evaluates every minute under its mutex: it reads the state of   *)
(* the alert, sends to every channel in turn, writes the state of each     *)
(* delivery after it, and at last that of the alert.  A channel may fail,  *)
(* a write may fail, and the panel may stop in the midst of it all.        *)
(*                                                                         *)
(* Phases are numbered: 2c-1 is the opening of the condition's cycle c, 2c *)
(* its recovery; an event's phase is its text.                             *)
(***************************************************************************)
EXTENDS Naturals, FiniteSets

CONSTANTS Channels,
          Trigger,      \* bad samples before an alert opens
          Cooldown,     \* in minutes
          MaxPhases

AlertAssumption == Trigger \in Nat \ {0} /\ Cooldown \in Nat /\ MaxPhases \in Nat

VARIABLES kind,         \* "condition" or "event"
          on,           \* channels that are enabled and whose rules allow the alert
          sample,       \* the condition: 1 bad, 0 good; the event: its text, 0 none
          state,        \* the row of the alert
          delivery,     \* the rows of its deliveries
          heard,        \* the last phase a channel has delivered
          outcome       \* of the last evaluation: what is written down

alertVars == <<kind, on, sample, state, delivery, heard, outcome>>

Recovered == 2          \* good samples before it resolves
Least(a, b) == IF a < b THEN a ELSE b
Open(phase)     == phase % 2 = 1
Resolved(phase) == phase # 0 /\ ~Open(phase)

\* Ages in minutes, no further than the cooldown; never sent is long ago.
NoState    == [active |-> FALSE, bad |-> 0, good |-> 0, age |-> Cooldown, phase |-> 0]
NoDelivery == [failed |-> FALSE, age |-> Cooldown, phase |-> 0]

Tick == /\ state' = [state EXCEPT !.age = Least(@ + 1, Cooldown)]
        /\ delivery' = [ch \in Channels |->
                           [delivery[ch] EXCEPT !.age = Least(@ + 1, Cooldown)]]
        /\ UNCHANGED <<kind, on, sample, heard, outcome>>

SaveOperatorAlertSettings ==
    /\ on' \in SUBSET Channels /\ on' # on
    /\ outcome' = "none"
    /\ UNCHANGED <<kind, sample, state, delivery, heard>>

Sample == /\ sample' \in IF kind = "condition" THEN {0, 1} ELSE {sample + 1} \intersect 0 .. MaxPhases
          /\ sample' # sample /\ outcome' = "none"
          /\ UNCHANGED <<kind, on, state, delivery, heard>>

-----------------------------------------------------------------------------
\* One phase is sent to the enabled channels, with a result for each; a stop skips
\* those that come later.  A channel that has delivered the phase is passed over,
\* and one that failed has its own cooldown.
Results == {"sent", "failed", "unwritten", "skipped"}
Delivered(d, phase) == d.phase = phase /\ ~d.failed
Attempted(d, phase) == ~Delivered(d, phase) /\ ~(d.failed /\ d.age < Cooldown)

send(phase, result) ==
    LET tried == {ch \in on : Attempted(delivery[ch], phase) /\ result[ch] # "skipped"}
    IN  /\ heard' = [ch \in Channels |-> IF ch \in tried /\ result[ch] # "failed" THEN phase
                                                                           ELSE heard[ch]]
        /\ delivery' = [ch \in Channels |->
              IF ch \notin tried \/ result[ch] = "unwritten" THEN delivery[ch]
              ELSE IF result[ch] = "sent" THEN [failed |-> FALSE, age |-> 0, phase |-> phase]
              ELSE [delivery[ch] EXCEPT !.failed = TRUE, !.age = 0]]

\* Mutant of AllDelivered: one channel is enough.
OneDelivered(phase, result) ==
    \E ch \in on : Delivered(delivery[ch], phase) \/ result[ch] = "sent"

\* A channel in its own cooldown, or whose delivery failed, keeps an event open.
AllDelivered(phase, result) ==
    \A ch \in on : \/ Delivered(delivery[ch], phase)
                   \/ Attempted(delivery[ch], phase) /\ result[ch] = "sent"

\* The state of the condition after a sample, and whether its phase is sent.
condition ==
    LET bad     == IF sample = 1 THEN Least(state.bad + 1, Trigger) ELSE 0
        opens   == bad = Trigger /\ ~state.active /\ state.age = Cooldown
        good    == IF sample = 0 /\ state.active THEN state.good + 1 ELSE 0
        resolve == good = Recovered
    IN  IF opens \/ resolve
        THEN [active |-> opens, bad |-> bad, good |-> 0, age |-> 0, phase |-> state.phase + 1]
        ELSE [state EXCEPT !.bad = bad, !.good = good]

Sends(next) == IF sample = 1 THEN next.bad = Trigger /\ next.active
                             ELSE ~next.active /\ Resolved(next.phase)

event == sample # 0 /\ sample # state.phase /\ state.age = Cooldown

\* A stop, or a write that fails, leaves the alert's state as it was.
Evaluate ==
    /\ \E result \in [on -> Results] :
          LET whole == \A ch \in on : result[ch] # "skipped"
          IN  \/ /\ kind = "condition" /\ Sends(condition) /\ condition.phase <= MaxPhases
                 /\ send(condition.phase, result)
                 /\ \/ whole /\ state' = condition /\ outcome' = "sent"
                    \/ UNCHANGED state /\ outcome' = "none"
              \/ /\ kind = "event" /\ event
                 /\ send(sample, result)
                 /\ \/ /\ whole /\ AllDelivered(sample, result) /\ outcome' = "recorded"
                       /\ state' = [state EXCEPT !.phase = sample, !.age = 0]
                    \/ UNCHANGED state /\ outcome' = "none"
    /\ UNCHANGED <<kind, on, sample>>

EvaluateQuietly ==
    /\ kind = "condition" /\ ~Sends(condition) /\ condition.phase <= MaxPhases
    /\ state' = condition /\ outcome' = "none"
    /\ UNCHANGED <<kind, on, sample, delivery, heard>>

AlertsInit ==
    /\ kind \in {"condition", "event"} /\ on \in SUBSET Channels /\ sample = 0
    /\ state = NoState /\ delivery = [ch \in Channels |-> NoDelivery]
    /\ heard = [ch \in Channels |-> 0] /\ outcome = "none"

AlertsNext == Tick \/ SaveOperatorAlertSettings \/ Sample \/ Evaluate \/ EvaluateQuietly
AlertsSpec == AlertsInit /\ [][AlertsNext]_alertVars

-----------------------------------------------------------------------------
AlertsTypeOK ==
    /\ state \in [active : BOOLEAN, bad : 0 .. Trigger, good : 0 .. 1, age : 0 .. Cooldown,
                  phase : 0 .. MaxPhases]
    /\ delivery \in [Channels -> [failed : BOOLEAN, age : 0 .. Cooldown, phase : 0 .. MaxPhases]]
    /\ heard \in [Channels -> 0 .. MaxPhases]

\* Whatever has failed or stopped before, and whichever channels were enabled since:
\* when an evaluation has found the condition bad in an open alert, or recovered,
\* the last thing every channel has delivered is this very phase, but for channels
\* whose last attempt failed or was not written down.  An event is written down as
\* told only when every channel has delivered it.
AlertsAreHeard ==
    /\ outcome = "sent" =>
          /\ state.active <=> Open(state.phase)
          /\ \A ch \in on : \/ heard[ch] = state.phase
                           \/ delivery[ch].failed \/ heard[ch] # delivery[ch].phase
    /\ outcome = "recorded" => \A ch \in on : heard[ch] = state.phase
=============================================================================
