-------------------------- MODULE SiteRecordsProofs --------------------------
(***************************************************************************)
(* Schedules, rows whose counterpart is kept by MariaDB, a provider or     *)
(* Postfix, and the settings of a site, for any number of schedules,       *)
(* intervals, processes, requests and faults: the safety properties of     *)
(* BackupSchedules, ServerRecords and SiteSettings, as theorems of the     *)
(* specification of the work on sites.                                     *)
(***************************************************************************)
EXTENDS SiteWork, SequenceTheorems, TLAPS

\* A step of that work is a step of its schedules, or leaves them alone.
LEMMA SchedulesStep ==
  ASSUME [Next]_vars
  PROVE  [B!SchedulesNext]_B!scheduleVars
  <1>1. CASE Schedule
    BY <1>1 DEF Schedule
  <1>2. CASE Content \/ Files \/ Settings \/ Record \/ UNCHANGED vars
    BY <1>2 DEF Content, Files, Settings, Record, vars, schedules, B!scheduleVars
  <1> QED BY <1>1, <1>2 DEF Next

\* The specification of the work implements that of its schedules.
THEOREM SchedulesAreRefined == Spec => B!SchedulesSpec
  <1>1. Init => B!SchedulesInit
    BY DEF Init
  <1>2. [Next]_vars => [B!SchedulesNext]_B!scheduleVars
    BY SchedulesStep
  <1> QED BY <1>1, <1>2, PTL DEF Spec, B!SchedulesSpec

-----------------------------------------------------------------------------
(***************************************************************************)
(* Schedules.  The next time of a task lies a whole interval after its     *)
(* runs and after it was set, and what an open transaction has read still  *)
(* stands: SQLite refuses its writes as soon as another process commits.   *)
(***************************************************************************)
Tasks == {"backup", "test"}

ScheduleRow == [enabled : BOOLEAN, every : [Tasks -> Nat], next : [Tasks -> Nat], saved : [Tasks -> Nat]]

ScheduleTypes ==
    /\ schedule \in [Schedules -> ScheduleRow] /\ time \in Nat
    /\ pass \in [Processes -> [task : Tasks \cup {"none", "stale"}, due : SUBSET Schedules, at : Nat]]
    /\ \A r \in runs : r.task \in Tasks /\ r.schedule \in Schedules /\ r.at \in 0..time

NextIsLater ==
    /\ \A s \in Schedules, t \in Tasks : schedule[s].next[t] >= schedule[s].saved[t] + schedule[s].every[t]
    /\ \A r \in runs : schedule[r.schedule].next[r.task] >= r.at + schedule[r.schedule].every[r.task]

PassesStand ==
    \A p \in Processes : pass[p].task \in Tasks =>
      /\ pass[p].at <= time
      /\ \A s \in pass[p].due : schedule[s].next[pass[p].task] <= pass[p].at

SchedulesInv == ScheduleTypes /\ NextIsLater /\ PassesStand

LEMMA ScheduleBounds == \A h \in Intervals \cup {0} : h \in Nat
  BY SchedulesAssumption DEF B!SchedulesAssumption

\* What the columns of a row are.
LEMMA RowColumns ==
  ASSUME ScheduleTypes, NEW s \in Schedules
  PROVE  /\ schedule[s].enabled \in BOOLEAN /\ schedule[s].every \in [Tasks -> Nat]
         /\ schedule[s].next \in [Tasks -> Nat] /\ schedule[s].saved \in [Tasks -> Nat]
         /\ \A t \in Tasks : /\ schedule[s].every[t] \in Nat /\ schedule[s].next[t] \in Nat
                             /\ schedule[s].saved[t] \in Nat
  <1>1. schedule[s] \in ScheduleRow
    BY DEF ScheduleTypes
  <1>2. /\ schedule[s].enabled \in BOOLEAN /\ schedule[s].every \in [Tasks -> Nat]
        /\ schedule[s].next \in [Tasks -> Nat] /\ schedule[s].saved \in [Tasks -> Nat]
    BY <1>1 DEF ScheduleRow
  <1> QED BY <1>2

\* A commit ends the transaction of its process, and no other that has read stands.
LEMMA SpoilingPasses ==
  ASSUME ScheduleTypes, NEW p \in Processes, B!Spoil(p)
  PROVE  /\ pass' \in [Processes -> [task : Tasks \cup {"none", "stale"}, due : SUBSET Schedules, at : Nat]]
         /\ \A q \in Processes : pass'[q].task \notin Tasks
  <1> DEFINE Pass == [task : Tasks \cup {"none", "stale"}, due : SUBSET Schedules, at : Nat]
  <1>1. B!NoPass \in Pass /\ B!NoPass.task = "none"
    BY DEF B!NoPass
  <1>2. ASSUME NEW q \in Processes PROVE pass'[q] \in Pass /\ pass'[q].task \notin Tasks
    <2>1. pass[q] \in Pass
      BY DEF ScheduleTypes
    <2>2. CASE q = p
      <3>1. pass'[q] = B!NoPass
        BY <2>2 DEF B!Spoil
      <3> QED BY <1>1, <3>1 DEF Tasks
    <2>3. CASE q # p /\ pass[q] # B!NoPass
      <3>1. pass'[q] = [pass[q] EXCEPT !.task = "stale"]
        BY <2>3 DEF B!Spoil
      <3>2. pass'[q] \in Pass /\ pass'[q].task = "stale"
        BY <2>1, <3>1
      <3> QED BY <3>2 DEF Tasks
    <2>4. CASE q # p /\ pass[q] = B!NoPass
      <3>1. pass'[q] = pass[q]
        BY <2>4 DEF B!Spoil
      <3> QED BY <1>1, <2>4, <3>1 DEF Tasks
    <2> QED BY <2>2, <2>3, <2>4
  <1>3. pass' = [q \in Processes |-> pass'[q]]
    BY DEF B!Spoil
  <1> HIDE DEF Pass
  <1>4. pass' \in [Processes -> Pass]
    BY <1>2, <1>3
  <1> QED BY <1>2, <1>4 DEF Pass

\* A row with new times, which are an interval after now.
LEMMA RowIsSet ==
  ASSUME SchedulesInv, NEW p \in Processes, B!Spoil(p), NEW s \in Schedules, NEW put \in ScheduleRow,
         schedule' = [schedule EXCEPT ![s] = put], UNCHANGED <<runs, time>>,
         \A t \in Tasks : \/ /\ put.next[t] = time + put.every[t] /\ put.saved[t] = time
                          \/ /\ put.next[t] = schedule[s].next[t] /\ put.saved[t] = schedule[s].saved[t]
                             /\ put.every[t] = schedule[s].every[t]
  PROVE  SchedulesInv'
  <1>1. /\ schedule' \in [Schedules -> ScheduleRow] /\ schedule'[s] = put
        /\ \A q \in Schedules \ {s} : schedule'[q] = schedule[q]
    BY DEF SchedulesInv, ScheduleTypes
  <1>2. /\ pass' \in [Processes -> [task : Tasks \cup {"none", "stale"}, due : SUBSET Schedules, at : Nat]]
        /\ \A q \in Processes : pass'[q].task \notin Tasks
    BY SpoilingPasses DEF SchedulesInv
  <1>3. ScheduleTypes'
    BY <1>1, <1>2 DEF SchedulesInv, ScheduleTypes
  <1>4. \A t \in Tasks : put.every[t] \in Nat /\ put.next[t] \in Nat /\ put.saved[t] \in Nat
    <2>1. put.every \in [Tasks -> Nat] /\ put.next \in [Tasks -> Nat] /\ put.saved \in [Tasks -> Nat]
      BY DEF ScheduleRow
    <2> QED BY <2>1
  <1>5. \A q \in Schedules, t \in Tasks : schedule'[q].next[t] >= schedule'[q].saved[t] + schedule'[q].every[t]
    <2> TAKE q \in Schedules, t \in Tasks
    <2>1. CASE q = s
      <3>1. schedule[s].next[t] >= schedule[s].saved[t] + schedule[s].every[t]
        BY DEF SchedulesInv, NextIsLater
      <3>2. put.next[t] >= put.saved[t] + put.every[t]
        BY <1>4, <3>1 DEF SchedulesInv, ScheduleTypes
      <3> QED BY <1>1, <2>1, <3>2
    <2>2. CASE q # s
      BY <1>1, <2>2 DEF SchedulesInv, NextIsLater
    <2> QED BY <2>1, <2>2
  <1>6. \A r \in runs' : schedule'[r.schedule].next[r.task] >= r.at + schedule'[r.schedule].every[r.task]
    <2> TAKE r \in runs'
    <2>1. /\ r \in runs /\ r.task \in Tasks /\ r.schedule \in Schedules /\ r.at \in 0..time
          /\ schedule[r.schedule].next[r.task] >= r.at + schedule[r.schedule].every[r.task]
      BY DEF SchedulesInv, ScheduleTypes, NextIsLater
    <2>2. CASE r.schedule = s
      <3>1. put.next[r.task] >= r.at + put.every[r.task]
        BY <1>4, <2>1, <2>2 DEF SchedulesInv, ScheduleTypes
      <3> QED BY <1>1, <2>2, <3>1
    <2>3. CASE r.schedule # s
      BY <1>1, <2>1, <2>3
    <2> QED BY <2>2, <2>3
  <1>7. PassesStand'
    BY <1>2 DEF PassesStand
  <1> QED BY <1>3, <1>5, <1>6, <1>7 DEF SchedulesInv, NextIsLater
\* The steps of the panel: a schedule is set, a test is set, a site comes or goes.
LEMMA ScheduleIsSet ==
  ASSUME SchedulesInv, NEW p \in Processes, NEW s \in Schedules,
         NEW hours \in Intervals, NEW test \in Intervals \union {0}, B!SetBackupSchedule(p, s, hours, test)
  PROVE  SchedulesInv'
  <1> DEFINE put == [enabled |-> TRUE,
                     every   |-> [t \in Tasks |-> IF t = "backup" THEN hours ELSE test],
                     next    |-> [t \in Tasks |-> time + IF t = "backup" THEN hours ELSE test],
                     saved   |-> [t \in Tasks |-> time]]
  <1>1. hours \in Nat /\ test \in Nat /\ time \in Nat
    BY ScheduleBounds DEF SchedulesInv, ScheduleTypes
  <1>2. schedule' = [schedule EXCEPT ![s] = put] /\ UNCHANGED <<runs, time>> /\ B!Spoil(p)
    BY DEF B!SetBackupSchedule, B!Change, B!Tasks, Tasks
  <1>3. put \in ScheduleRow
    BY <1>1 DEF ScheduleRow
  <1>4. \A t \in Tasks : put.next[t] = time + put.every[t] /\ put.saved[t] = time
    BY <1>1
  <1> HIDE DEF put
  <1> QED BY <1>2, <1>3, <1>4, RowIsSet

LEMMA TestIsSet ==
  ASSUME SchedulesInv, NEW p \in Processes, NEW s \in Schedules, NEW test \in Intervals \union {0},
         B!SetRestoreTestSchedule(p, s, test)
  PROVE  SchedulesInv'
  <1> DEFINE old == schedule[s]
             put == [old EXCEPT !.every["test"] = test, !.next["test"] = time + test,
                                !.saved["test"] = time]
  <1>1. test \in Nat /\ time \in Nat
    BY ScheduleBounds DEF SchedulesInv, ScheduleTypes
  <1>2. schedule' = [schedule EXCEPT ![s] = put] /\ UNCHANGED <<runs, time>> /\ B!Spoil(p)
    <2>1. schedule' = [schedule EXCEPT ![s].every["test"] = test, ![s].next["test"] = time + test,
                                       ![s].saved["test"] = time]
      BY DEF B!SetRestoreTestSchedule
    <2>2. schedule \in [Schedules -> ScheduleRow]
      BY DEF SchedulesInv, ScheduleTypes
    <2>3. schedule' = [schedule EXCEPT ![s] = put]
      BY <2>1, <2>2, Zenon
    <2> QED BY <2>3 DEF B!SetRestoreTestSchedule, B!Change
  <1>3. /\ old \in ScheduleRow
        /\ old.enabled \in BOOLEAN /\ old.every \in [Tasks -> Nat]
        /\ old.next \in [Tasks -> Nat] /\ old.saved \in [Tasks -> Nat]
    BY RowColumns DEF SchedulesInv, ScheduleTypes
  <1> HIDE DEF old
  <1>4. put = [enabled |-> old.enabled, every |-> [old.every EXCEPT !["test"] = test],
               next |-> [old.next EXCEPT !["test"] = time + test],
               saved |-> [old.saved EXCEPT !["test"] = time]]
    <2> DEFINE one == [old EXCEPT !.every["test"] = test]
               two == [one EXCEPT !.next["test"] = time + test]
    <2>1. one = [enabled |-> old.enabled, every |-> [old.every EXCEPT !["test"] = test],
                 next |-> old.next, saved |-> old.saved]
      BY <1>3 DEF ScheduleRow
    <2> HIDE DEF one
    <2>2. two = [enabled |-> old.enabled, every |-> one.every,
                 next |-> [old.next EXCEPT !["test"] = time + test], saved |-> old.saved]
      BY <2>1
    <2> HIDE DEF two
    <2>3. [two EXCEPT !.saved["test"] = time]
          = [enabled |-> old.enabled, every |-> two.every, next |-> two.next,
             saved |-> [old.saved EXCEPT !["test"] = time]]
      BY <2>2
    <2>4. put = [two EXCEPT !.saved["test"] = time]
      BY DEF one, two
    <2> QED BY <2>1, <2>2, <2>3, <2>4
  <1>5. put \in ScheduleRow
    BY <1>1, <1>3, <1>4 DEF ScheduleRow
  <1>6. \A t \in Tasks : \/ put.next[t] = time + put.every[t] /\ put.saved[t] = time
                         \/ /\ put.next[t] = old.next[t] /\ put.saved[t] = old.saved[t]
                            /\ put.every[t] = old.every[t]
    BY <1>1, <1>3, <1>4 DEF Tasks
  <1> HIDE DEF put
  <1> QED BY <1>2, <1>5, <1>6, RowIsSet DEF old

LEMMA SitesComeAndGo ==
  ASSUME SchedulesInv, NEW p \in Processes, NEW s \in Schedules, B!SetReady(p, s) \/ B!AddRestorePoint(p, s)
  PROVE  SchedulesInv'
  <1>1. B!Spoil(p) /\ UNCHANGED <<schedule, runs, time>>
    BY DEF B!SetReady, B!AddRestorePoint, B!Change
  <1>2. /\ pass' \in [Processes -> [task : Tasks \cup {"none", "stale"}, due : SUBSET Schedules, at : Nat]]
        /\ \A q \in Processes : pass'[q].task \notin Tasks
    BY <1>1, SpoilingPasses DEF SchedulesInv
  <1>3. ScheduleTypes'
    BY <1>1, <1>2 DEF SchedulesInv, ScheduleTypes
  <1>4. NextIsLater'
    BY <1>1 DEF SchedulesInv, NextIsLater
  <1> QED BY <1>2, <1>3, <1>4 DEF SchedulesInv, PassesStand

\* The worker looks: what it reads as due was due by then.
LEMMA PassBegins ==
  ASSUME SchedulesInv, NEW p \in Processes, NEW task \in Tasks, B!BeginPass(p, task)
  PROVE  SchedulesInv'
  <1> DEFINE looked == [task |-> task, due |-> {s \in Schedules : B!Due(task, s)}, at |-> time]
  <1>1. pass' = [pass EXCEPT ![p] = looked] /\ UNCHANGED <<schedule, runs, time>>
    BY DEF B!BeginPass
  <1>2. looked \in [task : Tasks \cup {"none", "stale"}, due : SUBSET Schedules, at : Nat]
    BY DEF SchedulesInv, ScheduleTypes
  <1>3. looked.at = time /\ looked.task = task /\ \A s \in looked.due : s \in Schedules /\ schedule[s].next[task] <= time
    BY DEF B!Due
  <1> HIDE DEF looked
  <1>4. ScheduleTypes' /\ pass'[p] = looked /\ \A q \in Processes \ {p} : pass'[q] = pass[q]
    BY <1>1, <1>2 DEF SchedulesInv, ScheduleTypes
  <1>5. NextIsLater'
    BY <1>1 DEF SchedulesInv, NextIsLater
  <1>6. PassesStand'
    <2> SUFFICES ASSUME NEW q \in Processes, pass'[q].task \in Tasks
                 PROVE  /\ pass'[q].at <= time
                        /\ \A s \in pass'[q].due : schedule[s].next[pass'[q].task] <= pass'[q].at
      BY <1>1 DEF PassesStand
    <2>1. time \in Nat
      BY DEF SchedulesInv, ScheduleTypes
    <2>2. CASE q = p
      BY <1>3, <1>4, <2>1, <2>2
    <2>3. CASE q # p
      BY <1>4, <2>3 DEF SchedulesInv, PassesStand
    <2> QED BY <2>2, <2>3
  <1> QED BY <1>4, <1>5, <1>6 DEF SchedulesInv

LEMMA PassIsLost ==
  ASSUME SchedulesInv, NEW p \in Processes, B!Rollback(p)
  PROVE  SchedulesInv'
  <1>1. pass' = [pass EXCEPT ![p] = B!NoPass] /\ UNCHANGED <<schedule, runs, time>>
    BY DEF B!Rollback
  <1>2. /\ B!NoPass \in [task : Tasks \cup {"none", "stale"}, due : SUBSET Schedules, at : Nat]
        /\ B!NoPass.task \notin Tasks
    BY DEF B!NoPass, Tasks
  <1>3. ScheduleTypes' /\ pass'[p] = B!NoPass /\ \A q \in Processes \ {p} : pass'[q] = pass[q]
    BY <1>1, <1>2 DEF SchedulesInv, ScheduleTypes
  <1>4. NextIsLater'
    BY <1>1 DEF SchedulesInv, NextIsLater
  <1>5. PassesStand'
    BY <1>1, <1>2, <1>3 DEF SchedulesInv, PassesStand
  <1> QED BY <1>3, <1>4, <1>5 DEF SchedulesInv

LEMMA TimePasses ==
  ASSUME SchedulesInv, B!Tick
  PROVE  SchedulesInv'
  <1>1. time' = time + 1 /\ UNCHANGED <<schedule, runs, pass>> /\ time \in Nat
    BY DEF B!Tick, SchedulesInv, ScheduleTypes
  <1>2. ScheduleTypes'
    BY <1>1 DEF SchedulesInv, ScheduleTypes
  <1>3. NextIsLater'
    BY <1>1 DEF SchedulesInv, NextIsLater
  <1>4. PassesStand'
    <2> SUFFICES ASSUME NEW q \in Processes, pass[q].task \in Tasks
                 PROVE  /\ pass[q].at <= time + 1
                        /\ \A s \in pass[q].due : schedule[s].next[pass[q].task] <= pass[q].at
      BY <1>1 DEF PassesStand
    <2>1. /\ pass[q].at <= time /\ pass[q].at \in Nat
          /\ \A s \in pass[q].due : schedule[s].next[pass[q].task] <= pass[q].at
      BY DEF SchedulesInv, ScheduleTypes, PassesStand
    <2> QED BY <1>1, <2>1
  <1> QED BY <1>2, <1>3, <1>4 DEF SchedulesInv

\* The worker writes, and no other process has since it looked.
LEMMA WhatIsDue ==
  ASSUME SchedulesInv, NEW p \in Processes, NEW task \in Tasks, pass[p].task = task, NEW s \in pass[p].due
  PROVE  /\ s \in Schedules /\ pass[p].at \in 0..time
         /\ schedule[s].next[task] <= pass[p].at
         /\ pass[p].at >= schedule[s].saved[task] + schedule[s].every[task]
         /\ \A r \in runs : r.task = task /\ r.schedule = s => pass[p].at >= r.at + schedule[s].every[task]
  <1>1. pass[p] \in [task : Tasks \cup {"none", "stale"}, due : SUBSET Schedules, at : Nat] /\ time \in Nat
    BY DEF SchedulesInv, ScheduleTypes
  <1>2. s \in Schedules /\ pass[p].at \in 0..time /\ schedule[s].next[task] <= pass[p].at
    BY <1>1 DEF SchedulesInv, PassesStand
  <1>3. /\ schedule[s].next[task] \in Nat /\ schedule[s].saved[task] \in Nat /\ schedule[s].every[task] \in Nat
        /\ schedule[s].next[task] >= schedule[s].saved[task] + schedule[s].every[task]
    BY <1>2, RowColumns DEF SchedulesInv, NextIsLater
  <1>4. ASSUME NEW r \in runs, r.task = task, r.schedule = s
        PROVE  pass[p].at >= r.at + schedule[s].every[task]
    <2>1. schedule[s].next[task] >= r.at + schedule[s].every[task] /\ r.at \in 0..time
      BY <1>4 DEF SchedulesInv, NextIsLater, ScheduleTypes
    <2> QED BY <1>1, <1>2, <1>3, <2>1
  <1> QED BY <1>1, <1>2, <1>3, <1>4

\* A new run is that of a schedule that was due, at the time the worker looked.
LEMMA NewRuns ==
  ASSUME SchedulesInv, NEW p \in Processes, NEW task \in Tasks, B!EnqueueDue(p, task), NEW r \in runs' \ runs
  PROVE  \E s \in pass[p].due : r = B!Run(task, s, pass[p].at) /\ r.task = task /\ r.schedule = s /\ r.at = pass[p].at
  <1>1. \E s \in pass[p].due : r = B!Run(task, s, pass[p].at)
    BY DEF B!EnqueueDue
  <1> QED BY <1>1 DEF B!Run

LEMMA DueIsRun ==
  ASSUME SchedulesInv, NEW p \in Processes, NEW task \in Tasks, B!EnqueueDue(p, task)
  PROVE  SchedulesInv'
  <1> DEFINE at == pass[p].at  due == pass[p].due
  <1>1. /\ pass[p].task = task /\ B!Spoil(p) /\ time' = time
        /\ schedule' = [s \in Schedules |-> IF s \in due
                            THEN [schedule[s] EXCEPT !.next[task] = at + schedule[s].every[task]]
                            ELSE schedule[s]]
    BY DEF B!EnqueueDue, B!NextRun
  <1>2. time \in Nat /\ at \in Nat /\ due \in SUBSET Schedules
    BY DEF SchedulesInv, ScheduleTypes
  <1>3. /\ pass' \in [Processes -> [task : Tasks \cup {"none", "stale"}, due : SUBSET Schedules, at : Nat]]
        /\ \A q \in Processes : pass'[q].task \notin Tasks
    BY <1>1, SpoilingPasses DEF SchedulesInv
  <1>4. ASSUME NEW s \in due
        PROVE  /\ schedule'[s] \in ScheduleRow /\ schedule'[s].every = schedule[s].every
               /\ schedule'[s].saved = schedule[s].saved
               /\ schedule'[s].next = [schedule[s].next EXCEPT ![task] = at + schedule[s].every[task]]
    <2> DEFINE old == schedule[s]
    <2>1. s \in Schedules /\ old \in ScheduleRow /\ old.next \in [Tasks -> Nat] /\ old.every[task] \in Nat
      BY <1>2, RowColumns DEF SchedulesInv, ScheduleTypes
    <2>2. schedule'[s] = [old EXCEPT !.next[task] = at + old.every[task]]
      BY <1>1, <2>1
    <2> HIDE DEF old
    <2>3. schedule'[s] = [old EXCEPT !.next = [old.next EXCEPT ![task] = at + old.every[task]]]
      BY <2>1, <2>2 DEF ScheduleRow
    <2>4. [old.next EXCEPT ![task] = at + old.every[task]] \in [Tasks -> Nat]
      BY <1>2, <2>1
    <2>5. schedule'[s] \in ScheduleRow /\ schedule'[s].every = old.every /\ schedule'[s].saved = old.saved
      BY <2>1, <2>3, <2>4 DEF ScheduleRow
    <2>6. schedule'[s].next = [old.next EXCEPT ![task] = at + old.every[task]]
      BY <2>1, <2>3 DEF ScheduleRow
    <2> QED BY <2>5, <2>6 DEF old
  <1>5. \A s \in Schedules \ due : schedule'[s] = schedule[s]
    BY <1>1
  <1>6. ASSUME NEW s \in Schedules, NEW t \in Tasks
        PROVE  /\ schedule'[s].every[t] = schedule[s].every[t] /\ schedule'[s].saved[t] = schedule[s].saved[t]
               /\ schedule'[s].next[t] = IF s \in due /\ t = task THEN at + schedule[s].every[t]
                                                                  ELSE schedule[s].next[t]
    <2>1. schedule[s].next \in [Tasks -> Nat]
      BY RowColumns DEF SchedulesInv
    <2>2. CASE s \in due
      BY <1>4, <2>1, <2>2
    <2>3. CASE s \notin due
      BY <1>5, <2>3
    <2> QED BY <2>2, <2>3
  <1>7. ASSUME NEW r \in runs' \ runs
        PROVE  r.schedule \in due /\ r.task = task /\ r.at = at
    BY NewRuns
  <1>8. ScheduleTypes'
    <2>1. schedule' \in [Schedules -> ScheduleRow]
      <3>1. \A s \in Schedules : schedule'[s] \in ScheduleRow
        BY <1>4, <1>5 DEF SchedulesInv, ScheduleTypes
      <3>2. schedule' = [s \in Schedules |-> schedule'[s]]
        BY <1>1
      <3> QED BY <3>1, <3>2
    <2>2. \A r \in runs' : r.task \in Tasks /\ r.schedule \in Schedules /\ r.at \in 0..time
      <3> TAKE r \in runs'
      <3>1. CASE r \in runs
        BY <3>1 DEF SchedulesInv, ScheduleTypes
      <3>2. CASE r \notin runs
        BY <1>1, <1>7, <3>2, WhatIsDue
      <3> QED BY <3>1, <3>2
    <2> QED BY <1>1, <1>2, <1>3, <2>1, <2>2 DEF ScheduleTypes
  <1>9. NextIsLater'
    <2>1. ASSUME NEW s \in Schedules, NEW t \in Tasks
          PROVE  schedule'[s].next[t] >= schedule'[s].saved[t] + schedule'[s].every[t]
      <3>1. /\ schedule[s].next[t] \in Nat /\ schedule[s].saved[t] \in Nat /\ schedule[s].every[t] \in Nat
            /\ schedule[s].next[t] >= schedule[s].saved[t] + schedule[s].every[t]
        BY RowColumns DEF SchedulesInv, NextIsLater
      <3>2. CASE s \in due /\ t = task
        <4>1. at >= schedule[s].saved[t] + schedule[s].every[t]
          BY <1>1, <3>2, WhatIsDue
        <4>2. schedule'[s].next[t] = at + schedule[s].every[t]
          BY <1>6, <3>2
        <4> HIDE DEF at
        <4> QED BY <1>2, <1>6, <3>1, <4>1, <4>2
      <3>3. CASE ~ (s \in due /\ t = task)
        BY <1>6, <3>1, <3>3
      <3> QED BY <3>2, <3>3
    <2>2. ASSUME NEW r \in runs'
          PROVE  schedule'[r.schedule].next[r.task] >= r.at + schedule'[r.schedule].every[r.task]
      <3> DEFINE s == r.schedule  t == r.task
      <3>1. s \in Schedules /\ t \in Tasks /\ r.at \in Nat
        BY <1>1, <1>2, <1>8 DEF ScheduleTypes
      <3>2. schedule[s].every[t] \in Nat
        BY <3>1, RowColumns DEF SchedulesInv
      <3>3. CASE r \in runs /\ s \in due /\ t = task
        <4>1. at >= r.at + schedule[s].every[t]
          BY <1>1, <3>3, WhatIsDue
        <4>2. schedule'[s].next[t] = at + schedule[s].every[t] /\ schedule'[s].every[t] = schedule[s].every[t]
          BY <1>6, <3>1, <3>3
        <4> HIDE DEF at, s, t
        <4>3. schedule'[s].next[t] >= r.at + schedule'[s].every[t]
          BY <1>2, <3>1, <3>2, <4>1, <4>2
        <4> QED BY <4>3 DEF s, t
      <3>4. CASE r \in runs /\ ~ (s \in due /\ t = task)
        <4>1. schedule[s].next[t] >= r.at + schedule[s].every[t]
          BY <3>4 DEF SchedulesInv, NextIsLater
        <4> QED BY <1>6, <3>1, <3>4, <4>1
      <3>5. CASE r \notin runs
        <4>1. s \in due /\ t = task /\ r.at = at
          BY <1>7, <3>5
        <4>2. schedule'[s].next[t] = at + schedule[s].every[t] /\ schedule'[s].every[t] = schedule[s].every[t]
          BY <1>6, <3>1, <4>1
        <4> HIDE DEF at, s, t
        <4>3. schedule'[s].next[t] >= r.at + schedule'[s].every[t]
          BY <1>2, <3>1, <3>2, <4>1, <4>2
        <4> QED BY <4>3 DEF s, t
      <3> QED BY <3>3, <3>4, <3>5
    <2> QED BY <2>1, <2>2 DEF NextIsLater
  <1>10. PassesStand'
    BY <1>3 DEF PassesStand
  <1> QED BY <1>8, <1>9, <1>10 DEF SchedulesInv

LEMMA SchedulesKeep ==
  ASSUME SchedulesInv, [B!SchedulesNext]_B!scheduleVars
  PROVE  SchedulesInv'
  <1>1. CASE \E p \in Processes, s \in Schedules :
               \/ \E hours \in Intervals, test \in Intervals \union {0} : B!SetBackupSchedule(p, s, hours, test)
               \/ \E test \in Intervals \union {0} : B!SetRestoreTestSchedule(p, s, test)
               \/ B!SetReady(p, s) \/ B!AddRestorePoint(p, s)
    BY <1>1, ScheduleIsSet, TestIsSet, SitesComeAndGo
  <1>2. CASE \E p \in Processes : (\E task \in Tasks : B!BeginPass(p, task)) \/ B!Rollback(p)
    BY <1>2, PassBegins, PassIsLost
  <1>3. CASE B!EnqueueDueBackups \/ B!EnqueueDueRestoreTests
    <2>1. \E p \in Processes, task \in Tasks : B!EnqueueDue(p, task)
      BY <1>3 DEF B!EnqueueDueBackups, B!EnqueueDueRestoreTests, Tasks
    <2> QED BY <2>1, DueIsRun
  <1>4. CASE B!Tick
    BY <1>4, TimePasses
  <1>5. CASE UNCHANGED B!scheduleVars
    BY <1>5 DEF B!scheduleVars, SchedulesInv, ScheduleTypes, NextIsLater, PassesStand
  <1>6. B!Tasks = Tasks
    BY DEF B!Tasks, Tasks
  <1> QED BY <1>1, <1>2, <1>3, <1>4, <1>5, <1>6 DEF B!SchedulesNext

LEMMA SchedulesStart ==
  ASSUME B!SchedulesInit
  PROVE  SchedulesInv
  <1> DEFINE none == B!NoSchedule
  <1>1. /\ none \in ScheduleRow
        /\ \A t \in Tasks : none.every[t] = 0 /\ none.next[t] = 0 /\ none.saved[t] = 0
    BY DEF B!NoSchedule, B!Tasks, Tasks, ScheduleRow
  <1>2. /\ B!NoPass \in [task : Tasks \cup {"none", "stale"}, due : SUBSET Schedules, at : Nat]
        /\ B!NoPass.task \notin Tasks
    BY DEF B!NoPass, Tasks
  <1> HIDE DEF none
  <1>3. schedule = [s \in Schedules |-> none] /\ runs = {} /\ pass = [p \in Processes |-> B!NoPass] /\ time = 0
    BY DEF B!SchedulesInit, none
  <1>4. ScheduleTypes
    BY <1>1, <1>2, <1>3 DEF ScheduleTypes
  <1>5. NextIsLater
    BY <1>1, <1>3 DEF NextIsLater
  <1>6. PassesStand
    BY <1>2, <1>3 DEF PassesStand
  <1> QED BY <1>4, <1>5, <1>6 DEF SchedulesInv

\* Only the worker's write adds runs, one for a schedule and a task: its time is the
\* one the transaction saw, which lies an interval after all it is compared with.
LEMMA RunsAreApart ==
  ASSUME SchedulesInv, [B!SchedulesNext]_B!scheduleVars, NEW r \in runs' \ runs
  PROVE  /\ \A q \in runs' \ runs : q.task = r.task /\ q.schedule = r.schedule => q = r
         /\ \A q \in runs : q.task = r.task /\ q.schedule = r.schedule =>
               r.at >= q.at + schedule[r.schedule].every[r.task]
         /\ r.at >= schedule[r.schedule].saved[r.task] + schedule[r.schedule].every[r.task]
  <1>1. B!EnqueueDueBackups \/ B!EnqueueDueRestoreTests
    BY DEF B!SchedulesNext, B!scheduleVars, B!SetBackupSchedule, B!SetRestoreTestSchedule, B!SetReady,
           B!AddRestorePoint, B!BeginPass, B!Rollback, B!Tick
  <1>2. PICK p \in Processes, task \in Tasks : B!EnqueueDue(p, task)
    BY <1>1 DEF B!EnqueueDueBackups, B!EnqueueDueRestoreTests, Tasks
  <1>3. PICK s \in pass[p].due : /\ r = B!Run(task, s, pass[p].at)
                                 /\ r.task = task /\ r.schedule = s /\ r.at = pass[p].at
    BY <1>2, NewRuns
  <1>4. ASSUME NEW q \in runs' \ runs, q.task = r.task, q.schedule = r.schedule
        PROVE  q = r
    BY <1>2, <1>3, <1>4, NewRuns
  <1>5. pass[p].task = task
    BY <1>2 DEF B!EnqueueDue
  <1>6. /\ pass[p].at >= schedule[s].saved[task] + schedule[s].every[task]
        /\ \A q \in runs : q.task = task /\ q.schedule = s => pass[p].at >= q.at + schedule[s].every[task]
    BY <1>5, WhatIsDue
  <1> QED BY <1>3, <1>4, <1>6

\* However long the panel was down and however many processes look at once, a whole
\* interval lies between a run of a schedule and the run or the change before it.
THEOREM RunsArePeriodic == Spec => OneRunPerPeriod
  <1>1. B!SchedulesInit => SchedulesInv
    BY SchedulesStart
  <1>2. SchedulesInv /\ [B!SchedulesNext]_B!scheduleVars => SchedulesInv'
    BY SchedulesKeep
  <1> DEFINE Apart ==
        \A r \in runs' \ runs :
          LET s     == schedule[r.schedule]
              own   == {q \in runs : q.task = r.task /\ q.schedule = r.schedule}
              since == {q.at : q \in own} \union {s.saved[r.task]}
          IN  /\ \A q \in runs' \ runs : q.task = r.task /\ q.schedule = r.schedule => q = r
              /\ \A t \in since : r.at >= t + s.every[r.task]
  <1>3. SchedulesInv /\ [B!SchedulesNext]_B!scheduleVars => Apart
    BY RunsAreApart
  <1>4. [][Apart]_B!scheduleVars => OneRunPerPeriod
    BY DEF OneRunPerPeriod, B!OneRunPerPeriod
  <1> HIDE DEF Apart
  <1> QED BY <1>1, <1>2, <1>3, <1>4, SchedulesAreRefined, PTL DEF B!SchedulesSpec
-----------------------------------------------------------------------------
(***************************************************************************)
(* Records.  The worker has read the row of the first job, and a row that  *)
(* no later job will bring into force has not changed since, unless its    *)
(* record was removed; a database and the mail service read as settled     *)
(* only while no job of theirs waits.                                      *)
(***************************************************************************)

\* A step of the work on sites is a step of its records, or leaves them alone.
LEMMA RecordsStep ==
  ASSUME [Next]_vars
  PROVE  [R!RecordsNext]_R!recordVars
  <1>1. CASE Record
    BY <1>1 DEF Record
  <1>2. CASE Content \/ Files \/ Settings \/ Schedule \/ UNCHANGED vars
    BY <1>2 DEF Content, Files, Settings, Schedule, vars, server, R!recordVars
  <1> QED BY <1>1, <1>2 DEF Next

\* The specification of the work implements that of its records.
THEOREM RecordsAreRefined == Spec => R!RecordsSpec
  <1>1. Init => R!RecordsInit
    BY DEF Init
  <1>2. [Next]_vars => [R!RecordsNext]_R!recordVars
    BY RecordsStep
  <1> QED BY <1>1, <1>2, PTL DEF Spec, R!RecordsSpec

ServerKinds == {"database", "dns", "mail"}

Statuses == {"none", "queued", "active", "failed", "deleting", "delete_failed"}

RecordRow == [status : Statuses, value : Nat, remote : Nat]

ServerJob == [kind : ServerKinds, action : {"apply", "delete"}]

RecordTypes ==
    /\ record \in [ServerKinds -> RecordRow]
    /\ todo \in Seq(ServerJob) /\ zone \in Seq(Nat)
    /\ doing = R!Idle \/ doing \in [job : ServerJob, row : RecordRow]

Waits(k)  == \E i \in 1..Len(todo) : todo[i].kind = k
Later(k)  == \E i \in 2..Len(todo) : todo[i].kind = k

FirstIsDone == doing # R!Idle => todo # <<>> /\ doing.job = Head(todo)

RowsSettle ==
    /\ Waits("database") => record["database"].status \in {"queued", "deleting"}
    /\ \A i, j \in 1..Len(todo) : todo[i].kind = "database" /\ todo[j].kind = "database" => i = j
    /\ Waits("mail") => record["mail"].status = "queued"

RowIsRead ==
    doing # R!Idle /\ ~ Later(doing.job.kind) => record[doing.job.kind] \in {R!Absent, doing.row}

RecordsInv == RecordTypes /\ FirstIsDone /\ RowsSettle /\ RowIsRead /\ RecordsAreInForce
LEMMA KindsAreServed == \A k \in RecordKinds : k \in ServerKinds
  <1>1. RecordKinds \subseteq {"database", "dns", "mail"}
    BY RecordsAssumption DEF R!RecordsAssumption
  <1> QED BY <1>1 DEF ServerKinds

LEMMA NoRow ==
  /\ R!Absent \in RecordRow /\ R!Absent.status = "none"
  /\ R!Idle.job.kind = "none" /\ \A j \in ServerJob, w \in RecordRow : [job |-> j, row |-> w] # R!Idle
  <1>1. R!Absent \in RecordRow /\ R!Absent.status = "none" /\ R!Idle.job.kind = "none"
    BY DEF R!Absent, R!Idle, RecordRow, Statuses
  <1>2. ASSUME NEW j \in ServerJob, NEW w \in RecordRow, [job |-> j, row |-> w] = R!Idle
        PROVE  FALSE
    <2>1. [job |-> j, row |-> w].job.kind = "none"
      BY <1>1, <1>2
    <2> QED BY <2>1 DEF ServerJob, ServerKinds
  <1> QED BY <1>1, <1>2

\* What waits once a job is added, ...
LEMMA JobIsAdded ==
  ASSUME todo \in Seq(ServerJob), NEW j \in ServerJob, todo' = Append(todo, j)
  PROVE  /\ todo' \in Seq(ServerJob) /\ todo' # <<>> /\ Len(todo') = Len(todo) + 1
         /\ \A i \in 1..Len(todo) : todo'[i] = todo[i]
         /\ todo'[Len(todo) + 1] = j
         /\ todo # <<>> => Head(todo') = Head(todo)
         /\ \A k : /\ Waits(k)' <=> Waits(k) \/ j.kind = k
                   /\ Later(k)' <=> Later(k) \/ (todo # <<>> /\ j.kind = k)
  <1>1. /\ todo' \in Seq(ServerJob) /\ todo' # <<>> /\ Len(todo') = Len(todo) + 1 /\ Len(todo) \in Nat
        /\ \A i \in 1..Len(todo) : todo'[i] = todo[i]
        /\ todo'[Len(todo) + 1] = j
    OBVIOUS
  <1>2. todo # <<>> => Len(todo) >= 1 /\ Head(todo') = Head(todo)
    <2>1. todo # <<>> => Len(todo) >= 1 /\ Head(todo) = todo[1]
      OBVIOUS
    <2>2. Head(todo') = todo'[1]
      BY <1>1
    <2> QED BY <1>1, <2>1, <2>2
  <1>3. todo = <<>> => Len(todo) = 0
    OBVIOUS
  <1>4. ASSUME NEW k
        PROVE  /\ Waits(k)' <=> Waits(k) \/ j.kind = k
               /\ Later(k)' <=> Later(k) \/ (todo # <<>> /\ j.kind = k)
    BY <1>1, <1>2, <1>3 DEF Waits, Later
  <1> QED BY <1>1, <1>2, <1>4

\* ... and once the first is done.
LEMMA JobIsDone ==
  ASSUME todo \in Seq(ServerJob), todo # <<>>, todo' = Tail(todo)
  PROVE  /\ todo' \in Seq(ServerJob) /\ Len(todo') = Len(todo) - 1 /\ Len(todo) \in Nat /\ Len(todo) >= 1
         /\ \A i \in 1..Len(todo') : todo'[i] = todo[i + 1]
         /\ Head(todo) = todo[1] /\ Head(todo) \in ServerJob
         /\ \A k : /\ Waits(k)' <=> Later(k)
                   /\ Waits(k) <=> Head(todo).kind = k \/ Later(k)
  <1>1. /\ todo' \in Seq(ServerJob) /\ Len(todo') = Len(todo) - 1 /\ Len(todo) \in Nat /\ Len(todo) >= 1
        /\ \A i \in 1..Len(todo') : todo'[i] = todo[i + 1]
        /\ Head(todo) = todo[1] /\ Head(todo) \in ServerJob
    OBVIOUS
  <1>2. ASSUME NEW k
        PROVE  /\ Waits(k)' <=> Later(k)
               /\ Waits(k) <=> Head(todo).kind = k \/ Later(k)
    <2>1. Waits(k)' => Later(k)
      BY <1>1 DEF Waits, Later
    <2>2. ASSUME NEW i \in 2..Len(todo), todo[i].kind = k
          PROVE  Waits(k)'
      <3>1. i - 1 \in 1..Len(todo') /\ todo'[i - 1] = todo[i]
        BY <1>1
      <3> QED BY <2>2, <3>1 DEF Waits
    <2>3. Waits(k) <=> Head(todo).kind = k \/ Later(k)
      BY <1>1 DEF Waits, Later
    <2> QED BY <2>1, <2>2, <2>3 DEF Later
  <1> QED BY <1>1, <1>2

\* The job under way is the first, so its kind waits.
LEMMA WorkWaits ==
  ASSUME RecordTypes, FirstIsDone, doing # R!Idle
  PROVE  /\ todo # <<>> /\ doing.job = Head(todo) /\ doing.job \in ServerJob /\ doing.row \in RecordRow
         /\ doing.job.kind \in ServerKinds /\ Waits(doing.job.kind)
  <1>1. todo # <<>> /\ doing.job = Head(todo) /\ doing.job \in ServerJob /\ doing.row \in RecordRow
    BY DEF FirstIsDone, RecordTypes
  <1>2. Len(todo) \in Nat /\ Len(todo) >= 1 /\ Head(todo) = todo[1]
    BY <1>1 DEF RecordTypes
  <1> QED BY <1>1, <1>2 DEF Waits, ServerJob

LEMMA QuietIsNotWaiting == ASSUME todo \in Seq(ServerJob), NEW k PROVE R!Quiet(k) <=> ~ Waits(k)
  <1>1. DOMAIN todo = 1..Len(todo)
    OBVIOUS
  <1> QED BY <1>1 DEF R!Quiet, Waits

\* A request that queues a job: the row it writes is not settled.
LEMMA RequestKeeps ==
  ASSUME RecordsInv, NEW k \in ServerKinds, NEW action \in {"apply", "delete"}, NEW wanted \in RecordRow,
         R!Enqueue(k, action, wanted),
         k = "database" => /\ wanted.status \in {"queued", "deleting"}
                           /\ record["database"].status \notin {"queued", "deleting"},
         k = "mail" => wanted.status = "queued"
  PROVE  RecordsInv'
  <1> DEFINE j == [kind |-> k, action |-> action]
  <1>1. /\ record' = [record EXCEPT ![k] = wanted] /\ todo' = Append(todo, j)
        /\ UNCHANGED <<doing, base, zone, relay>>
    BY DEF R!Enqueue
  <1>2. j \in ServerJob /\ j.kind = k
    BY DEF ServerJob
  <1>3. todo \in Seq(ServerJob)
    BY DEF RecordsInv, RecordTypes
  <1> HIDE DEF j
  <1>4. /\ todo' \in Seq(ServerJob) /\ todo' # <<>> /\ Len(todo') = Len(todo) + 1
        /\ \A i \in 1..Len(todo) : todo'[i] = todo[i]
        /\ todo'[Len(todo) + 1] = j
        /\ todo # <<>> => Head(todo') = Head(todo)
        /\ \A q : /\ Waits(q)' <=> Waits(q) \/ k = q
                  /\ Later(q)' <=> Later(q) \/ (todo # <<>> /\ k = q)
    BY <1>1, <1>2, <1>3, JobIsAdded
  <1>5. record'[k] = wanted /\ \A q \in ServerKinds \ {k} : record'[q] = record[q]
    BY <1>1 DEF RecordsInv, RecordTypes
  <1>6. RecordTypes'
    BY <1>1, <1>4 DEF RecordsInv, RecordTypes
  <1>7. FirstIsDone'
    BY <1>1, <1>4 DEF RecordsInv, FirstIsDone
  <1>8. RowsSettle'
    <2>1. Waits("database")' => record'["database"].status \in {"queued", "deleting"}
      BY <1>4, <1>5 DEF RecordsInv, RowsSettle, ServerKinds
    <2>2. Waits("mail")' => record'["mail"].status = "queued"
      BY <1>4, <1>5 DEF RecordsInv, RowsSettle, ServerKinds
    <2>3. \A i, l \in 1..Len(todo') : todo'[i].kind = "database" /\ todo'[l].kind = "database" => i = l
      <3>1. Len(todo) \in Nat
        BY <1>3
      <3>2. CASE k = "database"
        <4>1. ~ Waits("database")
          BY <3>2 DEF RecordsInv, RowsSettle
        <4> QED BY <1>4, <3>1, <4>1 DEF Waits
      <3>3. CASE k # "database"
        BY <1>2, <1>4, <3>1, <3>3 DEF RecordsInv, RowsSettle
      <3> QED BY <3>2, <3>3
    <2> QED BY <2>1, <2>2, <2>3 DEF RowsSettle
  <1>9. RowIsRead'
    <2> SUFFICES ASSUME doing # R!Idle, ~ Later(doing.job.kind)'
                 PROVE  record'[doing.job.kind] \in {R!Absent, doing.row}
      BY <1>1 DEF RowIsRead
    <2>1. todo # <<>> /\ doing.job.kind \in ServerKinds
      BY WorkWaits DEF RecordsInv
    <2>2. doing.job.kind # k /\ ~ Later(doing.job.kind)
      BY <1>1, <1>4, <2>1
    <2> QED BY <1>5, <2>1, <2>2 DEF RecordsInv, RowIsRead
  <1>10. RecordsAreInForce'
    <2>1. /\ record["database"].status = "active" => base
          /\ record["database"].status = "none" => ~ base
          /\ record["mail"].status = "active" => relay = record["mail"].value
          /\ record["dns"].status = "active" /\ R!Quiet("dns") =>
                record["dns"].remote # 0 /\ zone[record["dns"].remote] = record["dns"].value
      BY DEF RecordsInv, RecordsAreInForce, R!RecordsAreInForce
    <2>2. R!Quiet("dns")' => k # "dns" /\ R!Quiet("dns")
      <3>1. R!Quiet("dns")' <=> ~ Waits("dns")'
        <4>1. DOMAIN todo' = 1..Len(todo')
          BY <1>4
        <4> QED BY <4>1 DEF R!Quiet, Waits
      <3> QED BY <1>3, <1>4, <3>1, QuietIsNotWaiting
    <2> QED BY <1>1, <1>5, <2>1, <2>2 DEF RecordsAreInForce, R!RecordsAreInForce, ServerKinds
  <1> QED BY <1>6, <1>7, <1>8, <1>9, <1>10 DEF RecordsInv
\* Requests.
LEMMA EditKeeps ==
  ASSUME RecordsInv, R!Edit
  PROVE  RecordsInv'
  <1>1. /\ record \in [ServerKinds -> RecordRow]
        /\ record["database"] \in RecordRow /\ record["dns"] \in RecordRow /\ record["mail"] \in RecordRow
    BY DEF RecordsInv, RecordTypes, ServerKinds
  <1>2. ASSUME NEW v \in 1..2
        PROVE  [status |-> "queued", value |-> v, remote |-> 0] \in RecordRow
    BY DEF RecordRow, Statuses
  <1>3. CASE R!CreateDatabase
    <2> DEFINE wanted == [status |-> "queued", value |-> 1, remote |-> 0]
    <2>1. R!Enqueue("database", "apply", wanted) /\ record["database"].status = "none"
      BY <1>3 DEF R!CreateDatabase
    <2>2. wanted \in RecordRow /\ wanted.status = "queued"
      BY <1>2
    <2> HIDE DEF wanted
    <2> QED BY <2>1, <2>2, RequestKeeps DEF ServerKinds
  <1>4. CASE R!EnqueueDatabaseDelete
    <2> DEFINE wanted == [record["database"] EXCEPT !.status = "deleting"]
    <2>1. R!Enqueue("database", "delete", wanted) /\ record["database"].status \in {"active", "failed", "delete_failed"}
      BY <1>4 DEF R!EnqueueDatabaseDelete
    <2>2. wanted \in RecordRow /\ wanted.status = "deleting"
      BY <1>1 DEF RecordRow, Statuses
    <2> HIDE DEF wanted
    <2> QED BY <2>1, <2>2, RequestKeeps DEF ServerKinds
  <1>5. ASSUME NEW v \in 1..2, R!ConfigureMailService(v)
        PROVE  RecordsInv'
    <2> DEFINE wanted == [status |-> "queued", value |-> v, remote |-> 0]
    <2>1. R!Enqueue("mail", "apply", wanted)
      BY <1>5 DEF R!ConfigureMailService
    <2>2. wanted \in RecordRow /\ wanted.status = "queued"
      BY <1>2
    <2> HIDE DEF wanted
    <2> QED BY <2>1, <2>2, RequestKeeps DEF ServerKinds
  <1>6. ASSUME NEW v \in 1..2, R!CreateDNSRecord(v)
        PROVE  RecordsInv'
    <2> DEFINE wanted == [status |-> "queued", value |-> v, remote |-> 0]
    <2>1. R!Enqueue("dns", "apply", wanted)
      BY <1>6 DEF R!CreateDNSRecord
    <2>2. wanted \in RecordRow
      BY <1>2
    <2> HIDE DEF wanted
    <2> QED BY <2>1, <2>2, RequestKeeps DEF ServerKinds
  <1>7. ASSUME NEW u \in RecordUsers, R!ReadDNSRecord(u)
        PROVE  RecordsInv'
    BY <1>7 DEF R!ReadDNSRecord, RecordsInv, RecordTypes, FirstIsDone, RowsSettle, RowIsRead, Waits, Later,
                RecordsAreInForce, R!RecordsAreInForce, R!Quiet
  <1>8. ASSUME NEW u \in RecordUsers, NEW v \in 1..2, R!UpdateDNSRecord(u, v)
        PROVE  RecordsInv'
    <2> DEFINE wanted == IF record["dns"] = R!Absent THEN R!Absent
                         ELSE [record["dns"] EXCEPT !.value = v, !.status = "queued"]
    <2>1. R!Enqueue("dns", "apply", wanted)
      BY <1>8 DEF R!UpdateDNSRecord
    <2>2. wanted \in RecordRow
      <3>1. record["dns"] \in RecordRow /\ v \in Nat
        BY <1>1
      <3>2. [record["dns"] EXCEPT !.value = v, !.status = "queued"] \in RecordRow
        BY <3>1 DEF RecordRow, Statuses
      <3> QED BY <3>2, NoRow
    <2> HIDE DEF wanted
    <2> QED BY <2>1, <2>2, RequestKeeps DEF ServerKinds
  <1>9. ASSUME NEW u \in RecordUsers, R!DeleteDNSRecord(u), read[u].remote # 0
        PROVE  RecordsInv'
    <2> DEFINE wanted == IF record["dns"] = R!Absent THEN R!Absent
                         ELSE [record["dns"] EXCEPT !.status = "deleting"]
    <2>1. R!Enqueue("dns", "delete", wanted)
      BY <1>9 DEF R!DeleteDNSRecord
    <2>2. wanted \in RecordRow
      BY <1>1, NoRow DEF RecordRow, Statuses
    <2> HIDE DEF wanted
    <2> QED BY <2>1, <2>2, RequestKeeps DEF ServerKinds
  <1>10. ASSUME NEW u \in RecordUsers, R!DeleteDNSRecord(u), read[u].remote = 0
         PROVE  RecordsInv'
    <2>1. /\ record' = [record EXCEPT !["dns"] = R!Absent]
          /\ UNCHANGED <<todo, doing, base, zone, relay>>
      BY <1>10 DEF R!DeleteDNSRecord
    <2>2. /\ record'["dns"] = R!Absent /\ record'["database"] = record["database"]
          /\ record'["mail"] = record["mail"] /\ record' \in [ServerKinds -> RecordRow]
      BY <1>1, <2>1, NoRow DEF ServerKinds
    <2>3. RecordTypes' /\ FirstIsDone' /\ RowsSettle'
      BY <2>1, <2>2 DEF RecordsInv, RecordTypes, FirstIsDone, RowsSettle, Waits
    <2>4. RowIsRead'
      <3> SUFFICES ASSUME doing # R!Idle, ~ Later(doing.job.kind)
                   PROVE  record'[doing.job.kind] \in {R!Absent, doing.row}
        BY <2>1 DEF RowIsRead, Later
      <3>1. doing.job.kind \in ServerKinds /\ record[doing.job.kind] \in {R!Absent, doing.row}
        BY WorkWaits DEF RecordsInv, RowIsRead
      <3> QED BY <2>2, <3>1 DEF ServerKinds
    <2>5. RecordsAreInForce'
      BY <2>1, <2>2, NoRow DEF RecordsInv, RecordsAreInForce, R!RecordsAreInForce, R!Quiet
    <2> QED BY <2>3, <2>4, <2>5 DEF RecordsInv
  <1> QED BY <1>3, <1>4, <1>5, <1>6, <1>7, <1>8, <1>9, <1>10 DEF R!Edit

\* The worker reads the row.
LEMMA StartKeeps ==
  ASSUME RecordsInv, R!Start
  PROVE  RecordsInv'
  <1> DEFINE j == Head(todo)
  <1>1. /\ todo # <<>> /\ doing' = [job |-> j, row |-> record[j.kind]]
        /\ UNCHANGED <<record, todo, base, zone, relay>>
    BY DEF R!Start
  <1>2. j \in ServerJob /\ j.kind \in ServerKinds /\ record[j.kind] \in RecordRow
    <2>1. j \in ServerJob
      BY <1>1 DEF RecordsInv, RecordTypes
    <2> HIDE DEF j
    <2>2. j.kind \in ServerKinds
      BY <2>1 DEF ServerJob
    <2> QED BY <2>1, <2>2 DEF RecordsInv, RecordTypes
  <1>3. FirstIsDone'
    BY <1>1 DEF FirstIsDone
  <1> HIDE DEF j
  <1>4. RecordTypes'
    BY <1>1, <1>2 DEF RecordsInv, RecordTypes
  <1>5. RowsSettle'
    BY <1>1 DEF RecordsInv, RowsSettle, Waits
  <1>6. RowIsRead'
    BY <1>1, <1>2 DEF RowIsRead
  <1>7. RecordsAreInForce'
    BY <1>1 DEF RecordsInv, RecordsAreInForce, R!RecordsAreInForce, R!Quiet
  <1> QED BY <1>3, <1>4, <1>5, <1>6, <1>7 DEF RecordsInv

\* What a call may touch: its own kind, and of the zone the record it is about.
LEMMA WorkIsOwn ==
  ASSUME RecordsInv, doing # R!Idle, R!Work \/ R!NoWork
  PROVE  /\ zone' \in Seq(Nat)
         /\ doing.job.kind # "database" => base' = base
         /\ doing.job.kind # "mail" => relay' = relay
         /\ doing.job.kind # "dns" => zone' = zone
  <1>1. doing.row \in RecordRow /\ zone \in Seq(Nat)
    BY WorkWaits DEF RecordsInv, RecordTypes
  <1>2. CASE R!NoWork
    BY <1>1, <1>2 DEF R!NoWork
  <1>3. CASE R!Work /\ doing.job.kind = "dns"
    <2>1. doing.row.value \in Nat
      BY <1>1 DEF RecordRow
    <2>2. R!applyCloudflare(doing.row) \/ R!DeleteRemote(doing.row)
      BY <1>3 DEF R!Work
    <2>3. /\ base' = base /\ relay' = relay
          /\ \/ zone' = Append(zone, doing.row.value)
             \/ /\ doing.row.remote \in DOMAIN zone
                /\ \/ zone' = [zone EXCEPT ![doing.row.remote] = doing.row.value]
                   \/ zone' = [zone EXCEPT ![doing.row.remote] = 0]
      BY <2>2 DEF R!applyCloudflare, R!DeleteRemote
    <2>4. CASE zone' = Append(zone, doing.row.value)
      <3>1. zone' \in Seq(Nat)
        BY <1>1, <2>1, <2>4
      <3> QED BY <1>3, <2>3, <3>1
    <2>5. ASSUME NEW w \in Nat, doing.row.remote \in DOMAIN zone,
                 zone' = [zone EXCEPT ![doing.row.remote] = w]
          PROVE  zone' \in Seq(Nat)
      BY <1>1, <2>5
    <2> QED BY <1>3, <2>1, <2>3, <2>4, <2>5
  <1>4. CASE R!Work /\ doing.job.kind # "dns"
    <2>1. zone' = zone
      BY <1>4 DEF R!Work, R!MariaDBCreate, R!MariaDBDelete, R!ApplyMailService
    <2> QED BY <1>1, <1>4, <2>1 DEF R!Work, R!MariaDBCreate, R!MariaDBDelete, R!ApplyMailService
  <1> QED BY <1>2, <1>3, <1>4

\* What an outcome writes.
LEMMA OutcomeWrites ==
  ASSUME RecordsInv, doing # R!Idle, NEW ok \in BOOLEAN, NEW remote \in Nat, R!Outcome(ok, remote)
  PROVE  LET k == doing.job.kind  IN
         /\ todo' = Tail(todo) /\ doing' = R!Idle
         /\ record' \in [ServerKinds -> RecordRow]
         /\ \A q \in ServerKinds \ {k} : record'[q] = record[q]
         /\ \/ record'[k] = record[k] /\ (record[k] = R!Absent \/ (k = "mail" /\ Later("mail")))
            \/ /\ record[k] # R!Absent /\ ~ (k = "mail" /\ Later("mail"))
               /\ \/ ok /\ doing.job.action = "delete" /\ record'[k] = R!Absent
                  \/ /\ ok /\ doing.job.action = "apply" /\ record'[k].status = "active"
                     /\ record'[k].value = record[k].value /\ (k = "dns" => record'[k].remote = remote)
                  \/ ~ ok /\ record'[k].status \in {"failed", "delete_failed"}
  <1> DEFINE k == doing.job.kind
             old == record[k]
             new == IF ok /\ doing.job.action = "delete" THEN R!Absent
                    ELSE [old EXCEPT !.remote = IF ok /\ k = "dns" THEN remote ELSE old.remote,
                                     !.status = IF ok THEN "active"
                                                ELSE IF doing.job.action = "delete" THEN "delete_failed"
                                                ELSE "failed"]
             kept == old = R!Absent \/ (k = "mail" /\ Later("mail"))
  <1>1. /\ todo' = Tail(todo) /\ doing' = R!Idle
        /\ record' = IF kept THEN record ELSE [record EXCEPT ![k] = new]
    <2>1. R!Superseded <=> k = "mail" /\ Later("mail")
      BY DEF R!Superseded, Later
    <2>2. /\ todo' = Tail(todo) /\ doing' = R!Idle
          /\ record' = IF old = R!Absent \/ R!Superseded THEN record ELSE [record EXCEPT ![k] = new]
      BY Zenon DEF R!Outcome
    <2> HIDE DEF new
    <2> QED BY <2>1, <2>2
  <1>2. /\ k \in ServerKinds /\ old \in RecordRow /\ record \in [ServerKinds -> RecordRow]
        /\ doing.job.action \in {"apply", "delete"}
    BY WorkWaits DEF RecordsInv, RecordTypes, ServerJob
  <1> HIDE DEF k, old, kept
  <1>3. /\ new \in RecordRow
        /\ \/ ok /\ doing.job.action = "delete" /\ new = R!Absent
           \/ /\ ok /\ doing.job.action = "apply" /\ new.status = "active"
              /\ new.value = old.value /\ (k = "dns" => new.remote = remote)
           \/ ~ ok /\ new.status \in {"failed", "delete_failed"}
    BY <1>2, NoRow DEF RecordRow, Statuses
  <1> HIDE DEF new
  <1>4. CASE kept
    BY <1>1, <1>2, <1>4 DEF k, old, kept
  <1>5. CASE ~ kept
    <2>1. /\ record' \in [ServerKinds -> RecordRow] /\ record'[k] = new
          /\ \A q \in ServerKinds \ {k} : record'[q] = record[q]
      BY <1>1, <1>2, <1>3, <1>5
    <2> QED BY <1>1, <1>3, <1>5, <2>1 DEF k, old, kept
  <1> QED BY <1>4, <1>5
\* An outcome leaves the rows of what still waits as they are wanted.
LEMMA OutcomeKeeps ==
  ASSUME RecordsInv, doing # R!Idle, NEW ok \in BOOLEAN, NEW remote \in Nat, R!Outcome(ok, remote),
         zone' \in Seq(Nat)
  PROVE  /\ RecordTypes' /\ FirstIsDone' /\ RowsSettle' /\ RowIsRead'
         /\ \A k : Waits(k)' <=> Later(k)
  <1> DEFINE k == doing.job.kind
  <1>1. /\ todo' = Tail(todo) /\ doing' = R!Idle
        /\ record' \in [ServerKinds -> RecordRow]
        /\ \A q \in ServerKinds \ {k} : record'[q] = record[q]
        /\ k = "mail" /\ Later("mail") => record'[k] = record[k]
    BY OutcomeWrites
  <1>2. todo # <<>> /\ todo \in Seq(ServerJob) /\ k \in ServerKinds /\ Head(todo).kind = k
    BY WorkWaits DEF RecordsInv, RecordTypes
  <1>3. /\ todo' \in Seq(ServerJob) /\ Len(todo') = Len(todo) - 1 /\ Len(todo) \in Nat /\ Len(todo) >= 1
        /\ \A i \in 1..Len(todo') : todo'[i] = todo[i + 1]
        /\ Head(todo) = todo[1]
        /\ \A q : /\ Waits(q)' <=> Later(q)
                  /\ Waits(q) <=> Head(todo).kind = q \/ Later(q)
    BY <1>1, <1>2, JobIsDone
  <1> HIDE DEF k
  <1>4. RecordTypes'
    BY <1>1, <1>3 DEF RecordTypes
  <1>5. FirstIsDone' /\ RowIsRead'
    BY <1>1 DEF FirstIsDone, RowIsRead
  <1>6. RowsSettle'
    <2>1. ASSUME Waits("database")'
          PROVE  record'["database"].status \in {"queued", "deleting"}
      <3>1. PICK i \in 2..Len(todo) : todo[i].kind = "database"
        BY <1>3, <2>1 DEF Later
      <3>2. k # "database"
        BY <1>2, <1>3, <3>1 DEF RecordsInv, RowsSettle
      <3>3. Waits("database")
        BY <1>3, <2>1
      <3> QED BY <1>1, <3>2, <3>3 DEF RecordsInv, RowsSettle, ServerKinds
    <2>2. ASSUME Waits("mail")'
          PROVE  record'["mail"].status = "queued"
      <3>1. Later("mail") /\ Waits("mail")
        BY <1>3, <2>2
      <3>2. record'["mail"] = record["mail"]
        BY <1>1, <3>1 DEF ServerKinds
      <3> QED BY <3>1, <3>2 DEF RecordsInv, RowsSettle
    <2>3. ASSUME NEW i \in 1..Len(todo'), NEW l \in 1..Len(todo'),
                 todo'[i].kind = "database", todo'[l].kind = "database"
          PROVE  i = l
      <3>1. /\ i + 1 \in 1..Len(todo) /\ l + 1 \in 1..Len(todo)
            /\ todo[i + 1].kind = "database" /\ todo[l + 1].kind = "database"
        BY <1>3, <2>3
      <3>2. i + 1 = l + 1
        BY <3>1 DEF RecordsInv, RowsSettle
      <3> QED BY <3>2
    <2> QED BY <2>1, <2>2, <2>3 DEF RowsSettle
  <1> QED BY <1>3, <1>4, <1>5, <1>6

\* While the DNS record is not the one worked on, it waits or not as before.
LEMMA RecordsInForceParts ==
  ASSUME RecordsInv
  PROVE  /\ record["database"].status = "active" => base
         /\ record["database"].status = "none" => ~ base
         /\ record["mail"].status = "active" => relay = record["mail"].value
         /\ record["dns"].status = "active" /\ ~ Waits("dns") =>
               record["dns"].remote # 0 /\ zone[record["dns"].remote] = record["dns"].value
  BY QuietIsNotWaiting DEF RecordsInv, RecordTypes, RecordsAreInForce, R!RecordsAreInForce

\* What the other kinds have in force an outcome does not disturb.
LEMMA OthersInForce ==
  ASSUME RecordsInv, doing # R!Idle, R!Work \/ R!NoWork,
         NEW ok \in BOOLEAN, NEW remote \in Nat, R!Outcome(ok, remote)
  PROVE  LET k == doing.job.kind  IN
         /\ k # "database" => /\ record'["database"].status = "active" => base'
                              /\ record'["database"].status = "none" => ~ base'
         /\ k # "mail" => (record'["mail"].status = "active" => relay' = record'["mail"].value)
         /\ k # "dns" => (record'["dns"].status = "active" /\ ~ Waits("dns")' =>
               record'["dns"].remote # 0 /\ zone'[record'["dns"].remote] = record'["dns"].value)
  <1> DEFINE k == doing.job.kind
  <1>1. \A q \in ServerKinds \ {k} : record'[q] = record[q]
    BY OutcomeWrites
  <1>2. zone' \in Seq(Nat)
    BY WorkIsOwn
  <1>3. /\ k # "database" => base' = base
        /\ k # "mail" => relay' = relay
        /\ k # "dns" => zone' = zone
    BY WorkIsOwn
  <1>4. \A q : Waits(q)' <=> Later(q)
    BY <1>2, OutcomeKeeps
  <1>5. \A q \in ServerKinds \ {k} : Waits(q) <=> Later(q)
    <2>1. todo # <<>> /\ todo \in Seq(ServerJob) /\ Head(todo).kind = k
      BY WorkWaits DEF RecordsInv, RecordTypes
    <2>2. todo[1].kind = k /\ Len(todo) \in Nat
      BY <2>1
    <2> HIDE DEF k
    <2> QED BY <2>2 DEF Waits, Later
  <1> HIDE DEF k
  <1>6. /\ k # "database" => /\ record'["database"].status = "active" => base'
                             /\ record'["database"].status = "none" => ~ base'
        /\ k # "mail" => (record'["mail"].status = "active" => relay' = record'["mail"].value)
    BY <1>1, <1>3, RecordsInForceParts DEF ServerKinds
  <1>7. k # "dns" => (record'["dns"].status = "active" /\ ~ Waits("dns")' =>
          record'["dns"].remote # 0 /\ zone'[record'["dns"].remote] = record'["dns"].value)
    BY <1>1, <1>3, <1>4, <1>5, RecordsInForceParts DEF ServerKinds
  <1> QED BY <1>6, <1>7 DEF k

\* So an outcome keeps all in force if it does so for the kind worked on.
LEMMA OutcomeInForce ==
  ASSUME RecordsInv, doing # R!Idle, R!Work \/ R!NoWork,
         NEW ok \in BOOLEAN, NEW remote \in Nat, R!Outcome(ok, remote),
         LET k == doing.job.kind  IN
         /\ k = "database" => /\ record'["database"].status = "active" => base'
                              /\ record'["database"].status = "none" => ~ base'
         /\ k = "mail" => (record'["mail"].status = "active" => relay' = record'["mail"].value)
         /\ k = "dns" => (record'["dns"].status = "active" /\ ~ Waits("dns")' =>
               record'["dns"].remote # 0 /\ zone'[record'["dns"].remote] = record'["dns"].value)
  PROVE  RecordsInv'
  <1>1. zone' \in Seq(Nat)
    BY WorkIsOwn
  <1>2. RecordTypes' /\ FirstIsDone' /\ RowsSettle' /\ RowIsRead'
    BY <1>1, OutcomeKeeps
  <1>3. /\ record'["database"].status = "active" => base'
        /\ record'["database"].status = "none" => ~ base'
        /\ record'["mail"].status = "active" => relay' = record'["mail"].value
        /\ record'["dns"].status = "active" /\ ~ Waits("dns")' =>
               record'["dns"].remote # 0 /\ zone'[record'["dns"].remote] = record'["dns"].value
    BY OthersInForce
  <1>4. R!Quiet("dns")' => ~ Waits("dns")'
    <2>1. DOMAIN todo' = 1..Len(todo')
      BY <1>2 DEF RecordTypes
    <2> QED BY <2>1 DEF R!Quiet, Waits
  <1>5. RecordsAreInForce'
    BY <1>3, <1>4 DEF RecordsAreInForce, R!RecordsAreInForce
  <1> QED BY <1>2, <1>5 DEF RecordsInv
\* A database that is worked on exists as a row, which the worker has read.
LEMMA DatabaseIsThere ==
  ASSUME RecordsInv, doing # R!Idle, doing.job.kind = "database"
  PROVE  record["database"] # R!Absent
  <1>1. record["database"].status \in {"queued", "deleting"}
    BY WorkWaits DEF RecordsInv, RowsSettle
  <1> QED BY <1>1, NoRow

\* A failure: the row does not read as active.
LEMMA FailureKeeps ==
  ASSUME RecordsInv, doing # R!Idle, R!Work \/ R!NoWork, R!Outcome(FALSE, 0)
  PROVE  RecordsInv'
  <1> DEFINE k == doing.job.kind
  <1>1. \/ record'[k] = record[k] /\ (record[k] = R!Absent \/ (k = "mail" /\ Later("mail")))
        \/ record'[k].status \in {"failed", "delete_failed"}
    BY OutcomeWrites
  <1>2. k = "database" => record'[k].status \in {"failed", "delete_failed"}
    BY <1>1, DatabaseIsThere
  <1>3. k = "mail" => record'[k].status # "active"
    <2>1. k = "mail" => record[k].status = "queued"
      BY WorkWaits DEF RecordsInv, RowsSettle
    <2> QED BY <1>1, <2>1
  <1>4. k = "dns" => record'[k].status # "active"
    BY <1>1, NoRow
  <1> QED BY <1>2, <1>3, <1>4, OutcomeInForce

\* Success: what the worker read is what is wanted, and now so.
LEMMA SuccessKeeps ==
  ASSUME RecordsInv, R!Done
  PROVE  RecordsInv'
  <1> DEFINE k == doing.job.kind
  <1>1. doing # R!Idle /\ ~ R!Impossible /\ R!Work /\ R!Outcome(TRUE, R!Remote)
    BY DEF R!Done
  <1>2. /\ doing.row \in RecordRow /\ doing.row.remote \in Nat /\ doing.row.value \in Nat
        /\ zone \in Seq(Nat) /\ Len(zone) \in Nat
        /\ doing.job \in ServerJob /\ doing.job.action \in {"apply", "delete"} /\ Waits(k)
    BY <1>1, WorkWaits DEF RecordsInv, RecordTypes, RecordRow, ServerJob
  <1>3. zone' \in Seq(Nat) /\ Len(zone') \in Nat
    BY <1>1, WorkIsOwn
  <1>4. PICK remote \in Nat : remote = R!Remote
    BY <1>2, <1>3 DEF R!Remote
  <1>5. R!Outcome(TRUE, remote)
    BY <1>1, <1>4
  <1>6. \/ record'[k] = record[k] /\ (record[k] = R!Absent \/ (k = "mail" /\ Later("mail")))
        \/ /\ record[k] # R!Absent /\ ~ (k = "mail" /\ Later("mail"))
           /\ \/ doing.job.action = "delete" /\ record'[k] = R!Absent
              \/ /\ doing.job.action = "apply" /\ record'[k].status = "active"
                 /\ record'[k].value = record[k].value /\ (k = "dns" => record'[k].remote = remote)
    BY <1>1, <1>5, OutcomeWrites
  <1>7. \A q : Waits(q)' <=> Later(q)
    BY <1>1, <1>3, <1>5, OutcomeKeeps
  <1>8. ~ Later(k) => record[k] \in {R!Absent, doing.row}
    BY <1>1 DEF RecordsInv, RowIsRead
  <1> HIDE DEF k
  <1>9. ASSUME k = "database"
        PROVE  /\ record'["database"].status = "active" => base'
               /\ record'["database"].status = "none" => ~ base'
    <2>1. record["database"] # R!Absent
      BY <1>1, <1>9, DatabaseIsThere DEF k
    <2>2. CASE doing.job.action = "delete"
      <3>1. base' = FALSE
        BY <1>1, <1>9, <2>2 DEF R!Work, R!MariaDBDelete, k
      <3> QED BY <1>6, <1>9, <2>1, <2>2, <3>1, NoRow
    <2>3. CASE doing.job.action = "apply"
      <3>1. base' = TRUE
        BY <1>1, <1>9, <2>3 DEF R!Work, R!MariaDBCreate, k
      <3> QED BY <1>6, <1>9, <2>1, <2>3, <3>1
    <2> QED BY <1>2, <2>2, <2>3
  <1>10. ASSUME k = "mail", record'["mail"].status = "active"
         PROVE  relay' = record'["mail"].value
    <2>1. record["mail"].status = "queued"
      BY <1>2, <1>10 DEF RecordsInv, RowsSettle
    <2>2. record[k] # R!Absent /\ ~ Later("mail") /\ record'[k].value = record[k].value
      BY <1>6, <1>10, <2>1, NoRow
    <2>3. record[k] = doing.row
      BY <1>8, <1>10, <2>2
    <2>4. relay' = doing.row.value
      BY <1>1, <1>10 DEF R!Work, R!ApplyMailService, k
    <2> QED BY <1>10, <2>2, <2>3, <2>4
  <1>11. ASSUME k = "dns", record'["dns"].status = "active", ~ Waits("dns")'
         PROVE  record'["dns"].remote # 0 /\ zone'[record'["dns"].remote] = record'["dns"].value
    <2>1. ~ Later(k)
      BY <1>7, <1>11
    <2>2. /\ record[k] # R!Absent /\ doing.job.action = "apply"
          /\ record'[k].value = record[k].value /\ record'[k].remote = remote
      BY <1>6, <1>11, NoRow
    <2>3. record'[k].value = doing.row.value
      BY <1>8, <2>1, <2>2
    <2>4. R!applyCloudflare(doing.row)
      BY <1>1, <1>11, <2>2 DEF R!Work, k
    <2>5. CASE doing.row.remote = 0
      <3>1. zone' = Append(zone, doing.row.value)
        BY <2>4, <2>5 DEF R!applyCloudflare
      <3>2. Len(zone') = Len(zone) + 1 /\ zone'[Len(zone) + 1] = doing.row.value
        BY <1>2, <3>1
      <3>3. remote = Len(zone) + 1
        BY <1>4, <2>5, <3>2 DEF R!Remote
      <3> QED BY <1>2, <1>11, <2>2, <2>3, <3>2, <3>3
    <2>6. CASE doing.row.remote # 0
      <3>1. /\ doing.row.remote \in DOMAIN zone
            /\ zone' = [zone EXCEPT ![doing.row.remote] = doing.row.value]
        BY <2>4, <2>6 DEF R!applyCloudflare
      <3>2. remote = doing.row.remote
        BY <1>4, <2>6 DEF R!Remote
      <3>3. zone'[doing.row.remote] = doing.row.value
        BY <1>2, <3>1
      <3> QED BY <1>11, <2>2, <2>3, <2>6, <3>2, <3>3
    <2> QED BY <2>5, <2>6
  <1> QED BY <1>1, <1>5, <1>9, <1>10, <1>11, OutcomeInForce DEF k

\* The job is put back: its row is not settled, whatever the call did.
LEMMA JobIsPutBack ==
  ASSUME RecordsInv, doing # R!Idle, R!Work \/ R!NoWork, doing' = R!Idle, UNCHANGED <<record, todo>>
  PROVE  RecordsInv'
  <1> DEFINE k == doing.job.kind
  <1>1. /\ zone' \in Seq(Nat)
        /\ k # "database" => base' = base
        /\ k # "mail" => relay' = relay
        /\ k # "dns" => zone' = zone
    BY WorkIsOwn
  <1>2. Waits(k)
    BY WorkWaits DEF RecordsInv
  <1>3. RecordTypes'
    BY <1>1 DEF RecordsInv, RecordTypes
  <1>4. FirstIsDone' /\ RowIsRead'
    BY DEF FirstIsDone, RowIsRead
  <1>5. RowsSettle'
    BY DEF RecordsInv, RowsSettle, Waits
  <1> HIDE DEF k
  <1>6. /\ k = "database" => record["database"].status \in {"queued", "deleting"}
        /\ k = "mail" => record["mail"].status = "queued"
    BY <1>2 DEF RecordsInv, RowsSettle
  <1>7. R!Quiet("dns")' => ~ Waits("dns")
    <2>1. R!Quiet("dns")' => R!Quiet("dns")
      BY DEF R!Quiet
    <2> QED BY <2>1, QuietIsNotWaiting DEF RecordsInv, RecordTypes
  <1>8. RecordsAreInForce'
    <2>1. /\ record["database"].status = "active" => base'
          /\ record["database"].status = "none" => ~ base'
      BY <1>1, <1>6, RecordsInForceParts
    <2>2. record["mail"].status = "active" => relay' = record["mail"].value
      BY <1>1, <1>6, RecordsInForceParts
    <2>3. record["dns"].status = "active" /\ ~ Waits("dns") =>
             record["dns"].remote # 0 /\ zone'[record["dns"].remote] = record["dns"].value
      BY <1>1, <1>2, RecordsInForceParts
    <2> QED BY <1>7, <2>1, <2>2, <2>3 DEF RecordsAreInForce, R!RecordsAreInForce
  <1> QED BY <1>3, <1>4, <1>5, <1>8 DEF RecordsInv

LEMMA RecordsKeep ==
  ASSUME RecordsInv, [R!RecordsNext]_R!recordVars
  PROVE  RecordsInv'
  <1>1. CASE R!Edit
    BY <1>1, EditKeeps
  <1>2. CASE R!Start
    BY <1>2, StartKeeps
  <1>3. CASE R!Done
    BY <1>3, SuccessKeeps
  <1>4. CASE R!Fails
    BY <1>4, FailureKeeps DEF R!Fails
  <1>5. CASE R!LostAnswer
    <2>1. doing # R!Idle /\ (R!Work \/ R!NoWork)
      BY <1>5 DEF R!LostAnswer
    <2>2. CASE doing.job.kind = "mail"
      BY <1>5, <2>1, <2>2, JobIsPutBack DEF R!LostAnswer
    <2>3. CASE doing.job.kind # "mail"
      BY <1>5, <2>1, <2>3, FailureKeeps DEF R!LostAnswer
    <2> QED BY <2>2, <2>3
  <1>6. CASE R!PanelRestarts
    BY <1>6, JobIsPutBack DEF R!PanelRestarts
  <1>7. CASE UNCHANGED R!recordVars
    BY <1>7 DEF R!recordVars, RecordsInv, RecordTypes, FirstIsDone, RowsSettle, RowIsRead, Waits, Later,
                RecordsAreInForce, R!RecordsAreInForce, R!Quiet
  <1> QED BY <1>1, <1>2, <1>3, <1>4, <1>5, <1>6, <1>7 DEF R!RecordsNext

LEMMA RecordsStart ==
  ASSUME R!RecordsInit
  PROVE  RecordsInv
  <1>1. /\ record = [k \in ServerKinds |-> R!Absent] /\ todo = <<>> /\ doing = R!Idle
        /\ base = FALSE /\ zone = <<>> /\ relay = 0
    BY DEF R!RecordsInit, ServerKinds
  <1>2. /\ record \in [ServerKinds -> RecordRow] /\ \A k \in ServerKinds : record[k].status = "none"
    BY <1>1, NoRow
  <1>3. todo \in Seq(ServerJob) /\ Len(todo) = 0 /\ zone \in Seq(Nat)
    BY <1>1
  <1>4. RecordTypes /\ FirstIsDone /\ RowIsRead
    BY <1>1, <1>2, <1>3 DEF RecordTypes, FirstIsDone, RowIsRead
  <1>5. RowsSettle
    BY <1>3 DEF RowsSettle, Waits
  <1>6. RecordsAreInForce
    BY <1>1, <1>2 DEF RecordsAreInForce, R!RecordsAreInForce, ServerKinds
  <1> QED BY <1>4, <1>5, <1>6 DEF RecordsInv

\* Whatever answers were lost, and however requests and the worker interleave, a
\* row of a database, of the mail service or of a DNS record reads as active only
\* while what it says is there.
THEOREM RecordsStayInForce == Spec => []RecordsAreInForce
  <1>1. R!RecordsInit => RecordsInv
    BY RecordsStart
  <1>2. RecordsInv /\ [R!RecordsNext]_R!recordVars => RecordsInv'
    BY RecordsKeep
  <1>3. RecordsInv => RecordsAreInForce
    BY DEF RecordsInv
  <1> QED BY <1>1, <1>2, <1>3, RecordsAreRefined, PTL DEF R!RecordsSpec
-----------------------------------------------------------------------------
(***************************************************************************)
(* Settings.  A host fits the rows when a row that is settled says what is *)
(* kept for it, for as long as no other call of its kind is made; the site *)
(* being active or disabled then tells which of it runs.                   *)
(***************************************************************************)
All == S!AllKinds

SettingStatuses == {"none", "pending", "pending_delete", "active", "failed", "delete_failed"}

SettingJob == {j \in [kind : All \cup {"enable", "disable"}, action : {"apply", "delete"}, want : 0..2] :
                 j.action = "delete" => j.kind \in {"cron", "ftp"}}

HostConf == [kept : [All -> 0..3], live : [All -> 0..3], internal : BOOLEAN, strays : SUBSET S!Cron]

SettingTypes ==
    /\ webSite \in [kind : {"wordpress", "proxy"},
                    status : {"active", "disabling", "disabled", "disable_failed", "enabling", "enable_failed"}]
    /\ row \in [All -> [status : SettingStatuses, want : 0..2]]
    /\ queue \in Seq(SettingJob)
    /\ conf \in HostConf

\* Every job has its row to itself, and what changes the site comes first.
SettingsWait ==
    /\ \A i, j \in 1..Len(queue) : queue[i].kind = queue[j].kind => i = j
    /\ \A i \in 1..Len(queue) : LET k == queue[i].kind IN
         /\ k \in All => /\ row[k].status = IF queue[i].action = "delete" THEN "pending_delete" ELSE "pending"
                        /\ row[k].want = queue[i].want
         /\ k \notin All => i = 1
         /\ k = "disable" => webSite.status = "disabling"
         /\ k = "enable" => webSite.status = "enabling"
         /\ k = "node" => webSite.status = "active"

\* A host fits a row.
FitsRow(d, k) ==
    /\ row[k].status = "none" => d.live[k] = 0 /\ (k # "ftp" => d.kept[k] = 0)
    /\ row[k].status = "active" =>
         /\ k # "ftp" => d.kept[k] = row[k].want
         /\ k \in S!Nginx => d.live[k] = row[k].want
         /\ k # "ftp" /\ row[k].want = 0 => d.live[k] = 0
         /\ k = "wpcron" => (d.internal = TRUE <=> row[k].want = 0)
    /\ k = "wpcron" /\ d.kept[k] = 0 => d.live[k] = 0

Fitting == {d \in HostConf : \A k \in All : FitsRow(d, k)}

\* What the status of the site says of a host.
SiteTells(d) ==
    /\ webSite.status = "active" => \A k \in All : row[k].status = "active" => d.live[k] = row[k].want
    /\ webSite.status = "disabled" => /\ \A k \in S!Runs : row[k].status = "active" => d.live[k] = 0
                                      /\ d.live["wpcron"] = 0

SettingsInv == SettingTypes /\ SettingsWait /\ conf \in Fitting /\ SiteTells(conf)

LEMMA SettingKindsListed ==
  /\ All = {"cron", "wpcron", "access", "security", "node", "ftp"}
  /\ S!Cron = {"cron", "wpcron"} /\ S!Nginx = {"access", "security"}
  /\ S!Runs = {"cron", "wpcron", "node", "ftp"} /\ S!Torn = 3
  BY DEF All, S!AllKinds, S!Cron, S!Nginx, S!Runs, S!Torn

\* What the changes of a plan do to the fields of a host.
LEMMA KeepIs ==
  ASSUME NEW d \in HostConf, NEW k \in All, NEW w \in 0..3
  PROVE  /\ S!Keep(d, k, w) \in HostConf
         /\ S!Keep(d, k, w).kept[k] = w /\ \A q \in All \ {k} : S!Keep(d, k, w).kept[q] = d.kept[q]
         /\ S!Keep(d, k, w).live = d.live /\ S!Keep(d, k, w).internal = d.internal
         /\ S!Keep(d, k, w).strays = d.strays
  <1>1. S!Keep(d, k, w) = [d EXCEPT !.kept = [d.kept EXCEPT ![k] = w]]
    BY DEF S!Keep, HostConf
  <1>2. [d.kept EXCEPT ![k] = w] \in [All -> 0..3]
    BY DEF HostConf
  <1> DEFINE new == [d.kept EXCEPT ![k] = w]
  <1>3. new[k] = w /\ \A q \in All \ {k} : new[q] = d.kept[q]
    BY DEF HostConf
  <1> HIDE DEF new
  <1>4. /\ [d EXCEPT !.kept = new] \in HostConf /\ [d EXCEPT !.kept = new].kept = new
        /\ [d EXCEPT !.kept = new].live = d.live /\ [d EXCEPT !.kept = new].internal = d.internal
        /\ [d EXCEPT !.kept = new].strays = d.strays
    BY <1>2 DEF HostConf, new
  <1> QED BY <1>1, <1>3, <1>4 DEF new

LEMMA LiveIs ==
  ASSUME NEW d \in HostConf, NEW k \in All, NEW w \in 0..3
  PROVE  /\ S!Live(d, k, w) \in HostConf
         /\ S!Live(d, k, w).live[k] = w /\ \A q \in All \ {k} : S!Live(d, k, w).live[q] = d.live[q]
         /\ S!Live(d, k, w).kept = d.kept /\ S!Live(d, k, w).internal = d.internal
         /\ S!Live(d, k, w).strays = d.strays
  <1>1. S!Live(d, k, w) = [d EXCEPT !.live = [d.live EXCEPT ![k] = w]]
    BY DEF S!Live, HostConf
  <1>2. [d.live EXCEPT ![k] = w] \in [All -> 0..3]
    BY DEF HostConf
  <1> DEFINE new == [d.live EXCEPT ![k] = w]
  <1>3. new[k] = w /\ \A q \in All \ {k} : new[q] = d.live[q]
    BY DEF HostConf
  <1> HIDE DEF new
  <1>4. /\ [d EXCEPT !.live = new] \in HostConf /\ [d EXCEPT !.live = new].live = new
        /\ [d EXCEPT !.live = new].kept = d.kept /\ [d EXCEPT !.live = new].internal = d.internal
        /\ [d EXCEPT !.live = new].strays = d.strays
    BY <1>2 DEF HostConf, new
  <1> QED BY <1>1, <1>3, <1>4 DEF new

LEMMA ReloadIs ==
  ASSUME NEW d \in HostConf
  PROVE  /\ S!Reload(d) \in HostConf
         /\ \A q \in S!Nginx : S!Reload(d).live[q] = d.kept[q]
         /\ \A q \in All \ S!Nginx : S!Reload(d).live[q] = d.live[q]
         /\ S!Reload(d).kept = d.kept /\ S!Reload(d).internal = d.internal /\ S!Reload(d).strays = d.strays
  <1> DEFINE new == [k \in All |-> IF k \in S!Nginx THEN d.kept[k] ELSE d.live[k]]
  <1>1. S!Reload(d) = [d EXCEPT !.live = new]
    BY DEF S!Reload, All
  <1>2. new \in [All -> 0..3]
    BY DEF HostConf
  <1>3. /\ \A q \in S!Nginx : new[q] = d.kept[q]
        /\ \A q \in All \ S!Nginx : new[q] = d.live[q]
    BY SettingKindsListed
  <1> HIDE DEF new
  <1>4. /\ [d EXCEPT !.live = new] \in HostConf /\ [d EXCEPT !.live = new].live = new
        /\ [d EXCEPT !.live = new].kept = d.kept /\ [d EXCEPT !.live = new].internal = d.internal
        /\ [d EXCEPT !.live = new].strays = d.strays
    BY <1>2 DEF HostConf
  <1> QED BY <1>1, <1>3, <1>4

LEMMA StrayIs ==
  ASSUME NEW d \in HostConf, NEW k \in S!Cron
  PROVE  LET f == [d EXCEPT !.strays = @ \cup {k}]  IN
         f \in HostConf /\ f.kept = d.kept /\ f.live = d.live /\ f.internal = d.internal
  BY DEF HostConf

LEMMA InternalIs ==
  ASSUME NEW d \in HostConf, NEW off \in BOOLEAN
  PROVE  LET f == S!setWPInternalCron(d, off)  IN
         f \in HostConf /\ f.kept = d.kept /\ f.live = d.live /\ (f.internal = TRUE <=> ~ off)
  BY DEF HostConf, S!setWPInternalCron

-----------------------------------------------------------------------------
(* Plans.  A plan leads from one host to another through hosts of a set. *)

Leads(c, plan, D, d, end) ==
    /\ plan.steps \in Seq([to : D, back : D])
    /\ S!After(c, plan) = d /\ d \in D
    /\ plan.end = end

\* A call ends in that set, and where the plan leads to when it is done.
LEMMA CallEnds ==
  ASSUME NEW D, NEW c \in D, NEW plan, NEW d, NEW end, Leads(c, plan, D, d, end), NEW e \in S!Ends(c, plan)
  PROVE  e.conf \in D /\ (e.end = "done" => end = "done" /\ e.conf = d)
  <1>1. \A i \in DOMAIN plan.steps : plan.steps[i].to \in D /\ plan.steps[i].back \in D
    <2>1. plan.steps \in Seq([to : D, back : D])
      BY DEF Leads
    <2>2. DOMAIN plan.steps = 1..Len(plan.steps)
      BY <2>1, LenProperties
    <2>3. \A i \in 1..Len(plan.steps) : plan.steps[i] \in [to : D, back : D]
      BY <2>1, ElementOfSeq
    <2> QED BY <2>2, <2>3
  <1>2. CASE e \in {[conf |-> S!After(c, plan), end |-> plan.end], [conf |-> c, end |-> "cut"]}
    BY <1>2 DEF Leads
  <1>3. CASE e \in {[conf |-> plan.steps[i].back, end |-> "failed"] : i \in DOMAIN plan.steps}
    BY <1>1, <1>3
  <1>4. CASE e \in {[conf |-> plan.steps[i].to, end |-> "cut"] : i \in DOMAIN plan.steps}
    BY <1>1, <1>4
  <1> QED BY <1>2, <1>3, <1>4 DEF S!Ends

\* Plans of few steps.
LEMMA ShortPlans ==
  ASSUME NEW D, NEW c \in D
  PROVE  /\ Leads(c, S!Plan(<<>>), D, c, "done")
         /\ Leads(c, S!Refused, D, c, "refused")
         /\ Leads(c, [steps |-> <<>>, end |-> "blocked"], D, c, "blocked")
         /\ \A x, y \in D : Leads(c, S!Plan(<<S!Step(x, y)>>), D, x, "done")
         /\ \A x1, y1, x2, y2 \in D :
               Leads(c, S!Plan(<<S!Step(x1, y1), S!Step(x2, y2)>>), D, x2, "done")
         /\ \A x1, y1, x2, y2, x3, y3 \in D :
               Leads(c, S!Plan(<<S!Step(x1, y1), S!Step(x2, y2), S!Step(x3, y3)>>), D, x3, "done")
  <1>1. \A x, y \in D : S!Step(x, y) \in [to : D, back : D] /\ S!Step(x, y).to = x
    BY DEF S!Step
  <1>2. /\ Leads(c, S!Plan(<<>>), D, c, "done")
        /\ Leads(c, S!Refused, D, c, "refused")
        /\ Leads(c, [steps |-> <<>>, end |-> "blocked"], D, c, "blocked")
    BY DEF Leads, S!Plan, S!Refused, S!After
  <1>3. ASSUME NEW s1 \in [to : D, back : D]
        PROVE  Leads(c, S!Plan(<<s1>>), D, s1.to, "done")
    BY DEF Leads, S!Plan, S!After
  <1>4. ASSUME NEW s1 \in [to : D, back : D], NEW s2 \in [to : D, back : D]
        PROVE  Leads(c, S!Plan(<<s1, s2>>), D, s2.to, "done")
    BY DEF Leads, S!Plan, S!After
  <1>5. ASSUME NEW s1 \in [to : D, back : D], NEW s2 \in [to : D, back : D], NEW s3 \in [to : D, back : D]
        PROVE  Leads(c, S!Plan(<<s1, s2, s3>>), D, s3.to, "done")
    BY DEF Leads, S!Plan, S!After
  <1>6. \A x, y \in D : Leads(c, S!Plan(<<S!Step(x, y)>>), D, x, "done")
    BY <1>1, <1>3
  <1>7. \A x1, y1, x2, y2 \in D :
           Leads(c, S!Plan(<<S!Step(x1, y1), S!Step(x2, y2)>>), D, x2, "done")
    BY <1>1, <1>4
  <1>8. \A x1, y1, x2, y2, x3, y3 \in D :
           Leads(c, S!Plan(<<S!Step(x1, y1), S!Step(x2, y2), S!Step(x3, y3)>>), D, x3, "done")
    BY <1>1, <1>5
  <1> QED BY <1>2, <1>6, <1>7, <1>8

LEMMA PlanOfOne ==
  ASSUME NEW D, NEW c \in D, NEW x1 \in D, NEW y1 \in D
  PROVE  Leads(c, S!Plan(<<S!Step(x1, y1)>>), D, x1, "done")
  BY ShortPlans, Zenon

LEMMA PlanOfThree ==
  ASSUME NEW D, NEW c \in D, NEW x1 \in D, NEW y1 \in D, NEW x2 \in D, NEW y2 \in D, NEW x3 \in D, NEW y3 \in D
  PROVE  Leads(c, S!Plan(<<S!Step(x1, y1), S!Step(x2, y2), S!Step(x3, y3)>>), D, x3, "done")
  BY ShortPlans, Zenon

\* One plan after another.
Joined(p, q) == [steps |-> p.steps \o q.steps, end |-> q.end]

LEMMA PlansJoin ==
  ASSUME NEW D, NEW c, NEW p, NEW d, Leads(c, p, D, d, "done"), NEW q, NEW f, NEW end, Leads(d, q, D, f, end)
  PROVE  Leads(c, Joined(p, q), D, f, end)
  <1> DEFINE Pairs == [to : D, back : D]
             s == p.steps
             t == q.steps
  <1>1. s \in Seq(Pairs) /\ t \in Seq(Pairs) /\ f \in D /\ q.end = end
    BY DEF Leads
  <1>2. /\ d = IF s = <<>> THEN c ELSE s[Len(s)].to
        /\ f = IF t = <<>> THEN d ELSE t[Len(t)].to
    BY DEF Leads, S!After
  <1> HIDE DEF s, t
  <1>3. s \o t \in Seq(Pairs) /\ Len(s \o t) = Len(s) + Len(t) /\ Len(s) \in Nat /\ Len(t) \in Nat
    BY <1>1
  <1>4. f = IF s \o t = <<>> THEN c ELSE (s \o t)[Len(s \o t)].to
    <2>1. CASE t = <<>>
      <3>1. s \o t = s
        BY <1>1, <2>1
      <3> QED BY <1>2, <2>1, <3>1
    <2>2. CASE t # <<>>
      <3>1. Len(t) >= 1
        BY <1>1, <2>2
      <3>2. (s \o t)[Len(s) + Len(t)] = t[Len(t)] /\ s \o t # <<>>
        BY <1>1, <1>3, <3>1
      <3> QED BY <1>2, <1>3, <2>2, <3>2
    <2> QED BY <2>1, <2>2
  <1> QED BY <1>1, <1>3, <1>4 DEF Leads, Joined, S!After, s, t

-----------------------------------------------------------------------------
(* Fitting hosts.  What the calls do to a host leaves it fitting. *)

RowIsOpen(k) == row[k].status \notin {"none", "active"}

\* One that differs from it in what it keeps of a row that waits or failed.
LEMMA KeepFits ==
  ASSUME SettingTypes, NEW d \in Fitting, NEW k \in All, NEW w \in 0..3, RowIsOpen(k),
         k = "wpcron" => w # 0 \/ d.live[k] = 0
  PROVE  S!Keep(d, k, w) \in Fitting
  <1> DEFINE f == S!Keep(d, k, w)
  <1>1. d \in HostConf /\ \A q \in All : FitsRow(d, q)
    BY DEF Fitting
  <1>2. /\ f \in HostConf /\ f.kept[k] = w /\ \A q \in All \ {k} : f.kept[q] = d.kept[q]
        /\ f.live = d.live /\ f.internal = d.internal
    BY <1>1, KeepIs
  <1> HIDE DEF f
  <1>3. ASSUME NEW q \in All
        PROVE  FitsRow(f, q)
    <2>1. CASE q = k
      BY <1>2, <2>1 DEF FitsRow, RowIsOpen
    <2>2. CASE q # k
      <3>1. f.kept[q] = d.kept[q]
        BY <1>2, <2>2
      <3> QED BY <1>1, <1>2, <3>1 DEF FitsRow
    <2> QED BY <2>1, <2>2
  <1> QED BY <1>2, <1>3 DEF Fitting, f

\* One that differs from it in what runs of such a row.
LEMMA LiveFits ==
  ASSUME SettingTypes, NEW d \in Fitting, NEW k \in All, NEW w \in 0..3, RowIsOpen(k),
         k = "wpcron" => w = 0 \/ d.kept[k] # 0
  PROVE  S!Live(d, k, w) \in Fitting
  <1> DEFINE f == S!Live(d, k, w)
  <1>1. d \in HostConf /\ \A q \in All : FitsRow(d, q)
    BY DEF Fitting
  <1>2. /\ f \in HostConf /\ f.live[k] = w /\ \A q \in All \ {k} : f.live[q] = d.live[q]
        /\ f.kept = d.kept /\ f.internal = d.internal
    BY <1>1, LiveIs
  <1> HIDE DEF f
  <1>3. ASSUME NEW q \in All
        PROVE  FitsRow(f, q)
    <2>1. CASE q = k
      BY <1>2, <2>1 DEF FitsRow, RowIsOpen
    <2>2. CASE q # k
      <3>1. f.live[q] = d.live[q]
        BY <1>2, <2>2
      <3> QED BY <1>1, <1>2, <3>1 DEF FitsRow
    <2> QED BY <2>1, <2>2
  <1> QED BY <1>2, <1>3 DEF Fitting, f

\* One on which less runs of what a disabled site stops, whatever its row says.
LEMMA StoppedFits ==
  ASSUME SettingTypes, NEW d \in Fitting, NEW k \in S!Runs
  PROVE  S!Live(d, k, 0) \in Fitting
  <1> DEFINE f == S!Live(d, k, 0)
  <1>1. d \in HostConf /\ (\A q \in All : FitsRow(d, q)) /\ k \in All /\ k \notin S!Nginx
    BY SettingKindsListed DEF Fitting
  <1>2. /\ f \in HostConf /\ f.live[k] = 0 /\ \A q \in All \ {k} : f.live[q] = d.live[q]
        /\ f.kept = d.kept /\ f.internal = d.internal
    BY <1>1, LiveIs
  <1> HIDE DEF f
  <1>3. ASSUME NEW q \in All
        PROVE  FitsRow(f, q)
    <2>1. CASE q = k
      <3>1. FitsRow(d, k) /\ f.live[q] = 0
        BY <1>1, <1>2, <2>1
      <3> QED BY <1>1, <1>2, <2>1, <3>1 DEF FitsRow
    <2>2. CASE q # k
      <3>1. f.live[q] = d.live[q]
        BY <1>2, <2>2
      <3> QED BY <1>1, <1>2, <3>1 DEF FitsRow
    <2> QED BY <2>1, <2>2
  <1> QED BY <1>2, <1>3 DEF Fitting, f

\* One on which what is kept of a schedule, or of the application, runs.
LEMMA StartedFits ==
  ASSUME SettingTypes, NEW d \in Fitting, NEW k \in S!Cron \cup {"node"}
  PROVE  S!Live(d, k, d.kept[k]) \in Fitting
  <1> DEFINE w == d.kept[k]
             f == S!Live(d, k, w)
  <1>1. /\ d \in HostConf /\ (\A q \in All : FitsRow(d, q)) /\ k \in All /\ k \notin S!Nginx /\ k # "ftp"
    BY SettingKindsListed DEF Fitting
  <1>2. w \in 0..3
    BY <1>1 DEF HostConf
  <1>3. /\ f \in HostConf /\ f.live[k] = w /\ \A q \in All \ {k} : f.live[q] = d.live[q]
        /\ f.kept = d.kept /\ f.internal = d.internal
    BY <1>1, <1>2, LiveIs
  <1> HIDE DEF f
  <1>4. ASSUME NEW q \in All
        PROVE  FitsRow(f, q)
    <2>1. CASE q = k
      <3>1. FitsRow(d, k) /\ f.live[q] = d.kept[q] /\ f.kept[q] = d.kept[q] /\ q \notin S!Nginx /\ q # "ftp"
        BY <1>1, <1>3, <2>1
      <3> QED BY <1>3, <2>1, <3>1 DEF FitsRow
    <2>2. CASE q # k
      <3>1. f.live[q] = d.live[q]
        BY <1>3, <2>2
      <3> QED BY <1>1, <1>3, <3>1 DEF FitsRow
    <2> QED BY <2>1, <2>2
  <1> QED BY <1>3, <1>4 DEF Fitting, f, w

\* One that Nginx was reloaded on.
LEMMA ReloadedFits ==
  ASSUME SettingTypes, NEW d \in Fitting
  PROVE  S!Reload(d) \in Fitting
  <1> DEFINE f == S!Reload(d)
  <1>1. d \in HostConf /\ \A q \in All : FitsRow(d, q)
    BY DEF Fitting
  <1>2. /\ f \in HostConf /\ (\A q \in S!Nginx : f.live[q] = d.kept[q])
        /\ (\A q \in All \ S!Nginx : f.live[q] = d.live[q])
        /\ f.kept = d.kept /\ f.internal = d.internal
    BY <1>1, ReloadIs
  <1> HIDE DEF f
  <1>3. ASSUME NEW q \in All
        PROVE  FitsRow(f, q)
    <2>1. CASE q \in S!Nginx
      <3>1. FitsRow(d, q) /\ f.live[q] = d.kept[q] /\ f.kept[q] = d.kept[q] /\ q \notin {"ftp", "wpcron"}
        BY <1>1, <1>2, <2>1, SettingKindsListed
      <3> QED BY <2>1, <3>1 DEF FitsRow
    <2>2. CASE q \notin S!Nginx
      <3>1. f.live[q] = d.live[q]
        BY <1>2, <2>2
      <3> QED BY <1>1, <1>2, <3>1 DEF FitsRow
    <2> QED BY <2>1, <2>2
  <1> QED BY <1>2, <1>3 DEF Fitting, f

\* One with another name left beside a target.
LEMMA StrayFits ==
  ASSUME NEW d \in Fitting, NEW k \in S!Cron
  PROVE  [d EXCEPT !.strays = @ \cup {k}] \in Fitting
  <1> DEFINE f == [d EXCEPT !.strays = @ \cup {k}]
  <1>1. d \in HostConf /\ \A q \in All : FitsRow(d, q)
    BY DEF Fitting
  <1>2. f \in HostConf /\ f.kept = d.kept /\ f.live = d.live /\ f.internal = d.internal
    BY <1>1, StrayIs
  <1> HIDE DEF f
  <1>3. \A q \in All : FitsRow(f, q)
    BY <1>1, <1>2 DEF FitsRow
  <1> QED BY <1>2, <1>3 DEF Fitting, f

\* One whose WordPress schedule was switched, its row being open.
LEMMA SwitchedFits ==
  ASSUME NEW d \in Fitting, NEW off \in BOOLEAN, RowIsOpen("wpcron")
  PROVE  S!setWPInternalCron(d, off) \in Fitting
  <1> DEFINE f == S!setWPInternalCron(d, off)
  <1>1. d \in HostConf /\ \A q \in All : FitsRow(d, q)
    BY DEF Fitting
  <1>2. f \in HostConf /\ f.kept = d.kept /\ f.live = d.live
    BY <1>1, InternalIs
  <1> HIDE DEF f
  <1>3. \A q \in All : FitsRow(f, q)
    BY <1>1, <1>2 DEF FitsRow, RowIsOpen
  <1> QED BY <1>2, <1>3 DEF Fitting, f

-----------------------------------------------------------------------------
(* Calls for one setting.  The hosts its job may leave: fitting ones, on   *)
(* which as much runs of the other settings as before.                     *)

LeftBy(c, k) ==
    {d \in Fitting : /\ \A q \in S!Runs \ {k} : d.live[q] = c.live[q]
                     /\ webSite.status = "disabled" => d.live["wpcron"] = 0}

LEMMA LeftAsFound ==
  ASSUME SettingsInv, NEW k \in All
  PROVE  conf \in LeftBy(conf, k)
  BY DEF LeftBy, SettingsInv, SiteTells

LEMMA LeftIsHost ==
  ASSUME NEW c, NEW k, NEW d \in LeftBy(c, k)
  PROVE  d \in HostConf /\ d \in Fitting
  BY DEF LeftBy, Fitting

\* What such a job may do next.
LEMMA LeftStays ==
  ASSUME SettingTypes, NEW c, NEW k \in All, RowIsOpen(k), NEW d \in LeftBy(c, k)
  PROVE  /\ \A w \in 0..3 : (k = "wpcron" => w # 0 \/ d.live[k] = 0) => S!Keep(d, k, w) \in LeftBy(c, k)
         /\ \A w \in 0..3 : (k = "wpcron" => w = 0 \/ (d.kept[k] # 0 /\ webSite.status # "disabled"))
                               => S!Live(d, k, w) \in LeftBy(c, k)
         /\ S!Reload(d) \in LeftBy(c, k)
         /\ \A q \in S!Cron : [d EXCEPT !.strays = @ \cup {q}] \in LeftBy(c, k)
         /\ k = "wpcron" => \A off \in BOOLEAN : S!setWPInternalCron(d, off) \in LeftBy(c, k)
  <1>1. /\ d \in Fitting /\ d \in HostConf /\ (\A q \in S!Runs \ {k} : d.live[q] = c.live[q])
        /\ (webSite.status = "disabled" => d.live["wpcron"] = 0)
    BY DEF LeftBy, Fitting
  <1>2. /\ S!Runs \subseteq All /\ "wpcron" \in All /\ S!Runs \cap S!Nginx = {} /\ "wpcron" \in S!Runs
    BY SettingKindsListed
  <1>3. ASSUME NEW f \in Fitting, f.live = d.live
        PROVE  f \in LeftBy(c, k)
    BY <1>1, <1>3 DEF LeftBy
  <1>4. ASSUME NEW w \in 0..3, k = "wpcron" => w # 0 \/ d.live[k] = 0
        PROVE  S!Keep(d, k, w) \in LeftBy(c, k)
    BY <1>1, <1>3, <1>4, KeepIs, KeepFits
  <1>5. ASSUME NEW w \in 0..3, k = "wpcron" => w = 0 \/ (d.kept[k] # 0 /\ webSite.status # "disabled")
        PROVE  S!Live(d, k, w) \in LeftBy(c, k)
    <2> DEFINE f == S!Live(d, k, w)
    <2>1. f \in Fitting
      BY <1>1, <1>5, LiveFits
    <2>2. f.live[k] = w /\ \A q \in All \ {k} : f.live[q] = d.live[q]
      BY <1>1, LiveIs
    <2> HIDE DEF f
    <2>3. \A q \in S!Runs \ {k} : f.live[q] = c.live[q]
      BY <1>1, <1>2, <2>2
    <2>4. webSite.status = "disabled" => f.live["wpcron"] = 0
      BY <1>1, <1>2, <1>5, <2>2
    <2> QED BY <2>1, <2>3, <2>4 DEF LeftBy, f
  <1>6. S!Reload(d) \in LeftBy(c, k)
    <2> DEFINE f == S!Reload(d)
    <2>1. f \in Fitting
      BY <1>1, ReloadedFits
    <2>2. \A q \in All \ S!Nginx : f.live[q] = d.live[q]
      BY <1>1, ReloadIs
    <2> HIDE DEF f
    <2>3. \A q \in S!Runs : f.live[q] = d.live[q]
      BY <1>2, <2>2
    <2> QED BY <1>1, <1>2, <2>1, <2>3 DEF LeftBy, f
  <1>7. ASSUME NEW q \in S!Cron
        PROVE  [d EXCEPT !.strays = @ \cup {q}] \in LeftBy(c, k)
    BY <1>1, <1>3, StrayIs, StrayFits
  <1>8. ASSUME k = "wpcron", NEW off \in BOOLEAN
        PROVE  S!setWPInternalCron(d, off) \in LeftBy(c, k)
    BY <1>1, <1>3, <1>8, InternalIs, SwitchedFits
  <1> QED BY <1>4, <1>5, <1>6, <1>7, <1>8

\* A target is put in place in two steps, or another name blocks it.
LEMMA TargetPlan ==
  ASSUME SettingTypes, NEW D \in SUBSET HostConf, NEW c \in D, NEW k \in S!Cron,
         [c EXCEPT !.strays = @ \cup {k}] \in D, S!Live(c, k, c.kept[k]) \in D
  PROVE  \E d, end : /\ Leads(c, S!secureSetCronTarget(c, k), D, d, end)
                     /\ end = "done" => d = S!Live(c, k, c.kept[k])
  <1> DEFINE tmp == [c EXCEPT !.strays = @ \cup {k}]
             new == S!Live(c, k, c.kept[k])
  <1>1. CASE k \in c.strays
    <2>1. S!secureSetCronTarget(c, k) = [steps |-> <<>>, end |-> "blocked"]
      BY <1>1 DEF S!secureSetCronTarget
    <2> QED BY <2>1, ShortPlans
  <1>2. CASE k \notin c.strays
    <2>1. S!secureSetCronTarget(c, k) = S!Plan(<<S!Step(tmp, c), S!Step(new, c)>>)
      BY <1>2 DEF S!secureSetCronTarget
    <2>2. tmp \in D /\ new \in D
      OBVIOUS
    <2> HIDE DEF tmp, new
    <2>3. Leads(c, S!secureSetCronTarget(c, k), D, new, "done")
      BY <2>1, <2>2, ShortPlans
    <2> QED BY <2>3 DEF new
  <1> QED BY <1>1, <1>2

\* A plan ends with its second half only when its first half is done.
LEMMA ThenLeads ==
  ASSUME NEW D, NEW c \in D, NEW p, NEW d, Leads(c, p, D, d, "done"), NEW q, NEW f, NEW end,
         Leads(d, q, D, f, end)
  PROVE  Leads(c, [steps |-> p.steps \o q.steps, end |-> q.end], D, f, end) /\ p.end = "done" /\ S!After(c, p) = d
  <1>1. Leads(c, Joined(p, q), D, f, end)
    BY PlansJoin
  <1>2. p.end = "done" /\ S!After(c, p) = d
    BY DEF Leads
  <1> QED BY <1>1, <1>2 DEF Joined

\* The service manager is asked before a target is put in place.
LEMMA InstallPlan ==
  ASSUME SettingTypes, NEW D \in SUBSET HostConf, NEW c \in D, NEW k \in S!Cron,
         [c EXCEPT !.strays = @ \cup {k}] \in D, S!Live(c, k, c.kept[k]) \in D
  PROVE  \E d, end : /\ Leads(c, S!InstallCron(c, k), D, d, end)
                     /\ end = "done" => d = S!Live(c, k, c.kept[k])
  <1>1. PICK d, end : /\ Leads(c, S!secureSetCronTarget(c, k), D, d, end)
                      /\ end = "done" => d = S!Live(c, k, c.kept[k])
    BY TargetPlan
  <1>2. Leads(c, S!requireCronService(c), D, c, "done")
    BY ShortPlans DEF S!requireCronService
  <1> DEFINE p == S!requireCronService(c)
             q == S!secureSetCronTarget(c, k)
  <1>3. p.end = "done" /\ S!After(c, p) = c
    BY <1>2 DEF Leads
  <1>4. S!InstallCron(c, k) = [steps |-> p.steps \o q.steps, end |-> q.end]
    BY <1>3, Zenon DEF S!InstallCron, S!Then
  <1>5. Leads(c, [steps |-> p.steps \o q.steps, end |-> q.end], D, d, end)
    <2> HIDE DEF p, q
    <2> QED BY <1>1, <1>2, ThenLeads DEF p, q
  <1> QED BY <1>1, <1>4, <1>5

-----------------------------------------------------------------------------
(* The calls for one setting, each with what it leaves when it is done.    *)

\* What a call for a setting leaves that was asked for.
Applied(d, k) ==
    /\ k # "ftp" => d.kept[k] = row[k].want
    /\ k \in S!Nginx => d.live[k] = row[k].want
    /\ k # "ftp" /\ row[k].want = 0 => d.live[k] = 0
    /\ k = "wpcron" => (d.internal = TRUE <=> row[k].want = 0)
    /\ webSite.status = "active" => d.live[k] = row[k].want
    /\ webSite.status = "disabled" /\ k \in S!Runs => d.live[k] = 0

\* What one leaves that was deleted.
Gone(d, k) == d.live[k] = 0 /\ (k # "ftp" => d.kept[k] = 0)

\* What a job asks of a host.
Served(d, job) == IF job.action = "delete" THEN Gone(d, job.kind) ELSE Applied(d, job.kind)

LEMMA FilesAreSwitched ==
  ASSUME SettingTypes, NEW k \in S!Nginx, RowIsOpen(k), NEW D, NEW c \in D,
         D = LeftBy(conf, k), NEW w \in 0..2
  PROVE  \E d : /\ Leads(c, S!SwitchFiles(c, k, w), D, d, "done")
                /\ d.kept[k] = w /\ d.live[k] = w
  <1> DEFINE torn == S!Keep(c, k, S!Torn)
             put  == S!Keep(c, k, w)
             new  == S!Reload(put)
             back == S!Reload(c)
  <1>1. k \in All /\ k # "wpcron" /\ 3 \in 0..3 /\ w \in 0..3 /\ S!Torn = 3
    BY SettingKindsListed
  <1>2. torn \in D /\ put \in D /\ back \in D
    BY <1>1, LeftStays
  <1>3. new \in D
    BY <1>1, <1>2, LeftStays
  <1>4. put.kept[k] = w /\ put \in HostConf
    BY <1>1, KeepIs DEF LeftBy, Fitting
  <1>5. new.kept[k] = w /\ new.live[k] = w
    BY <1>4, ReloadIs
  <1>6. S!SwitchFiles(c, k, w) = S!Plan(<<S!Step(torn, c), S!Step(put, c), S!Step(new, back)>>)
    BY DEF S!SwitchFiles
  <1> HIDE DEF torn, put, new, back
  <1>7. Leads(c, S!SwitchFiles(c, k, w), D, new, "done")
    BY <1>2, <1>3, <1>6, ShortPlans
  <1> QED BY <1>5, <1>7

LEMMA AccessIsApplied ==
  ASSUME SettingTypes, RowIsOpen("access"), NEW D, NEW c \in D, D = LeftBy(conf, "access")
  PROVE  \E d, end : /\ Leads(c, S!ApplySiteAccess(c, row["access"].want), D, d, end)
                     /\ end = "done" => Applied(d, "access")
  <1> DEFINE w == row["access"].want
  <1>1. "access" \in S!Nginx /\ "access" \notin S!Runs /\ w \in 0..2
    BY SettingKindsListed DEF SettingTypes
  <1>2. CASE webSite.status = "active"
    <2>1. S!ApplySiteAccess(c, w) = S!SwitchFiles(c, "access", w)
      BY <1>2 DEF S!ApplySiteAccess
    <2>2. PICK d : Leads(c, S!SwitchFiles(c, "access", w), D, d, "done") /\ d.kept["access"] = w /\ d.live["access"] = w
      BY <1>1, FilesAreSwitched
    <2>3. Applied(d, "access")
      BY <1>1, <2>2 DEF Applied
    <2> QED BY <2>1, <2>2, <2>3
  <1>3. CASE webSite.status # "active"
    <2>1. S!ApplySiteAccess(c, w) = S!Refused
      BY <1>3 DEF S!ApplySiteAccess
    <2> QED BY <2>1, ShortPlans
  <1> QED BY <1>2, <1>3

LEMMA SecurityIsApplied ==
  ASSUME SettingTypes, RowIsOpen("security"), NEW D, NEW c \in D, D = LeftBy(conf, "security")
  PROVE  \E d, end : /\ Leads(c, S!applySecurity(c, row["security"].want), D, d, end)
                     /\ end = "done" => Applied(d, "security")
  <1> DEFINE w == row["security"].want
  <1>1. "security" \in S!Nginx /\ "security" \notin S!Runs /\ w \in 0..2
    BY SettingKindsListed DEF SettingTypes
  <1>2. S!applySecurity(c, w) = S!SwitchFiles(c, "security", w)
    BY DEF S!applySecurity
  <1>3. PICK d : Leads(c, S!SwitchFiles(c, "security", w), D, d, "done") /\ d.kept["security"] = w /\ d.live["security"] = w
    BY <1>1, FilesAreSwitched
  <1>4. Applied(d, "security")
    BY <1>1, <1>3 DEF Applied
  <1> QED BY <1>2, <1>3, <1>4

\* The application of an active site.
LEMMA NodeIsApplied ==
  ASSUME SettingTypes, RowIsOpen("node"), webSite.status = "active", NEW D, NEW c \in D, D = LeftBy(conf, "node")
  PROVE  \E d, end : /\ Leads(c, S!ApplyNodeRuntime(c, row["node"].want), D, d, end)
                     /\ end = "done" => Applied(d, "node")
  <1> DEFINE w       == row["node"].want
             stopped == S!Live(c, "node", 0)
             written == S!Keep(stopped, "node", w)
             again   == IF c.kept["node"] = 0 THEN written ELSE S!Live(c, "node", c.kept["node"])
             former  == IF c.kept["node"] = 0 THEN c ELSE again
             new     == S!Live(written, "node", w)
  <1>1. "node" \in All /\ w \in 0..2 /\ w \in 0..3 /\ "node" \notin S!Nginx /\ 0 \in 0..3
    BY SettingKindsListed DEF SettingTypes
  <1>2. c \in HostConf /\ c.kept["node"] \in 0..3
    BY <1>1 DEF LeftBy, Fitting, HostConf
  <1>3. stopped \in D
    BY <1>1, LeftStays
  <1>4. written \in D /\ written \in HostConf /\ written.kept["node"] = w
    <2>1. written \in D
      BY <1>1, <1>3, LeftStays
    <2>2. stopped \in HostConf
      BY <1>3, LeftIsHost
    <2> HIDE DEF stopped
    <2> QED BY <1>1, <2>1, <2>2, KeepIs, LeftIsHost
  <1>5. again \in D
    BY <1>1, <1>2, <1>4, LeftStays
  <1>6. former \in D
    BY <1>5
  <1>7. new \in D /\ new.live["node"] = w /\ new.kept["node"] = w
    BY <1>1, <1>4, LeftStays, LiveIs
  <1>8. S!ApplyNodeRuntime(c, w) = S!Plan(<<S!Step(stopped, c), S!Step(written, former), S!Step(new, again)>>)
    BY DEF S!ApplyNodeRuntime
  <1> HIDE DEF stopped, written, again, former, new
  <1>9. Leads(c, S!ApplyNodeRuntime(c, w), D, new, "done")
    <2>1. Leads(c, S!Plan(<<S!Step(stopped, c), S!Step(written, former), S!Step(new, again)>>), D, new, "done")
      BY <1>3, <1>4, <1>5, <1>6, <1>7, PlanOfThree
    <2> QED BY <1>8, <2>1
  <1>10. Applied(new, "node")
    BY <1>1, <1>7 DEF Applied
  <1> QED BY <1>9, <1>10

LEMMA FTPIsApplied ==
  ASSUME SettingTypes, RowIsOpen("ftp"), NEW D, NEW c \in D, D = LeftBy(conf, "ftp")
  PROVE  \E d, end : /\ Leads(c, S!ApplyFTPUser(c, row["ftp"].want), D, d, end)
                     /\ end = "done" => Applied(d, "ftp")
  <1> DEFINE w   == row["ftp"].want
             new == S!Live(c, "ftp", w)
  <1>1. "ftp" \in All /\ w \in 0..3 /\ "ftp" \notin S!Nginx
    BY SettingKindsListed DEF SettingTypes
  <1>2. CASE webSite.status = "active"
    <2>1. new \in D
      BY <1>1, LeftStays
    <2>2. new.live["ftp"] = w
      <3>1. c \in HostConf
        BY LeftIsHost
      <3> QED BY <1>1, <3>1, LiveIs
    <2>3. S!ApplyFTPUser(c, w) = S!Plan(<<S!Step(new, c), S!Step(new, c)>>)
      BY <1>2 DEF S!ApplyFTPUser
    <2> HIDE DEF new
    <2>4. Leads(c, S!ApplyFTPUser(c, w), D, new, "done")
      BY <2>1, <2>3, ShortPlans
    <2>5. Applied(new, "ftp")
      BY <1>1, <1>2, <2>2 DEF Applied
    <2> QED BY <2>4, <2>5
  <1>3. CASE webSite.status # "active"
    <2>1. S!ApplyFTPUser(c, w) = S!Refused
      BY <1>3 DEF S!ApplyFTPUser
    <2> QED BY <2>1, ShortPlans
  <1> QED BY <1>2, <1>3

LEMMA FTPIsDeleted ==
  ASSUME SettingTypes, RowIsOpen("ftp"), NEW D, NEW c \in D, D = LeftBy(conf, "ftp")
  PROVE  \E d, end : Leads(c, S!DeleteFTPUser(c), D, d, end) /\ Gone(d, "ftp")
  <1> DEFINE new == S!Live(c, "ftp", 0)
  <1>1. "ftp" \in All /\ 0 \in 0..3
    BY SettingKindsListed
  <1>2. new \in D
    BY <1>1, LeftStays
  <1>5. new.live["ftp"] = 0
    BY <1>1, LeftIsHost, LiveIs
  <1>3. S!DeleteFTPUser(c) = S!Plan(<<S!Step(new, c), S!Step(new, new)>>)
    BY DEF S!DeleteFTPUser
  <1> HIDE DEF new
  <1>4. Leads(c, S!DeleteFTPUser(c), D, new, "done")
    BY <1>2, <1>3, ShortPlans
  <1> QED BY <1>4, <1>5 DEF Gone

\* Scheduled commands.
LEMMA CronIsApplied ==
  ASSUME SettingTypes, RowIsOpen("cron"), NEW D, NEW c \in D, D = LeftBy(conf, "cron"),
         NEW job \in SettingJob, job.kind = "cron", job.action = "apply" => job.want = row["cron"].want
  PROVE  \E d, end : /\ Leads(c, S!ApplyCronSchedule(c, job), D, d, end)
                     /\ end = "done" => Served(d, job)
  <1> DEFINE w     == job.want
             saved == S!Keep(c, "cron", IF w = 0 THEN 1 ELSE w)
             save  == S!Plan(<<S!Step(saved, c)>>)
  <1>1. /\ "cron" \in All /\ "cron" \in S!Cron /\ "cron" \in S!Runs /\ "cron" \notin S!Nginx /\ w \in 0..3
        /\ 0 \in 0..3 /\ 1 \in 0..3 /\ job.action \in {"apply", "delete"}
    BY SettingKindsListed DEF SettingJob
  <1>2. CASE webSite.status \notin {"active", "disabled"}
    <2>1. S!ApplyCronSchedule(c, job) = S!Refused
      BY <1>2 DEF S!ApplyCronSchedule
    <2> QED BY <2>1, ShortPlans
  <1>3. CASE webSite.status \in {"active", "disabled"} /\ job.action = "delete"
    <2> DEFINE removed == S!Live(c, "cron", 0)
               gone    == S!Keep(removed, "cron", 0)
               p       == S!RemoveTarget(c, "cron")
               q       == S!Plan(<<S!Step(gone, removed)>>)
    <2>1. removed \in D /\ removed.live["cron"] = 0
      <3>1. c \in HostConf
        BY LeftIsHost
      <3> QED BY <1>1, <3>1, LeftStays, LiveIs
    <2>2. gone \in D
      <3> HIDE DEF removed
      <3> QED BY <1>1, <2>1, LeftStays
    <2>3. gone.kept["cron"] = 0 /\ gone.live["cron"] = 0
      <3>1. removed \in HostConf
        BY <2>1, LeftIsHost
      <3> HIDE DEF removed
      <3>2. gone.kept["cron"] = 0 /\ gone.live = removed.live
        BY <1>1, <3>1, KeepIs
      <3> HIDE DEF gone
      <3> QED BY <2>1, <3>2
    <2>4. p = S!Plan(<<S!Step(removed, c)>>)
      BY DEF S!RemoveTarget
    <2> HIDE DEF gone
    <2>5. Leads(removed, q, D, gone, "done")
      <3> HIDE DEF removed
      <3> QED BY <2>1, <2>2, PlanOfOne
    <2> HIDE DEF removed
    <2>6. Leads(c, p, D, removed, "done")
      BY <2>1, <2>4, PlanOfOne
    <2>7. S!After(c, p) = removed /\ p.end = "done"
      BY <2>6 DEF Leads, p, S!RemoveTarget, S!Plan
    <2>8. S!ApplyCronSchedule(c, job) = [steps |-> p.steps \o q.steps, end |-> q.end]
      <3>1. S!ApplyCronSchedule(c, job) =
               S!Then(c, p, LAMBDA d : S!Plan(<<S!Step(S!Keep(d, "cron", 0), d)>>))
        BY <1>3 DEF S!ApplyCronSchedule
      <3> HIDE DEF p
      <3>2. S!Then(c, p, LAMBDA d : S!Plan(<<S!Step(S!Keep(d, "cron", 0), d)>>))
               = [steps |-> p.steps \o q.steps, end |-> q.end]
        BY <2>7, Zenon DEF S!Then, q, gone
      <3> QED BY <3>1, <3>2
    <2> HIDE DEF p, q
    <2>9. Leads(c, S!ApplyCronSchedule(c, job), D, gone, "done")
      <3>1. Leads(c, [steps |-> p.steps \o q.steps, end |-> q.end], D, gone, "done")
        BY <2>5, <2>6, ThenLeads
      <3> QED BY <2>8, <3>1
    <2> QED BY <1>3, <2>3, <2>9 DEF Served, Gone
  <1>4. saved \in D /\ saved.kept["cron"] = (IF w = 0 THEN 1 ELSE w) /\ saved.live = c.live
    <2>1. c \in HostConf
      BY LeftIsHost
    <2> QED BY <1>1, <2>1, LeftStays, KeepIs
  <1>5. CASE webSite.status \in {"active", "disabled"} /\ job.action # "delete" /\ w = 0
    <2> DEFINE off == S!Keep(c, "cron", 0)
               end == S!Live(off, "cron", 0)
    <2>1. off \in D /\ off.kept["cron"] = 0 /\ off \in HostConf
      <3>1. c \in HostConf
        BY LeftIsHost
      <3> QED BY <1>1, <3>1, LeftStays, KeepIs
    <2>2. end \in D /\ end.live["cron"] = 0 /\ end.kept["cron"] = 0
      <3> HIDE DEF off
      <3>1. end \in D
        BY <1>1, <2>1, LeftStays
      <3>2. end.live["cron"] = 0 /\ end.kept = off.kept
        BY <1>1, <2>1, LiveIs
      <3> QED BY <2>1, <3>1, <3>2
    <2>3. S!ApplyCronSchedule(c, job) = S!Plan(<<S!Step(saved, c), S!Step(off, saved), S!Step(end, off)>>)
      BY <1>5 DEF S!ApplyCronSchedule
    <2> HIDE DEF saved, off, end
    <2>4. Leads(c, S!ApplyCronSchedule(c, job), D, end, "done")
      BY <1>4, <2>1, <2>2, <2>3, PlanOfThree
    <2>5. Served(end, job)
      BY <1>1, <1>5, <2>2 DEF Served, Applied
    <2> QED BY <2>4, <2>5
  <1>6. CASE webSite.status \in {"active", "disabled"} /\ job.action # "delete" /\ w # 0
    <2> DEFINE q == IF webSite.status = "disabled" THEN S!RemoveTarget(saved, "cron") ELSE S!InstallCron(saved, "cron")
    <2>1. saved \in HostConf /\ saved.kept["cron"] = w
      BY <1>4, <1>6, LeftIsHost
    <2>2. \A v \in 0..3 : S!Live(saved, "cron", v) \in D
      BY <1>1, <1>4, LeftStays
    <2>3. [saved EXCEPT !.strays = @ \cup {"cron"}] \in D
      BY <1>1, <1>4, LeftStays
    <2>4. D \in SUBSET HostConf
      BY LeftIsHost
    <2>5. Leads(c, save, D, saved, "done")
      BY <1>4, PlanOfOne
    <2>6. S!After(c, save) = saved /\ save.end = "done"
      BY <2>5 DEF Leads, save, S!Plan
    <2>7. S!ApplyCronSchedule(c, job) = [steps |-> save.steps \o q.steps, end |-> q.end]
      <3>1. S!ApplyCronSchedule(c, job) =
               S!Then(c, save, LAMBDA d : IF webSite.status = "disabled" THEN S!RemoveTarget(d, "cron")
                                          ELSE S!InstallCron(d, "cron"))
        BY <1>6 DEF S!ApplyCronSchedule
      <3> HIDE DEF save, saved
      <3>2. S!Then(c, save, LAMBDA d : IF webSite.status = "disabled" THEN S!RemoveTarget(d, "cron")
                                       ELSE S!InstallCron(d, "cron"))
               = [steps |-> save.steps \o q.steps, end |-> q.end]
        BY <2>6, Zenon DEF S!Then, q
      <3> QED BY <3>1, <3>2
    <2> HIDE DEF save, saved
    <2>8. \E d, end : Leads(saved, q, D, d, end) /\ (end = "done" => Served(d, job))
      <3>1. CASE webSite.status = "disabled"
        <4> DEFINE new == S!Live(saved, "cron", 0)
        <4>1. new \in D /\ new.live["cron"] = 0 /\ new.kept["cron"] = w
          BY <1>1, <2>1, <2>2, LiveIs
        <4>2. q = S!Plan(<<S!Step(new, saved)>>)
          BY <3>1 DEF S!RemoveTarget
        <4> HIDE DEF new, q
        <4>3. Leads(saved, q, D, new, "done")
          BY <1>4, <4>1, <4>2, PlanOfOne
        <4>4. Served(new, job)
          BY <1>1, <1>6, <3>1, <4>1 DEF Served, Applied
        <4> QED BY <4>3, <4>4
      <3>2. CASE webSite.status = "active"
        <4>1. q = S!InstallCron(saved, "cron")
          BY <3>2
        <4>2. S!Live(saved, "cron", saved.kept["cron"]) \in D
          BY <1>1, <2>1, <2>2
        <4>3. PICK d, end : /\ Leads(saved, S!InstallCron(saved, "cron"), D, d, end)
                            /\ end = "done" => d = S!Live(saved, "cron", saved.kept["cron"])
          BY <1>1, <1>4, <2>3, <2>4, <4>2, InstallPlan
        <4>4. ASSUME end = "done"
              PROVE  Served(d, job)
          <5>1. d.live["cron"] = w /\ d.kept["cron"] = w
            <6>1. S!Live(saved, "cron", w).live["cron"] = w /\ S!Live(saved, "cron", w).kept = saved.kept
              BY <1>1, <2>1, LiveIs
            <6> QED BY <2>1, <4>3, <4>4, <6>1
          <5> QED BY <1>1, <1>6, <3>2, <5>1 DEF Served, Applied
        <4> HIDE DEF q
        <4> QED BY <4>1, <4>3, <4>4
      <3> QED BY <1>6, <3>1, <3>2
    <2>9. PICK d, end : Leads(saved, q, D, d, end) /\ (end = "done" => Served(d, job))
      BY <2>8
    <2> HIDE DEF q
    <2>10. Leads(c, S!ApplyCronSchedule(c, job), D, d, end)
      <3>1. Leads(c, [steps |-> save.steps \o q.steps, end |-> q.end], D, d, end)
        BY <1>4, <2>5, <2>9, ThenLeads
      <3> QED BY <2>7, <3>1
    <2> QED BY <2>9, <2>10
  <1> QED BY <1>2, <1>3, <1>5, <1>6

\* WordPress's own schedule goes after the entry that replaces it is there, and
\* comes back before that entry goes.
LEMMA WordPressCronIsApplied ==
  ASSUME SettingTypes, RowIsOpen("wpcron"), NEW D, NEW c \in D, D = LeftBy(conf, "wpcron"),
         NEW job \in SettingJob, job.kind = "wpcron", job.want = row["wpcron"].want
  PROVE  \E d, end : /\ Leads(c, S!ApplyWordPressCronReplacement(c, job), D, d, end)
                     /\ end = "done" => Applied(d, "wpcron")
  <1> DEFINE w     == job.want
             saved == S!Keep(c, "wpcron", w)
             save  == S!Plan(<<S!Step(saved, c)>>)
  <1>1. /\ "wpcron" \in All /\ "wpcron" \in S!Cron /\ "wpcron" \in S!Runs /\ "wpcron" \notin S!Nginx
        /\ w \in 0..3 /\ 0 \in 0..3
    BY SettingKindsListed DEF SettingJob
  <1>2. c \in HostConf /\ D \in SUBSET HostConf
    BY LeftIsHost
  <1>3. CASE webSite.status \notin {"active", "disabled"}
    <2>1. S!ApplyWordPressCronReplacement(c, job) = S!Refused
      BY <1>3 DEF S!ApplyWordPressCronReplacement
    <2> QED BY <2>1, ShortPlans
  <1>4. CASE webSite.status \in {"active", "disabled"} /\ w = 0
    <2> DEFINE spoken  == S!setWPInternalCron(c, FALSE)
               removed == S!Live(spoken, "wpcron", 0)
               gone    == S!Keep(removed, "wpcron", 0)
    <2>1. spoken \in D /\ spoken.internal = TRUE
      BY <1>1, <1>2, LeftStays, InternalIs
    <2> HIDE DEF spoken
    <2>2. removed \in D
      BY <1>1, <2>1, LeftStays
    <2>3. removed.live["wpcron"] = 0 /\ removed.internal = TRUE
      <3>1. spoken \in HostConf
        BY <2>1, LeftIsHost
      <3>2. removed.live["wpcron"] = 0 /\ removed.internal = spoken.internal
        BY <1>1, <3>1, LiveIs
      <3> QED BY <2>1, <3>2
    <2> HIDE DEF removed
    <2>4. gone \in D
      BY <1>1, <2>2, <2>3, LeftStays
    <2>5. gone.kept["wpcron"] = 0 /\ gone.live["wpcron"] = 0 /\ gone.internal = TRUE
      <3>1. removed \in HostConf
        BY <2>2, LeftIsHost
      <3>2. gone.kept["wpcron"] = 0 /\ gone.live = removed.live /\ gone.internal = removed.internal
        BY <1>1, <3>1, KeepIs
      <3> QED BY <2>3, <3>2
    <2>6. S!ApplyWordPressCronReplacement(c, job)
             = S!Plan(<<S!Step(spoken, c), S!Step(removed, spoken), S!Step(gone, removed)>>)
      BY <1>4 DEF S!ApplyWordPressCronReplacement, spoken, removed
    <2> HIDE DEF gone
    <2>7. Leads(c, S!ApplyWordPressCronReplacement(c, job), D, gone, "done")
      BY <2>1, <2>2, <2>4, <2>6, PlanOfThree
    <2>8. Applied(gone, "wpcron")
      BY <1>1, <1>4, <2>5 DEF Applied
    <2> QED BY <2>7, <2>8
  <1>5. CASE webSite.status \in {"active", "disabled"} /\ w # 0
    <2> DEFINE first     == IF webSite.status = "active"
                            THEN S!Then(c, save, LAMBDA d : S!InstallCron(d, "wpcron")) ELSE save
               silent(d) == S!setWPInternalCron(d, TRUE)
               back(d)   == IF webSite.status = "active" THEN S!Live(d, "wpcron", 0) ELSE d
               silence(d) == S!Plan(<<S!Step(silent(d), back(d))>>)
    <2>1. saved \in D
      BY <1>1, <1>5, LeftStays
    <2>2. saved \in HostConf /\ saved.kept["wpcron"] = w
      BY <1>1, <1>2, KeepIs
    <2>3. Leads(c, save, D, saved, "done")
      <3> HIDE DEF saved
      <3> QED BY <2>1, PlanOfOne
    <2>4. S!After(c, save) = saved /\ save.end = "done"
      BY <2>3 DEF Leads, save, S!Plan
    <2> HIDE DEF saved, save
    <2>5. \E d, end : /\ Leads(c, first, D, d, end)
                      /\ end = "done" => d.kept["wpcron"] = w /\ (webSite.status = "active" => d.live["wpcron"] = w)
      <3>1. CASE webSite.status = "active"
        <4> DEFINE q == S!InstallCron(saved, "wpcron")
        <4>1. S!Live(saved, "wpcron", w) \in D
          BY <1>1, <1>5, <2>1, <2>2, <3>1, LeftStays
        <4>2. [saved EXCEPT !.strays = @ \cup {"wpcron"}] \in D
          BY <1>1, <2>1, LeftStays
        <4>3. PICK d, end : Leads(saved, q, D, d, end) /\ (end = "done" => d = S!Live(saved, "wpcron", w))
          BY <1>1, <1>2, <2>1, <2>2, <4>1, <4>2, InstallPlan
        <4> HIDE DEF q
        <4>4. Leads(c, [steps |-> save.steps \o q.steps, end |-> q.end], D, d, end)
          BY <2>3, <4>3, ThenLeads
        <4>5. S!Then(c, save, LAMBDA z : S!InstallCron(z, "wpcron")) = [steps |-> save.steps \o q.steps, end |-> q.end]
          BY <2>4, Zenon DEF S!Then, q
        <4>6. Leads(c, first, D, d, end)
          BY <3>1, <4>4, <4>5
        <4>7. S!Live(saved, "wpcron", w).live["wpcron"] = w /\ S!Live(saved, "wpcron", w).kept = saved.kept
          BY <1>1, <2>2, LiveIs
        <4> HIDE DEF first
        <4> QED BY <2>2, <4>3, <4>6, <4>7
      <3>2. CASE webSite.status # "active"
        <4>1. first = save
          BY <3>2
        <4> HIDE DEF first
        <4> QED BY <2>2, <2>3, <3>2, <4>1
      <3> QED BY <3>1, <3>2
    <2>6. PICK d, end : /\ Leads(c, first, D, d, end)
                        /\ end = "done" => d.kept["wpcron"] = w /\ (webSite.status = "active" => d.live["wpcron"] = w)
      BY <2>5
    <2>7. d \in D /\ first.end = end /\ S!After(c, first) = d
      BY <2>6 DEF Leads
    <2>8. S!ApplyWordPressCronReplacement(c, job) = S!Then(c, first, silence)
      BY <1>5 DEF S!ApplyWordPressCronReplacement, save, saved
    <2> HIDE DEF first
    <2>9. CASE end # "done"
      <3>1. S!Then(c, first, silence) = first
        BY <2>7, <2>9 DEF S!Then
      <3> QED BY <2>6, <2>8, <2>9, <3>1
    <2>10. CASE end = "done"
      <3> DEFINE q == silence(d)
      <3>1. silent(d) \in D /\ back(d) \in D
        BY <1>1, <2>7, LeftStays
      <3>2. /\ silent(d).kept = d.kept /\ silent(d).live = d.live /\ silent(d).internal # TRUE
        BY <2>7, LeftIsHost, InternalIs
      <3>3. webSite.status = "disabled" => d.live["wpcron"] = 0
        BY <2>7 DEF LeftBy
      <3>4. S!Then(c, first, silence) = [steps |-> first.steps \o q.steps, end |-> q.end]
        <4> HIDE DEF silence
        <4> QED BY <2>7, <2>10, Zenon DEF S!Then
      <3> HIDE DEF silent, back
      <3>5. Leads(d, q, D, silent(d), "done")
        BY <2>7, <3>1, PlanOfOne
      <3> HIDE DEF q, silence
      <3>6. Leads(c, [steps |-> first.steps \o q.steps, end |-> q.end], D, silent(d), "done")
        BY <2>6, <2>10, <3>5, ThenLeads
      <3>7. Applied(silent(d), "wpcron")
        BY <1>1, <1>5, <2>6, <2>10, <3>2, <3>3 DEF Applied
      <3> QED BY <2>8, <3>4, <3>6, <3>7
    <2> QED BY <2>9, <2>10
  <1> QED BY <1>3, <1>4, <1>5

\* What the worker's call for one setting leaves.
LEMMA SettingIsServed ==
  ASSUME SettingsInv, NEW job \in SettingJob, job.kind \in All, RowIsOpen(job.kind),
         job.want = row[job.kind].want, job.kind = "node" => webSite.status = "active"
  PROVE  \E d, end : /\ Leads(conf, S!Call(conf, job), LeftBy(conf, job.kind), d, end)
                     /\ end = "done" => Served(d, job)
  <1>1. conf \in LeftBy(conf, job.kind)
    BY LeftAsFound
  <1>2. SettingTypes /\ job.action \in {"apply", "delete"} /\ (job.action = "delete" => job.kind \in {"cron", "ftp"})
    BY DEF SettingsInv, SettingJob
  <1>3. CASE job.kind = "cron"
    <2>1. S!Call(conf, job) = S!ApplyCronSchedule(conf, job)
      BY <1>3 DEF S!Call
    <2> QED BY <1>1, <1>2, <1>3, <2>1, CronIsApplied
  <1>4. CASE job.kind = "wpcron"
    <2>1. S!Call(conf, job) = S!ApplyWordPressCronReplacement(conf, job)
      BY <1>4 DEF S!Call
    <2>2. PICK d, end : /\ Leads(conf, S!ApplyWordPressCronReplacement(conf, job), LeftBy(conf, "wpcron"), d, end)
                        /\ end = "done" => Applied(d, "wpcron")
      BY <1>1, <1>2, <1>4, WordPressCronIsApplied
    <2> QED BY <1>2, <1>4, <2>1, <2>2 DEF Served
  <1>5. CASE job.kind = "access"
    <2>1. S!Call(conf, job) = S!ApplySiteAccess(conf, row["access"].want)
      BY <1>5 DEF S!Call
    <2>2. PICK d, end : /\ Leads(conf, S!ApplySiteAccess(conf, row["access"].want), LeftBy(conf, "access"), d, end)
                        /\ end = "done" => Applied(d, "access")
      BY <1>1, <1>2, <1>5, AccessIsApplied
    <2> QED BY <1>2, <1>5, <2>1, <2>2 DEF Served
  <1>6. CASE job.kind = "security"
    <2>1. S!Call(conf, job) = S!applySecurity(conf, row["security"].want)
      BY <1>6 DEF S!Call
    <2>2. PICK d, end : /\ Leads(conf, S!applySecurity(conf, row["security"].want), LeftBy(conf, "security"), d, end)
                        /\ end = "done" => Applied(d, "security")
      BY <1>1, <1>2, <1>6, SecurityIsApplied
    <2> QED BY <1>2, <1>6, <2>1, <2>2 DEF Served
  <1>7. CASE job.kind = "node"
    <2>1. S!Call(conf, job) = S!ApplyNodeRuntime(conf, row["node"].want)
      BY <1>7 DEF S!Call
    <2>2. PICK d, end : /\ Leads(conf, S!ApplyNodeRuntime(conf, row["node"].want), LeftBy(conf, "node"), d, end)
                        /\ end = "done" => Applied(d, "node")
      BY <1>1, <1>2, <1>7, NodeIsApplied
    <2> QED BY <1>2, <1>7, <2>1, <2>2 DEF Served
  <1>8. CASE job.kind = "ftp" /\ job.action = "delete"
    <2>1. S!Call(conf, job) = S!DeleteFTPUser(conf)
      BY <1>8 DEF S!Call
    <2>2. PICK d, end : Leads(conf, S!DeleteFTPUser(conf), LeftBy(conf, "ftp"), d, end) /\ Gone(d, "ftp")
      BY <1>1, <1>2, <1>8, FTPIsDeleted
    <2> QED BY <1>8, <2>1, <2>2 DEF Served
  <1>9. CASE job.kind = "ftp" /\ job.action # "delete"
    <2>1. S!Call(conf, job) = S!ApplyFTPUser(conf, row["ftp"].want)
      BY <1>9 DEF S!Call
    <2>2. PICK d, end : /\ Leads(conf, S!ApplyFTPUser(conf, row["ftp"].want), LeftBy(conf, "ftp"), d, end)
                        /\ end = "done" => Applied(d, "ftp")
      BY <1>1, <1>2, <1>9, FTPIsApplied
    <2> QED BY <1>9, <2>1, <2>2 DEF Served
  <1> QED BY <1>3, <1>4, <1>5, <1>6, <1>7, <1>8, <1>9, SettingKindsListed

-----------------------------------------------------------------------------
(* Disabling and enabling.  Every host they leave fits the rows.           *)

\* Nginx is reloaded.
LEMMA TrafficPlan ==
  ASSUME SettingTypes, NEW c \in Fitting
  PROVE  Leads(c, S!Traffic(c), Fitting, S!Reload(c), "done")
  BY ReloadedFits, PlanOfOne DEF S!Traffic

\* One schedule of a site that is enabled or disabled.
OneCron(d, k, enabled) ==
    IF d.kept[k] = 0 THEN S!Plan(<<>>)
    ELSE IF enabled THEN S!secureSetCronTarget(d, k) ELSE S!RemoveTarget(d, k)

LEMMA CronsAreSwitched ==
  ASSUME NEW c, NEW enabled \in BOOLEAN
  PROVE  S!SetSiteCronEnabled(c, enabled) =
            S!Then(c, OneCron(c, "cron", enabled), LAMBDA d : OneCron(d, "wpcron", enabled))
  BY DEF S!SetSiteCronEnabled, OneCron

LEMMA OneCronStops ==
  ASSUME SettingTypes, NEW c \in Fitting, NEW k \in S!Cron
  PROVE  \E d : /\ Leads(c, OneCron(c, k, FALSE), Fitting, d, "done")
                /\ (k = "wpcron" \/ row[k].status = "active") => d.live[k] = 0
                /\ \A q \in All \ {k} : d.live[q] = c.live[q]
  <1>1. k \in S!Runs /\ k \in All /\ k # "ftp" /\ 0 \in 0..3 /\ c \in HostConf /\ FitsRow(c, k)
    BY SettingKindsListed DEF Fitting
  <1>2. CASE c.kept[k] = 0
    <2>1. OneCron(c, k, FALSE) = S!Plan(<<>>)
      BY <1>2 DEF OneCron
    <2>2. (k = "wpcron" \/ row[k].status = "active") => c.live[k] = 0
      BY <1>1, <1>2 DEF FitsRow
    <2> QED BY <2>1, <2>2, ShortPlans
  <1>3. CASE c.kept[k] # 0
    <2> DEFINE new == S!Live(c, k, 0)
    <2>1. OneCron(c, k, FALSE) = S!Plan(<<S!Step(new, c)>>)
      BY <1>3 DEF OneCron, S!RemoveTarget
    <2>2. new \in Fitting
      BY <1>1, StoppedFits
    <2>3. new.live[k] = 0 /\ \A q \in All \ {k} : new.live[q] = c.live[q]
      BY <1>1, LiveIs
    <2> HIDE DEF new
    <2>4. Leads(c, OneCron(c, k, FALSE), Fitting, new, "done")
      BY <2>1, <2>2, PlanOfOne
    <2> QED BY <2>3, <2>4
  <1> QED BY <1>2, <1>3

LEMMA OneCronStarts ==
  ASSUME SettingTypes, NEW c \in Fitting, NEW k \in S!Cron
  PROVE  \E d, end : /\ Leads(c, OneCron(c, k, TRUE), Fitting, d, end)
                     /\ end = "done" => /\ row[k].status = "active" => d.live[k] = row[k].want
                                        /\ \A q \in All \ {k} : d.live[q] = c.live[q]
  <1>1. k \in All /\ k # "ftp" /\ c \in HostConf /\ FitsRow(c, k) /\ Fitting \in SUBSET HostConf /\ c.kept[k] \in 0..3
    BY SettingKindsListed DEF Fitting, HostConf
  <1>2. CASE c.kept[k] = 0
    <2>1. OneCron(c, k, TRUE) = S!Plan(<<>>)
      BY <1>2 DEF OneCron
    <2>2. row[k].status = "active" => c.live[k] = row[k].want
      BY <1>1, <1>2 DEF FitsRow
    <2> QED BY <2>1, <2>2, ShortPlans
  <1>3. CASE c.kept[k] # 0
    <2>1. OneCron(c, k, TRUE) = S!secureSetCronTarget(c, k)
      BY <1>3 DEF OneCron
    <2>2. [c EXCEPT !.strays = @ \cup {k}] \in Fitting /\ S!Live(c, k, c.kept[k]) \in Fitting
      BY StrayFits, StartedFits
    <2>3. PICK d, end : /\ Leads(c, S!secureSetCronTarget(c, k), Fitting, d, end)
                        /\ end = "done" => d = S!Live(c, k, c.kept[k])
      BY <1>1, <2>2, TargetPlan
    <2>4. /\ S!Live(c, k, c.kept[k]).live[k] = c.kept[k]
          /\ \A q \in All \ {k} : S!Live(c, k, c.kept[k]).live[q] = c.live[q]
      BY <1>1, LiveIs
    <2>5. row[k].status = "active" => c.kept[k] = row[k].want
      BY <1>1 DEF FitsRow
    <2>6. ASSUME end = "done"
          PROVE  /\ row[k].status = "active" => d.live[k] = row[k].want
                 /\ \A q \in All \ {k} : d.live[q] = c.live[q]
      BY <2>3, <2>4, <2>5, <2>6
    <2>7. Leads(c, OneCron(c, k, TRUE), Fitting, d, end)
      BY <2>1, <2>3
    <2> QED BY <2>6, <2>7, Zenon
  <1> QED BY <1>2, <1>3

\* Both schedules.
LEMMA CronsStop ==
  ASSUME SettingTypes, NEW c \in Fitting
  PROVE  \E d : /\ Leads(c, S!SetSiteCronEnabled(c, FALSE), Fitting, d, "done")
                /\ d.live["wpcron"] = 0
                /\ \A k \in S!Cron : row[k].status = "active" => d.live[k] = 0
  <1>1. "cron" \in S!Cron /\ "wpcron" \in S!Cron /\ S!Cron = {"cron", "wpcron"} /\ S!Cron \subseteq All
    BY SettingKindsListed
  <1> DEFINE p == OneCron(c, "cron", FALSE)
  <1>2. PICK d : /\ Leads(c, p, Fitting, d, "done")
                 /\ row["cron"].status = "active" => d.live["cron"] = 0
    BY <1>1, OneCronStops
  <1> DEFINE q == OneCron(d, "wpcron", FALSE)
  <1>3. d \in Fitting /\ S!After(c, p) = d /\ p.end = "done"
    BY <1>2 DEF Leads
  <1>4. PICK f : /\ Leads(d, q, Fitting, f, "done") /\ f.live["wpcron"] = 0
                 /\ \A k \in All \ {"wpcron"} : f.live[k] = d.live[k]
    <2>1. \E f : /\ Leads(d, OneCron(d, "wpcron", FALSE), Fitting, f, "done")
                 /\ ("wpcron" = "wpcron" \/ row["wpcron"].status = "active") => f.live["wpcron"] = 0
                 /\ \A k \in All \ {"wpcron"} : f.live[k] = d.live[k]
      BY <1>1, <1>3, OneCronStops, Zenon
    <2> QED BY <2>1, Zenon
  <1> HIDE DEF p
  <1>5. S!Then(c, p, LAMBDA z : OneCron(z, "wpcron", FALSE)) = [steps |-> p.steps \o q.steps, end |-> q.end]
    BY <1>3, Zenon DEF S!Then, q
  <1>6. S!SetSiteCronEnabled(c, FALSE) = S!Then(c, p, LAMBDA z : OneCron(z, "wpcron", FALSE))
    BY CronsAreSwitched DEF p
  <1> HIDE DEF q
  <1>7. Leads(c, [steps |-> p.steps \o q.steps, end |-> q.end], Fitting, f, "done")
    BY <1>2, <1>4, ThenLeads
  <1>8. row["cron"].status = "active" => f.live["cron"] = 0
    <2>1. "cron" \in All \ {"wpcron"}
      BY <1>1
    <2> QED BY <1>2, <1>4, <2>1
  <1>9. \A k \in S!Cron : row[k].status = "active" => f.live[k] = 0
    BY <1>1, <1>4, <1>8
  <1>10. Leads(c, S!SetSiteCronEnabled(c, FALSE), Fitting, f, "done")
    BY <1>5, <1>6, <1>7
  <1> QED BY <1>4, <1>9, <1>10, Zenon

LEMMA CronsStart ==
  ASSUME SettingTypes, NEW c \in Fitting
  PROVE  \E d, end : /\ Leads(c, S!SetSiteCronEnabled(c, TRUE), Fitting, d, end)
                     /\ end = "done" => \A k \in S!Cron : row[k].status = "active" => d.live[k] = row[k].want
  <1>1. "cron" \in S!Cron /\ "wpcron" \in S!Cron /\ S!Cron = {"cron", "wpcron"} /\ S!Cron \subseteq All
    BY SettingKindsListed
  <1> DEFINE p == OneCron(c, "cron", TRUE)
  <1>2. PICK d, end : /\ Leads(c, p, Fitting, d, end)
                      /\ end = "done" /\ row["cron"].status = "active" => d.live["cron"] = row["cron"].want
    <2>1. \E d, end : /\ Leads(c, OneCron(c, "cron", TRUE), Fitting, d, end)
                      /\ end = "done" => /\ row["cron"].status = "active" => d.live["cron"] = row["cron"].want
                                         /\ \A k \in All \ {"cron"} : d.live[k] = c.live[k]
      BY <1>1, OneCronStarts
    <2> QED BY <2>1, Zenon
  <1> DEFINE q == OneCron(d, "wpcron", TRUE)
  <1>3. d \in Fitting /\ S!After(c, p) = d /\ p.end = end
    BY <1>2 DEF Leads
  <1>4. PICK f, last2 : /\ Leads(d, q, Fitting, f, last2)
                        /\ last2 = "done" => /\ row["wpcron"].status = "active" => f.live["wpcron"] = row["wpcron"].want
                                             /\ \A k \in All \ {"wpcron"} : f.live[k] = d.live[k]
    BY <1>1, <1>3, OneCronStarts
  <1> HIDE DEF p
  <1>5. S!SetSiteCronEnabled(c, TRUE) = S!Then(c, p, LAMBDA z : OneCron(z, "wpcron", TRUE))
    BY CronsAreSwitched DEF p
  <1>6. CASE end # "done"
    <2>1. S!Then(c, p, LAMBDA z : OneCron(z, "wpcron", TRUE)) = p
      BY <1>3, <1>6, Zenon DEF S!Then
    <2> QED BY <1>2, <1>5, <1>6, <2>1
  <1>7. CASE end = "done"
    <2>1. S!Then(c, p, LAMBDA z : OneCron(z, "wpcron", TRUE)) = [steps |-> p.steps \o q.steps, end |-> q.end]
      BY <1>3, <1>7, Zenon DEF S!Then, q
    <2> HIDE DEF q
    <2>2. Leads(c, [steps |-> p.steps \o q.steps, end |-> q.end], Fitting, f, last2)
      BY <1>2, <1>4, <1>7, ThenLeads
    <2>3. ASSUME last2 = "done"
          PROVE  \A k \in S!Cron : row[k].status = "active" => f.live[k] = row[k].want
      BY <1>1, <1>2, <1>4, <1>7, <2>3
    <2> QED BY <1>5, <2>1, <2>2, <2>3
  <1> QED BY <1>6, <1>7

\* The application and the accounts of a site that is disabled.
LEMMA HostingStops ==
  ASSUME SettingTypes, NEW c \in Fitting
  PROVE  \E d : /\ Leads(c, S!stopSiteHostingLocked(c), Fitting, d, "done")
                /\ \A k \in {"node", "ftp"} : row[k].status = "active" => d.live[k] = 0
                /\ \A k \in S!Cron : d.live[k] = c.live[k]
  <1> DEFINE quiet == IF c.kept["node"] = 0 THEN c ELSE S!Live(c, "node", 0)
             new   == S!Live(quiet, "ftp", 0)
  <1>1. /\ "node" \in S!Runs /\ "ftp" \in S!Runs /\ "node" \in All /\ "ftp" \in All /\ 0 \in 0..3
        /\ S!Cron \subseteq All \ {"node", "ftp"} /\ c \in HostConf /\ FitsRow(c, "node")
    BY SettingKindsListed DEF Fitting
  <1>2. quiet \in Fitting
    BY <1>1, StoppedFits
  <1>3. /\ row["node"].status = "active" => quiet.live["node"] = 0
        /\ \A k \in S!Cron : quiet.live[k] = c.live[k]
    <2>1. CASE c.kept["node"] = 0
      BY <1>1, <2>1 DEF FitsRow
    <2>2. CASE c.kept["node"] # 0
      <3>1. quiet = S!Live(c, "node", 0)
        BY <2>2
      <3> HIDE DEF quiet
      <3>2. S!Live(c, "node", 0).live["node"] = 0 /\ \A k \in All \ {"node"} : S!Live(c, "node", 0).live[k] = c.live[k]
        BY <1>1, LiveIs
      <3> QED BY <1>1, <3>1, <3>2
    <2> QED BY <2>1, <2>2
  <1>4. S!stopSiteHostingLocked(c) = S!Plan(<<S!Step(quiet, c), S!Step(new, quiet)>>)
    BY DEF S!stopSiteHostingLocked
  <1> HIDE DEF quiet
  <1>5. new \in Fitting
    BY <1>1, <1>2, StoppedFits
  <1>6. new.live["ftp"] = 0 /\ \A k \in All \ {"ftp"} : new.live[k] = quiet.live[k]
    <2>1. quiet \in HostConf
      BY <1>2 DEF Fitting
    <2> QED BY <1>1, <2>1, LiveIs
  <1> HIDE DEF new
  <1>7. Leads(c, S!stopSiteHostingLocked(c), Fitting, new, "done")
    BY <1>2, <1>4, <1>5, ShortPlans
  <1> QED BY <1>1, <1>3, <1>6, <1>7

\* A disabled site runs none of what it can stop.
LEMMA DisableStops ==
  ASSUME SettingTypes, NEW c \in Fitting
  PROVE  \E d : /\ Leads(c, S!Disable(c), Fitting, d, "done")
                /\ d.live["wpcron"] = 0
                /\ \A k \in S!Runs : row[k].status = "active" => d.live[k] = 0
  <1> DEFINE p1 == S!Traffic(c)
             c1 == S!Reload(c)
             p2 == S!SetSiteCronEnabled(c1, FALSE)
             p  == S!Then(c, p1, LAMBDA z : S!SetSiteCronEnabled(z, FALSE))
  <1>1. Leads(c, p1, Fitting, c1, "done") /\ c1 \in Fitting
    BY TrafficPlan, ReloadedFits
  <1>2. S!After(c, p1) = c1 /\ p1.end = "done"
    BY <1>1 DEF Leads
  <1>3. PICK d : /\ Leads(c1, p2, Fitting, d, "done") /\ d.live["wpcron"] = 0
                 /\ \A k \in S!Cron : row[k].status = "active" => d.live[k] = 0
    <2> HIDE DEF c1
    <2> QED BY <1>1, CronsStop
  <1> HIDE DEF p1, c1
  <1>4. p = [steps |-> p1.steps \o p2.steps, end |-> p2.end]
    BY <1>2, Zenon DEF S!Then, p2
  <1> HIDE DEF p2, p
  <1>5. Leads(c, [steps |-> p1.steps \o p2.steps, end |-> p2.end], Fitting, d, "done")
    BY <1>1, <1>3, ThenLeads
  <1>6. Leads(c, p, Fitting, d, "done")
    BY <1>4, <1>5
  <1>7. d \in Fitting /\ S!After(c, p) = d /\ p.end = "done"
    BY <1>6 DEF Leads
  <1> DEFINE q == S!stopSiteHostingLocked(d)
  <1>8. PICK f : /\ Leads(d, q, Fitting, f, "done")
                 /\ \A k \in {"node", "ftp"} : row[k].status = "active" => f.live[k] = 0
                 /\ \A k \in S!Cron : f.live[k] = d.live[k]
    BY <1>7, HostingStops
  <1>9. S!Then(c, p, S!stopSiteHostingLocked) = [steps |-> p.steps \o q.steps, end |-> q.end]
    BY <1>7, Zenon DEF S!Then, q
  <1>10. S!Disable(c) = S!Then(c, p, S!stopSiteHostingLocked)
    BY Zenon DEF S!Disable, p, p1
  <1> HIDE DEF q
  <1>11. Leads(c, [steps |-> p.steps \o q.steps, end |-> q.end], Fitting, f, "done")
    BY <1>6, <1>8, ThenLeads
  <1>12. f.live["wpcron"] = 0 /\ \A k \in S!Runs : row[k].status = "active" => f.live[k] = 0
    BY <1>3, <1>8, SettingKindsListed
  <1> QED BY <1>9, <1>10, <1>11, <1>12

\* The application of a site that is enabled: its files may be written again.
LEMMA NodeStarts ==
  ASSUME SettingTypes, NEW c \in Fitting
  PROVE  row["node"].status # "none" =>
           \E d : /\ Leads(c, S!ApplyNodeRuntime(c, row["node"].want), Fitting, d, "done")
                  /\ d.live["node"] = row["node"].want
                  /\ \A k \in S!Cron : d.live[k] = c.live[k]
  <1> DEFINE w       == row["node"].want
             stopped == S!Live(c, "node", 0)
             written == S!Keep(stopped, "node", w)
             again   == IF c.kept["node"] = 0 THEN written ELSE S!Live(c, "node", c.kept["node"])
             former  == IF c.kept["node"] = 0 THEN c ELSE again
             new     == S!Live(written, "node", w)
  <1> SUFFICES ASSUME row["node"].status # "none"
               PROVE  \E d : /\ Leads(c, S!ApplyNodeRuntime(c, w), Fitting, d, "done")
                             /\ d.live["node"] = w
                             /\ \A k \in S!Cron : d.live[k] = c.live[k]
    OBVIOUS
  <1>1. /\ "node" \in All /\ "node" \in S!Runs /\ "node" \in S!Cron \cup {"node"} /\ w \in 0..3 /\ 0 \in 0..3
        /\ S!Cron \subseteq All \ {"node"} /\ c \in HostConf
    BY SettingKindsListed DEF SettingTypes, Fitting
  <1>2. stopped \in Fitting
    BY <1>1, StoppedFits
  <1>3. stopped \in HostConf /\ \A k \in All \ {"node"} : stopped.live[k] = c.live[k]
    BY <1>1, LiveIs
  <1>4. S!ApplyNodeRuntime(c, w) = S!Plan(<<S!Step(stopped, c), S!Step(written, former), S!Step(new, again)>>)
    BY DEF S!ApplyNodeRuntime
  <1> HIDE DEF stopped
  <1>5. written \in HostConf /\ written.kept["node"] = w /\ written.live = stopped.live
    BY <1>1, <1>3, KeepIs
  <1>6. written \in Fitting
    <2>1. CASE RowIsOpen("node")
      BY <1>1, <1>2, <2>1, KeepFits
    <2>2. CASE row["node"].status = "active"
      <3>1. /\ written.kept["node"] = stopped.kept["node"] /\ written.internal = stopped.internal
            /\ \A k \in All \ {"node"} : written.kept[k] = stopped.kept[k]
        <4>1. FitsRow(stopped, "node")
          BY <1>1, <1>2 DEF Fitting
        <4>2. stopped.kept["node"] = w
          BY <2>2, <4>1 DEF FitsRow
        <4>3. /\ written.internal = stopped.internal
              /\ \A k \in All \ {"node"} : written.kept[k] = stopped.kept[k]
          BY <1>1, <1>3, KeepIs
        <4> QED BY <1>5, <4>2, <4>3
      <3> HIDE DEF written
      <3>2. ASSUME NEW k \in All
            PROVE  FitsRow(written, k)
        <4>1. FitsRow(stopped, k) /\ written.kept[k] = stopped.kept[k] /\ written.live[k] = stopped.live[k]
          BY <1>2, <1>5, <3>1 DEF Fitting
        <4> QED BY <3>1, <4>1 DEF FitsRow
      <3> QED BY <1>5, <3>2 DEF Fitting
    <2> QED BY <2>1, <2>2 DEF RowIsOpen
  <1> HIDE DEF written
  <1>7. again \in Fitting
    BY <1>1, <1>6, StartedFits
  <1>8. former \in Fitting
    BY <1>7
  <1>9. new \in Fitting
    <2>1. S!Live(written, "node", written.kept["node"]) \in Fitting
      BY <1>1, <1>6, StartedFits
    <2> QED BY <1>5, <2>1
  <1>10. new.live["node"] = w /\ \A k \in All \ {"node"} : new.live[k] = written.live[k]
    BY <1>1, <1>5, LiveIs
  <1> HIDE DEF again, former, new
  <1>11. Leads(c, S!ApplyNodeRuntime(c, w), Fitting, new, "done")
    <2>1. Leads(c, S!Plan(<<S!Step(stopped, c), S!Step(written, former), S!Step(new, again)>>), Fitting, new, "done")
      BY <1>2, <1>6, <1>7, <1>8, <1>9, PlanOfThree
    <2> QED BY <1>4, <2>1
  <1>12. \A k \in S!Cron : new.live[k] = c.live[k]
    BY <1>1, <1>3, <1>5, <1>10
  <1> QED BY <1>10, <1>11, <1>12

\* The hosting services of a site that is enabled: an account that is active is
\* refused, the site being on its way only.
NodePlan(c) == IF row["node"].status = "none" THEN S!Plan(<<>>) ELSE S!ApplyNodeRuntime(c, row["node"].want)
FTPPlan(c)  == IF row["ftp"].status = "active" THEN S!ApplyFTPUser(c, row["ftp"].want) ELSE S!Plan(<<>>)

LEMMA HostingStarts ==
  ASSUME SettingTypes, NEW c \in Fitting, webSite.status = "enabling"
  PROVE  \E d, end : /\ Leads(c, S!enableSiteHosting(c), Fitting, d, end)
                     /\ end = "done" => /\ row["ftp"].status # "active"
                                        /\ row["node"].status = "active" => d.live["node"] = row["node"].want
                                        /\ \A k \in S!Cron : d.live[k] = c.live[k]
  <1> DEFINE p == NodePlan(c)
  <1>1. PICK d : /\ Leads(c, p, Fitting, d, "done")
                 /\ row["node"].status = "active" => d.live["node"] = row["node"].want
                 /\ \A k \in S!Cron : d.live[k] = c.live[k]
    <2>1. CASE row["node"].status = "none"
      <3>1. p = S!Plan(<<>>)
        BY <2>1 DEF NodePlan
      <3> HIDE DEF p
      <3> QED BY <2>1, <3>1, ShortPlans
    <2>2. CASE row["node"].status # "none"
      <3>1. p = S!ApplyNodeRuntime(c, row["node"].want)
        BY <2>2 DEF NodePlan
      <3> HIDE DEF p
      <3> QED BY <2>2, <3>1, NodeStarts
    <2> QED BY <2>1, <2>2
  <1> DEFINE q == FTPPlan(d)
  <1>2. d \in Fitting /\ S!After(c, p) = d /\ p.end = "done"
    BY <1>1 DEF Leads
  <1>3. S!enableSiteHosting(c) = S!Then(c, p, FTPPlan)
    BY Zenon DEF S!enableSiteHosting, NodePlan, FTPPlan
  <1> HIDE DEF p
  <1>4. S!Then(c, p, FTPPlan) = [steps |-> p.steps \o q.steps, end |-> q.end]
    BY <1>2, Zenon DEF S!Then
  <1>5. \E end : Leads(d, q, Fitting, d, end) /\ (end = "done" => row["ftp"].status # "active")
    <2>1. CASE row["ftp"].status = "active"
      <3>1. q = S!Refused
        BY <2>1 DEF FTPPlan, S!ApplyFTPUser
      <3> HIDE DEF q
      <3>2. Leads(d, q, Fitting, d, "refused")
        BY <1>2, <3>1, ShortPlans
      <3> QED BY <3>2
    <2>2. CASE row["ftp"].status # "active"
      <3>1. q = S!Plan(<<>>)
        BY <2>2 DEF FTPPlan
      <3> HIDE DEF q
      <3>2. Leads(d, q, Fitting, d, "done")
        BY <1>2, <3>1, ShortPlans
      <3> QED BY <2>2, <3>2
    <2> QED BY <2>1, <2>2
  <1> HIDE DEF q
  <1>6. PICK end : Leads(d, q, Fitting, d, end) /\ (end = "done" => row["ftp"].status # "active")
    BY <1>5
  <1>7. Leads(c, [steps |-> p.steps \o q.steps, end |-> q.end], Fitting, d, end)
    BY <1>1, <1>6, ThenLeads
  <1>8. Leads(c, S!enableSiteHosting(c), Fitting, d, end)
    BY <1>3, <1>4, <1>7
  <1> QED BY <1>1, <1>6, <1>8

\* A site that was enabled runs what its rows say.
LEMMA EnableStarts ==
  ASSUME SettingTypes, NEW c \in Fitting, webSite.status = "enabling"
  PROVE  \E d, end : /\ Leads(c, S!Then(c, S!Provision(c), S!enableSiteHosting), Fitting, d, end)
                     /\ end = "done" => \A k \in All : row[k].status = "active" => d.live[k] = row[k].want
  <1> DEFINE p1 == S!Traffic(c)
             c1 == S!Reload(c)
             p2 == S!SetSiteCronEnabled(c1, TRUE)
             p  == S!Provision(c)
  <1>1. Leads(c, p1, Fitting, c1, "done") /\ c1 \in Fitting
    BY TrafficPlan, ReloadedFits
  <1>2. S!After(c, p1) = c1 /\ p1.end = "done"
    BY <1>1 DEF Leads
  <1>3. PICK d, end : /\ Leads(c1, p2, Fitting, d, end)
                      /\ end = "done" => \A k \in S!Cron : row[k].status = "active" => d.live[k] = row[k].want
    <2> HIDE DEF c1
    <2> QED BY <1>1, CronsStart
  <1>4. p = S!Then(c, p1, LAMBDA z : S!SetSiteCronEnabled(z, TRUE))
    BY Zenon DEF S!Provision, p1
  <1> HIDE DEF p1, c1, p
  <1>5. S!Then(c, p1, LAMBDA z : S!SetSiteCronEnabled(z, TRUE)) = [steps |-> p1.steps \o p2.steps, end |-> p2.end]
    BY <1>2, Zenon DEF S!Then, p2
  <1> HIDE DEF p2
  <1>6. Leads(c, [steps |-> p1.steps \o p2.steps, end |-> p2.end], Fitting, d, end)
    BY <1>1, <1>3, ThenLeads
  <1>7. Leads(c, p, Fitting, d, end)
    BY <1>4, <1>5, <1>6
  <1>8. d \in Fitting /\ S!After(c, p) = d /\ p.end = end
    BY <1>7 DEF Leads
  <1>9. CASE end # "done"
    <2>1. S!Then(c, p, S!enableSiteHosting) = p
      BY <1>8, <1>9, Zenon DEF S!Then
    <2> QED BY <1>7, <1>9, <2>1 DEF p
  <1>10. CASE end = "done"
    <2> DEFINE q == S!enableSiteHosting(d)
    <2>1. PICK f, last2 :
             /\ Leads(d, q, Fitting, f, last2)
             /\ last2 = "done" => /\ row["ftp"].status # "active"
                                  /\ row["node"].status = "active" => f.live["node"] = row["node"].want
                                  /\ \A k \in S!Cron : f.live[k] = d.live[k]
      BY <1>8, HostingStarts
    <2>2. S!Then(c, p, S!enableSiteHosting) = [steps |-> p.steps \o q.steps, end |-> q.end]
      BY <1>8, <1>10, Zenon DEF S!Then, q
    <2> HIDE DEF q
    <2>3. Leads(c, [steps |-> p.steps \o q.steps, end |-> q.end], Fitting, f, last2)
      BY <1>7, <1>10, <2>1, ThenLeads
    <2>4. ASSUME last2 = "done", NEW k \in All, row[k].status = "active"
          PROVE  f.live[k] = row[k].want
      <3>1. f \in Fitting
        BY <2>1 DEF Leads
      <3>2. CASE k \in S!Nginx
        BY <2>4, <3>1, <3>2 DEF Fitting, FitsRow
      <3>3. CASE k \in S!Cron
        BY <1>3, <1>10, <2>1, <2>4, <3>3
      <3>4. CASE k \in {"node", "ftp"}
        BY <2>1, <2>4, <3>4
      <3> QED BY <3>2, <3>3, <3>4, SettingKindsListed
    <2>5. Leads(c, S!Then(c, p, S!enableSiteHosting), Fitting, f, last2)
      BY <2>2, <2>3
    <2> QED BY <2>4, <2>5 DEF p
  <1> QED BY <1>9, <1>10

-----------------------------------------------------------------------------
(* The invariant.  Requests add a job to an open row, the worker takes the *)
(* first job and settles its row.                                          *)

LEMMA SettingsStart ==
  ASSUME S!SettingsInit
  PROVE  SettingsInv
  <1>1. /\ webSite \in [kind : {"wordpress", "proxy"}, status : {"active"}] /\ queue = <<>>
        /\ row = [k \in All |-> [status |-> "none", want |-> 0]]
        /\ conf = [kept |-> [k \in All |-> 0], live |-> [k \in All |-> 0], internal |-> TRUE, strays |-> {}]
    BY DEF S!SettingsInit, All
  <1>2. conf \in HostConf /\ \A k \in All : conf.kept[k] = 0 /\ conf.live[k] = 0 /\ row[k].status = "none"
    BY <1>1 DEF HostConf
  <1>3. SettingTypes
    <2>1. row \in [All -> [status : SettingStatuses, want : 0..2]]
      BY <1>1 DEF SettingStatuses
    <2> QED BY <1>1, <1>2, <2>1 DEF SettingTypes
  <1>4. SettingsWait
    BY <1>1 DEF SettingsWait
  <1>5. conf \in Fitting
    BY <1>2 DEF Fitting, FitsRow
  <1>6. SiteTells(conf)
    BY <1>1, <1>2 DEF SiteTells
  <1> QED BY <1>3, <1>4, <1>5, <1>6 DEF SettingsInv

\* The same host fits when a row is opened.
LEMMA AskKeeps ==
  ASSUME SettingsInv, NEW k \in All, NEW action \in {"apply", "delete"}, NEW want \in 0..2,
         action = "delete" => k \in {"cron", "ftp"}, k = "node" => webSite.status = "active",
         \A i \in 1..Len(queue) : queue[i].kind # k, NEW status,
         status = IF action = "delete" THEN "pending_delete" ELSE "pending", S!Ask(k, action, status, want)
  PROVE  SettingsInv'
  <1> DEFINE job == [kind |-> k, action |-> action, want |-> want]
             new == [status |-> status, want |-> want]
  <1>1. /\ row' = [row EXCEPT ![k] = new] /\ queue' = Append(queue, job)
        /\ webSite' = webSite /\ conf' = conf
    BY DEF S!Ask
  <1>2. SettingTypes /\ SettingsWait /\ conf \in Fitting /\ SiteTells(conf)
    BY DEF SettingsInv
  <1>3. job \in SettingJob /\ job.kind = k /\ job.action = action /\ job.want = want
    BY DEF SettingJob
  <1>4. new \in [status : SettingStatuses, want : 0..2] /\ new.status = status /\ new.want = want
    BY DEF SettingStatuses
  <1> HIDE DEF job, new
  <1>5. /\ row' \in [All -> [status : SettingStatuses, want : 0..2]]
        /\ row'[k] = new /\ \A q \in All \ {k} : row'[q] = row[q]
    BY <1>1, <1>2, <1>4 DEF SettingTypes
  <1>6. /\ queue' \in Seq(SettingJob) /\ Len(queue') = Len(queue) + 1 /\ Len(queue) \in Nat
        /\ queue'[Len(queue) + 1] = job /\ \A i \in 1..Len(queue) : queue'[i] = queue[i]
    BY <1>1, <1>2, <1>3 DEF SettingTypes
  <1>7. SettingTypes'
    BY <1>1, <1>2, <1>5, <1>6 DEF SettingTypes, HostConf, SettingJob
  <1>8. SettingsWait'
    <2>1. ASSUME NEW i \in 1..Len(queue'), NEW j \in 1..Len(queue'), queue'[i].kind = queue'[j].kind
          PROVE  i = j
      <3>1. /\ i \in 1..Len(queue) \/ i = Len(queue) + 1
            /\ j \in 1..Len(queue) \/ j = Len(queue) + 1
        BY <1>6
      <3> QED BY <1>2, <1>3, <1>6, <2>1, <3>1 DEF SettingsWait
    <2>2. ASSUME NEW i \in 1..Len(queue')
          PROVE  LET q == queue'[i].kind IN
                   /\ q \in All => /\ row'[q].status = IF queue'[i].action = "delete" THEN "pending_delete" ELSE "pending"
                                   /\ row'[q].want = queue'[i].want
                   /\ q \notin All => i = 1
                   /\ q = "disable" => webSite'.status = "disabling"
                   /\ q = "enable" => webSite'.status = "enabling"
                   /\ q = "node" => webSite'.status = "active"
      <3>1. CASE i = Len(queue) + 1
        <4>1. k \notin {"disable", "enable"}
          BY SettingKindsListed
        <4> QED BY <1>1, <1>3, <1>4, <1>5, <1>6, <3>1, <4>1
      <3>2. CASE i \in 1..Len(queue)
        <4>1. queue'[i] = queue[i] /\ queue[i].kind # k
          BY <1>6, <3>2
        <4>2. queue[i].kind \in All => row'[queue[i].kind] = row[queue[i].kind]
          BY <1>5, <4>1
        <4> QED BY <1>1, <1>2, <3>2, <4>1, <4>2 DEF SettingsWait
      <3> QED BY <1>6, <3>1, <3>2
    <2> QED BY <2>1, <2>2 DEF SettingsWait, All
  <1>9. status \notin {"none", "active"}
    OBVIOUS
  <1>10. conf' \in Fitting'
    <2>1. ASSUME NEW q \in All
          PROVE  FitsRow(conf, q)'
      <3>1. FitsRow(conf, q)
        BY <1>2 DEF Fitting
      <3>2. CASE q = k
        BY <1>1, <1>4, <1>5, <1>9, <3>1, <3>2 DEF FitsRow
      <3>3. CASE q # k
        <4>1. row'[q] = row[q]
          BY <1>5, <3>3
        <4> QED BY <1>1, <3>1, <4>1 DEF FitsRow
      <3> QED BY <3>2, <3>3
    <2>2. conf' \in HostConf
      BY <1>1, <1>2 DEF Fitting
    <2> QED BY <1>1, <2>1, <2>2 DEF Fitting, FitsRow, HostConf, All
  <1>11. SiteTells(conf)'
    <2>1. \A q \in All : row'[q].status = "active" => row'[q] = row[q]
      BY <1>4, <1>5, <1>9
    <2>2. S!Runs \subseteq All
      BY SettingKindsListed
    <2> QED BY <1>1, <1>2, <2>1, <2>2 DEF SiteTells, S!Runs, S!Cron, All
  <1> QED BY <1>7, <1>8, <1>10, <1>11 DEF SettingsInv

LEMMA TransitionKeeps ==
  ASSUME SettingsInv, S!Transition
  PROVE  SettingsInv'
  <1>1. PICK k \in {"disable", "enable"} :
           /\ queue = <<>> /\ row' = row /\ conf' = conf
           /\ webSite' = [webSite EXCEPT !.status = IF k = "disable" THEN "disabling" ELSE "enabling"]
           /\ queue' = Append(queue, [kind |-> k, action |-> "apply", want |-> 0])
    BY DEF S!Transition, S!enqueueSiteTransition, S!requireSiteIdle
  <1> DEFINE job == [kind |-> k, action |-> "apply", want |-> 0]
             status == IF k = "disable" THEN "disabling" ELSE "enabling"
  <1>2. SettingTypes /\ conf \in Fitting
    BY DEF SettingsInv
  <1>3. job \in SettingJob /\ job.kind = k /\ k \notin All
    BY SettingKindsListed DEF SettingJob
  <1>4. webSite'.status = status /\ webSite' \in [kind : {"wordpress", "proxy"},
           status : {"active", "disabling", "disabled", "disable_failed", "enabling", "enable_failed"}]
    BY <1>1, <1>2 DEF SettingTypes
  <1>5. queue' = <<job>> /\ queue' \in Seq(SettingJob) /\ Len(queue') = 1 /\ queue'[1] = job
    BY <1>1, <1>3
  <1> HIDE DEF job
  <1>6. SettingTypes'
    BY <1>1, <1>2, <1>4, <1>5 DEF SettingTypes, HostConf, SettingJob
  <1>7. SettingsWait'
    <2>1. \A i, j \in 1..Len(queue') : i = 1 /\ j = 1
      BY <1>5
    <2>2. /\ k # "node" /\ (k = "disable" => webSite'.status = "disabling")
          /\ (k = "enable" => webSite'.status = "enabling")
      BY <1>4
    <2> QED BY <1>3, <1>5, <2>1, <2>2 DEF SettingsWait, All
  <1>8. conf' \in Fitting'
    BY <1>1, <1>2 DEF Fitting, FitsRow, HostConf, All
  <1>9. SiteTells(conf)'
    BY <1>4 DEF SiteTells
  <1> QED BY <1>6, <1>7, <1>8, <1>9 DEF SettingsInv

\* What the end of a job does to the row of a setting, and to the site.
LEMMA RowIsFinished ==
  ASSUME SettingTypes, NEW job \in SettingJob, NEW ok \in BOOLEAN, job.kind \in All, S!FinishJob(job, ok)
  PROVE  /\ webSite' = webSite /\ queue' = Tail(queue)
         /\ row' \in [All -> [status : SettingStatuses, want : 0..2]]
         /\ \A k \in All \ {job.kind} : row'[k] = row[k]
         /\ ~ ok => row'[job.kind].status \in {"failed", "delete_failed"}
         /\ ok /\ job.action = "delete" => row'[job.kind].status = "none"
         /\ ok /\ job.action # "delete" =>
               row'[job.kind].status = "active" /\ row'[job.kind].want = row[job.kind].want
  <1> DEFINE k == job.kind
             failed == IF k = "ftp" /\ job.action = "delete" THEN "delete_failed" ELSE "failed"
             new == IF ~ ok THEN [row[k] EXCEPT !.status = failed]
                    ELSE IF job.action = "delete" THEN [status |-> "none", want |-> 0]
                    ELSE [row[k] EXCEPT !.status = "active"]
  <1>1. k \notin {"enable", "disable"}
    BY SettingKindsListed
  <1>2. queue' = Tail(queue) /\ webSite' = webSite /\ row' = [row EXCEPT ![k] = new]
    BY <1>1 DEF S!FinishJob
  <1>3. row[k] \in [status : SettingStatuses, want : 0..2]
    BY DEF SettingTypes
  <1>4. /\ new \in [status : SettingStatuses, want : 0..2]
        /\ ~ ok => new.status \in {"failed", "delete_failed"}
        /\ ok /\ job.action = "delete" => new.status = "none"
        /\ ok /\ job.action # "delete" => new.status = "active" /\ new.want = row[k].want
    BY <1>3 DEF SettingStatuses
  <1> HIDE DEF new
  <1>5. /\ row' \in [All -> [status : SettingStatuses, want : 0..2]]
        /\ row'[k] = new /\ \A q \in All \ {k} : row'[q] = row[q]
    BY <1>2, <1>4 DEF SettingTypes
  <1> QED BY <1>2, <1>4, <1>5

LEMMA SiteIsFinished ==
  ASSUME SettingTypes, NEW job \in SettingJob, NEW ok \in BOOLEAN, job.kind \notin All, S!FinishJob(job, ok)
  PROVE  /\ row' = row /\ queue' = Tail(queue)
         /\ webSite' \in [kind : {"wordpress", "proxy"},
               status : {"active", "disabling", "disabled", "disable_failed", "enabling", "enable_failed"}]
         /\ webSite'.status = IF job.kind = "enable" THEN IF ok THEN "active" ELSE "enable_failed"
                              ELSE IF ok THEN "disabled" ELSE "disable_failed"
  <1>1. job.kind \in {"enable", "disable"}
    BY DEF SettingJob
  <1>2. CASE job.kind = "enable"
    BY <1>2 DEF S!FinishJob, SettingTypes
  <1>3. CASE job.kind = "disable"
    BY <1>3 DEF S!FinishJob, SettingTypes
  <1> QED BY <1>1, <1>2, <1>3

\* The first job, and the ones that wait behind it.
LEMMA FirstJob ==
  ASSUME SettingTypes, SettingsWait, queue # <<>>
  PROVE  LET job == Head(queue) IN
         /\ job \in SettingJob
         /\ job.kind \in All => RowIsOpen(job.kind) /\ job.want = row[job.kind].want
         /\ job.kind = "node" => webSite.status = "active"
         /\ job.kind = "disable" => webSite.status = "disabling"
         /\ job.kind = "enable" => webSite.status = "enabling"
  <1>1. queue \in Seq(SettingJob) /\ Len(queue) >= 1 /\ Head(queue) = queue[1] /\ queue[1] \in SettingJob
    BY DEF SettingTypes
  <1>2. 1 \in 1..Len(queue)
    BY <1>1
  <1> QED BY <1>1, <1>2 DEF SettingsWait, RowIsOpen

LEMMA OthersWait ==
  ASSUME SettingTypes, SettingsWait, queue # <<>>, queue' = Tail(queue),
         \/ Head(queue).kind \in All /\ webSite' = webSite
         \/ Head(queue).kind \notin All,
         \A k \in All \ {Head(queue).kind} : row'[k] = row[k]
  PROVE  queue' \in Seq(SettingJob) /\ SettingsWait'
  <1> DEFINE job == Head(queue)
  <1>1. queue \in Seq(SettingJob) /\ Len(queue) \in Nat /\ Len(queue) >= 1 /\ job = queue[1]
    BY DEF SettingTypes
  <1>2. /\ queue' \in Seq(SettingJob) /\ Len(queue') = Len(queue) - 1
        /\ \A i \in 1..Len(queue') : queue'[i] = queue[i + 1] /\ i + 1 \in 1..Len(queue)
    BY <1>1
  <1>3. ASSUME NEW i \in 1..Len(queue')
        PROVE  /\ queue[i + 1].kind \in All /\ queue[i + 1].kind # job.kind
               /\ row'[queue[i + 1].kind] = row[queue[i + 1].kind]
    <2>1. i + 1 \in 1..Len(queue) /\ 1 \in 1..Len(queue) /\ i + 1 # 1
      BY <1>1, <1>2
    <2>2. queue[i + 1].kind \in All /\ queue[i + 1].kind # queue[1].kind
      BY <2>1 DEF SettingsWait
    <2> QED BY <1>1, <2>2
  <1> HIDE DEF job
  <1>4. \A i, j \in 1..Len(queue') : queue'[i].kind = queue'[j].kind => i = j
    <2> TAKE i, j \in 1..Len(queue')
    <2> HAVE queue'[i].kind = queue'[j].kind
    <2>1. i + 1 = j + 1
      BY <1>2 DEF SettingsWait
    <2> QED BY <1>1, <1>2, <2>1
  <1>5. ASSUME NEW i \in 1..Len(queue')
        PROVE  LET k == queue'[i].kind IN
                 /\ k \in All => /\ row'[k].status = IF queue'[i].action = "delete" THEN "pending_delete" ELSE "pending"
                                 /\ row'[k].want = queue'[i].want
                 /\ k \notin All => i = 1
                 /\ k = "disable" => webSite'.status = "disabling"
                 /\ k = "enable" => webSite'.status = "enabling"
                 /\ k = "node" => webSite'.status = "active"
    <2>1. /\ queue'[i] = queue[i + 1] /\ i + 1 \in 1..Len(queue)
      BY <1>2
    <2>2. /\ queue[i + 1].kind \in All /\ queue[i + 1].kind \notin {"disable", "enable"}
          /\ row'[queue[i + 1].kind] = row[queue[i + 1].kind]
      BY <1>3, SettingKindsListed
    <2>3. queue[i + 1].kind = "node" => webSite'.status = "active"
      <3>1. CASE job.kind \in All
        BY <2>1, <3>1 DEF SettingsWait, job
      <3>2. CASE job.kind \notin All
        <4>1. webSite.status \in {"disabling", "enabling"}
          <5>1. job \in SettingJob
            BY FirstJob DEF job
          <5>2. job.kind \in {"disable", "enable"}
            BY <3>2, <5>1 DEF SettingJob
          <5> QED BY <5>2, FirstJob DEF job
        <4> QED BY <2>1, <4>1 DEF SettingsWait
      <3> QED BY <3>1, <3>2
    <2> QED BY <2>1, <2>2, <2>3 DEF SettingsWait
  <1> QED BY <1>2, <1>4, <1>5 DEF SettingsWait, All

\* What a call for one setting leaves fits the rows its job leaves.
LEMMA NextHostFits ==
  ASSUME SettingsInv, NEW k \in All, RowIsOpen(k), NEW d \in LeftBy(conf, k), conf' = d, webSite' = webSite,
         \A q \in All \ {k} : row'[q] = row[q],
         row'[k].status = "none" => Gone(d, k),
         row'[k].status = "active" => row'[k].want = row[k].want /\ Applied(d, k)
  PROVE  conf' \in HostConf /\ conf' \in Fitting' /\ SiteTells(conf)'
  <1>1. /\ d \in HostConf /\ \A q \in All : FitsRow(d, q)
        /\ \A q \in S!Runs \ {k} : d.live[q] = conf.live[q]
        /\ webSite.status = "disabled" => d.live["wpcron"] = 0
    BY DEF LeftBy, Fitting
  <1>2. SiteTells(conf)
    BY DEF SettingsInv
  <1>3. ASSUME NEW q \in All
        PROVE  FitsRow(conf, q)'
    <2>1. FitsRow(d, q)
      BY <1>1
    <2>2. CASE q = k
      BY <2>1, <2>2 DEF FitsRow, Gone, Applied
    <2>3. CASE q # k
      <3>1. row'[q] = row[q]
        BY <2>3
      <3> QED BY <2>1, <3>1 DEF FitsRow
    <2> QED BY <2>2, <2>3
  <1>4. conf' \in Fitting'
    BY <1>1, <1>3 DEF Fitting, FitsRow, HostConf, All
  <1>5. ASSUME webSite'.status = "active", NEW q \in All, row'[q].status = "active"
        PROVE  conf'.live[q] = row'[q].want
    <2>1. CASE q = k
      BY <1>5, <2>1 DEF Applied
    <2>2. CASE q # k
      <3>1. row'[q] = row[q]
        BY <2>2
      <3>2. CASE q \in S!Nginx
        BY <1>1, <1>5, <3>1, <3>2 DEF FitsRow
      <3>3. CASE q \in S!Runs
        BY <1>1, <1>2, <1>5, <2>2, <3>1, <3>3 DEF SiteTells
      <3> QED BY <3>2, <3>3, SettingKindsListed
    <2> QED BY <2>1, <2>2
  <1>6. ASSUME webSite'.status = "disabled", NEW q \in S!Runs, row'[q].status = "active"
        PROVE  conf'.live[q] = 0
    <2>1. CASE q = k
      BY <1>6, <2>1 DEF Applied
    <2>2. CASE q # k
      <3>1. row'[q] = row[q] /\ d.live[q] = conf.live[q]
        BY <1>1, <2>2, SettingKindsListed
      <3> QED BY <1>2, <1>6, <3>1 DEF SiteTells
    <2> QED BY <2>1, <2>2
  <1>7. SiteTells(conf)'
    BY <1>1, <1>5, <1>6 DEF SiteTells, S!Runs, S!Cron, All
  <1> QED BY <1>1, <1>4, <1>7

\* The worker's step on a setting.
LEMMA SettingJobKeeps ==
  ASSUME SettingsInv, S!ProcessOne, Head(queue).kind \in All
  PROVE  SettingsInv'
  <1> DEFINE job == Head(queue)
             k   == job.kind
  <1>1. SettingTypes /\ SettingsWait /\ queue # <<>>
    BY DEF SettingsInv, S!ProcessOne
  <1>2. /\ job \in SettingJob /\ RowIsOpen(k) /\ job.want = row[k].want
        /\ k = "node" => webSite.status = "active"
    BY <1>1, FirstJob
  <1>3. PICK d, end : /\ Leads(conf, S!Call(conf, job), LeftBy(conf, k), d, end)
                      /\ end = "done" => Served(d, job)
    BY <1>2, SettingIsServed
  <1>4. PICK e \in S!Ends(conf, S!Call(conf, job)) :
           /\ conf' = e.conf
           /\ IF e.end # "cut" THEN S!FinishJob(job, e.end = "done")
              ELSE \/ UNCHANGED <<webSite, row, queue>>
                   \/ S!FinishJob(job, FALSE)
    BY DEF S!ProcessOne
  <1>5. e.conf \in LeftBy(conf, k) /\ (e.end = "done" => Served(e.conf, job))
    <2>1. conf \in LeftBy(conf, k)
      BY LeftAsFound
    <2> QED BY <1>3, <1>4, <2>1, CallEnds
  <1> HIDE DEF job, k
  <1>6. CASE UNCHANGED <<webSite, row, queue>>
    <2>1. conf' \in HostConf /\ conf' \in Fitting' /\ SiteTells(conf)'
      BY <1>2, <1>4, <1>5, <1>6, NextHostFits DEF RowIsOpen, k, job
    <2>2. SettingTypes'
      BY <1>1, <1>6, <2>1 DEF SettingTypes, HostConf, SettingJob
    <2>3. SettingsWait'
      BY <1>1, <1>6 DEF SettingsWait, All
    <2> QED BY <2>1, <2>2, <2>3 DEF SettingsInv
  <1>7. ASSUME NEW ok \in BOOLEAN, S!FinishJob(job, ok), ok => e.end = "done"
        PROVE  SettingsInv'
    <2>1. k \in All
      BY DEF k, job
    <2>2. /\ webSite' = webSite /\ queue' = Tail(queue)
          /\ row' \in [All -> [status : SettingStatuses, want : 0..2]]
          /\ \A q \in All \ {k} : row'[q] = row[q]
          /\ ~ ok => row'[k].status \in {"failed", "delete_failed"}
          /\ ok /\ job.action = "delete" => row'[k].status = "none"
          /\ ok /\ job.action # "delete" => row'[k].status = "active" /\ row'[k].want = row[k].want
      BY <1>1, <1>2, <1>7, <2>1, RowIsFinished DEF k
    <2>3. row'[k].status = "none" => Gone(e.conf, k)
      BY <1>5, <1>7, <2>2 DEF Served, k
    <2>4. row'[k].status = "active" => row'[k].want = row[k].want /\ Applied(e.conf, k)
      BY <1>5, <1>7, <2>2 DEF Served, k
    <2>5. conf' \in HostConf /\ conf' \in Fitting' /\ SiteTells(conf)'
      BY <1>2, <1>4, <1>5, <2>1, <2>2, <2>3, <2>4, NextHostFits
    <2>6. queue' \in Seq(SettingJob) /\ SettingsWait'
      BY <1>1, <2>1, <2>2, OthersWait DEF k, job
    <2>7. SettingTypes'
      BY <1>1, <2>2, <2>5, <2>6 DEF SettingTypes, HostConf, SettingJob
    <2> QED BY <2>5, <2>6, <2>7 DEF SettingsInv
  <1> QED BY <1>4, <1>6, <1>7

\* The worker's step on the site.
LEMMA SiteJobKeeps ==
  ASSUME SettingsInv, S!ProcessOne, Head(queue).kind \notin All
  PROVE  SettingsInv'
  <1> DEFINE job == Head(queue)
  <1>1. SettingTypes /\ SettingsWait /\ queue # <<>> /\ conf \in Fitting
    BY DEF SettingsInv, S!ProcessOne
  <1>2. /\ job \in SettingJob /\ job.kind \in {"enable", "disable"}
        /\ job.kind = "disable" => webSite.status = "disabling"
        /\ job.kind = "enable" => webSite.status = "enabling"
    BY <1>1, FirstJob DEF SettingJob
  <1>3. PICK e \in S!Ends(conf, S!Call(conf, job)) :
           /\ conf' = e.conf
           /\ IF e.end # "cut" THEN S!FinishJob(job, e.end = "done")
              ELSE \/ UNCHANGED <<webSite, row, queue>>
                   \/ S!FinishJob(job, FALSE)
    BY DEF S!ProcessOne
  <1> HIDE DEF job
  <1>4. /\ e.conf \in Fitting
        /\ e.end = "done" /\ job.kind = "disable" =>
              e.conf.live["wpcron"] = 0 /\ \A k \in S!Runs : row[k].status = "active" => e.conf.live[k] = 0
        /\ e.end = "done" /\ job.kind = "enable" =>
              \A k \in All : row[k].status = "active" => e.conf.live[k] = row[k].want
    <2>1. CASE job.kind = "disable"
      <3>1. S!Call(conf, job) = S!Disable(conf)
        BY <2>1 DEF S!Call
      <3>2. PICK d : /\ Leads(conf, S!Disable(conf), Fitting, d, "done") /\ d.live["wpcron"] = 0
                     /\ \A k \in S!Runs : row[k].status = "active" => d.live[k] = 0
        BY <1>1, DisableStops
      <3>3. e \in S!Ends(conf, S!Disable(conf))
        BY <1>3, <3>1
      <3>4. e.conf \in Fitting /\ (e.end = "done" => e.conf = d)
        BY <1>1, <3>2, <3>3, CallEnds
      <3> QED BY <2>1, <3>2, <3>4
    <2>2. CASE job.kind = "enable"
      <3> DEFINE plan == S!Then(conf, S!Provision(conf), S!enableSiteHosting)
      <3>1. S!Call(conf, job) = plan
        BY <2>2 DEF S!Call
      <3>2. PICK d, end : /\ Leads(conf, plan, Fitting, d, end)
                          /\ end = "done" => \A k \in All : row[k].status = "active" => d.live[k] = row[k].want
        BY <1>1, <1>2, <2>2, EnableStarts
      <3> HIDE DEF plan
      <3>3. e \in S!Ends(conf, plan)
        BY <1>3, <3>1
      <3>4. e.conf \in Fitting /\ (e.end = "done" => end = "done" /\ e.conf = d)
        BY <1>1, <3>2, <3>3, CallEnds
      <3> QED BY <2>2, <3>2, <3>4
    <2> QED BY <1>2, <2>1, <2>2
  <1>5. ASSUME row' = row
        PROVE  conf' \in Fitting' /\ conf' \in HostConf
    BY <1>3, <1>4, <1>5 DEF Fitting, FitsRow, HostConf, All
  <1>6. CASE UNCHANGED <<webSite, row, queue>>
    <2>1. SettingTypes'
      BY <1>1, <1>5, <1>6 DEF SettingTypes, HostConf, SettingJob
    <2>2. SettingsWait'
      BY <1>1, <1>6 DEF SettingsWait, All
    <2>3. SiteTells(conf)'
      BY <1>2, <1>6 DEF SiteTells
    <2> QED BY <1>5, <1>6, <2>1, <2>2, <2>3 DEF SettingsInv
  <1>7. ASSUME NEW ok \in BOOLEAN, S!FinishJob(job, ok), ok => e.end = "done"
        PROVE  SettingsInv'
    <2>1. job.kind \notin All
      BY DEF job
    <2>2. /\ row' = row /\ queue' = Tail(queue)
          /\ webSite' \in [kind : {"wordpress", "proxy"},
                status : {"active", "disabling", "disabled", "disable_failed", "enabling", "enable_failed"}]
          /\ webSite'.status = IF job.kind = "enable" THEN IF ok THEN "active" ELSE "enable_failed"
                               ELSE IF ok THEN "disabled" ELSE "disable_failed"
      BY <1>1, <1>2, <1>7, <2>1, SiteIsFinished
    <2>3. queue' \in Seq(SettingJob) /\ SettingsWait'
      BY <1>1, <2>1, <2>2, OthersWait DEF job
    <2>4. SettingTypes'
      BY <1>1, <1>5, <2>2, <2>3 DEF SettingTypes, HostConf, SettingJob
    <2>5. webSite'.status = "active" => ok /\ job.kind = "enable"
      BY <1>2, <2>2
    <2>6. webSite'.status = "disabled" => ok /\ job.kind = "disable"
      BY <1>2, <2>2
    <2>7. SiteTells(conf)'
      BY <1>3, <1>4, <1>7, <2>2, <2>5, <2>6 DEF SiteTells, S!Runs, S!Cron, All
    <2> QED BY <1>5, <2>2, <2>3, <2>4, <2>7 DEF SettingsInv
  <1> QED BY <1>3, <1>6, <1>7

\* A request opens a row that no job waits for.
LEMMA SettingRequestKeeps ==
  ASSUME SettingsInv, S!Request
  PROVE  SettingsInv'
  <1>1. SettingTypes /\ SettingsWait
    BY DEF SettingsInv
  <1>2. /\ row \in [All -> [status : SettingStatuses, want : 0..2]]
        /\ {0} \cup S!Values \subseteq 0..2 /\ S!Values \subseteq 0..2 /\ 1 \in 0..2
    BY <1>1 DEF SettingTypes, S!Values
  <1>3. /\ "cron" \in All /\ "wpcron" \in All /\ "access" \in All /\ "security" \in All /\ "node" \in All
        /\ "ftp" \in All /\ S!Cron = {"cron", "wpcron"}
    BY SettingKindsListed
  <1>4. queue = <<>> => \A i \in 1..Len(queue) : FALSE
    OBVIOUS
  <1>5. S!enqueueCronJob => \A i \in 1..Len(queue) : queue[i].kind \notin {"cron", "wpcron"}
    <2>1. queue \in Seq(SettingJob)
      BY <1>1 DEF SettingTypes
    <2>2. DOMAIN queue = 1..Len(queue)
      BY <2>1, LenProperties
    <2> QED BY <1>3, <2>2 DEF S!enqueueCronJob, S!Pending
  <1>6. CASE \E w \in {0} \cup S!Values : S!SetCronSchedule(w)
    BY <1>2, <1>3, <1>5, <1>6, AskKeeps DEF S!SetCronSchedule
  <1>7. CASE S!RequestCronScheduleDelete
    BY <1>2, <1>3, <1>5, <1>7, AskKeeps DEF S!RequestCronScheduleDelete
  <1>8. CASE \E w \in {0} \cup S!Values : S!SetWordPressCronSetting(w)
    BY <1>2, <1>3, <1>5, <1>8, AskKeeps DEF S!SetWordPressCronSetting
  <1>9. CASE \E w \in {0} \cup S!Values : S!SetSiteAccess(w)
    <2>1. PICK w \in {0} \cup S!Values : S!SetSiteAccess(w)
      BY <1>9
    <2>2. row["access"].status # "pending" /\ S!Ask("access", "apply", "pending", w)
      BY <2>1 DEF S!SetSiteAccess
    <2>3. ASSUME NEW i \in 1..Len(queue), queue[i].kind = "access"
          PROVE  FALSE
      <3>1. queue[i] \in SettingJob
        BY <1>1, ElementOfSeq DEF SettingTypes
      <3>2. queue[i].action # "delete"
        BY <2>3, <3>1 DEF SettingJob
      <3> QED BY <1>1, <1>3, <2>2, <2>3, <3>2 DEF SettingsWait
    <2> QED BY <1>2, <1>3, <2>2, <2>3, AskKeeps
  <1>10. CASE \E w \in {0} \cup S!Values : S!EnqueueSiteSecuritySettings(w)
    BY <1>2, <1>3, <1>4, <1>10, AskKeeps DEF S!EnqueueSiteSecuritySettings, S!requireSiteIdle
  <1>11. CASE \E w \in S!Values : S!ConfigureNodeRuntime(w)
    BY <1>2, <1>3, <1>4, <1>11, AskKeeps DEF S!ConfigureNodeRuntime, S!requireHostingSiteIdle, S!requireSiteIdle
  <1>12. CASE S!CreateFTPUser
    BY <1>2, <1>3, <1>4, <1>12, AskKeeps DEF S!CreateFTPUser, S!requireHostingSiteIdle, S!requireSiteIdle
  <1>13. CASE S!EnqueueFTPUserDelete
    BY <1>2, <1>3, <1>4, <1>13, AskKeeps DEF S!EnqueueFTPUserDelete, S!requireHostingSiteIdle, S!requireSiteIdle
  <1> QED BY <1>6, <1>7, <1>8, <1>9, <1>10, <1>11, <1>12, <1>13 DEF S!Request

LEMMA SettingsKeep ==
  ASSUME SettingsInv, [S!SettingsNext]_S!settingVars
  PROVE  SettingsInv'
  <1>1. CASE S!Request
    BY <1>1, SettingRequestKeeps
  <1>2. CASE S!Transition
    BY <1>2, TransitionKeeps
  <1>3. CASE S!ProcessOne
    BY <1>3, SettingJobKeeps, SiteJobKeeps
  <1>4. CASE UNCHANGED S!settingVars
    <2>1. webSite' = webSite /\ row' = row /\ queue' = queue /\ conf' = conf
      BY <1>4 DEF S!settingVars
    <2>2. SettingTypes' /\ SettingsWait'
      BY <2>1 DEF SettingsInv, SettingTypes, SettingsWait, SettingJob, HostConf, All
    <2>3. conf' \in Fitting'
      BY <2>1 DEF SettingsInv, Fitting, FitsRow, HostConf, All
    <2>4. SiteTells(conf)'
      BY <2>1 DEF SettingsInv, SiteTells, S!Runs, S!Cron, All
    <2> QED BY <2>2, <2>3, <2>4 DEF SettingsInv
  <1> QED BY <1>1, <1>2, <1>3, <1>4 DEF S!SettingsNext

\* A step of the work on sites is a step of its settings, or leaves them alone.
LEMMA SettingsStep ==
  ASSUME [Next]_vars
  PROVE  [S!SettingsNext]_S!settingVars
  <1>1. CASE Settings
    BY <1>1 DEF Settings
  <1>2. CASE Content \/ Files \/ Schedule \/ Record \/ UNCHANGED vars
    BY <1>2 DEF Content, Files, Schedule, Record, vars, settings, S!settingVars
  <1> QED BY <1>1, <1>2 DEF Next

\* The specification of the work on sites implements that of their settings.
THEOREM SettingsAreRefined == Spec => S!SettingsSpec
  <1>1. Init => S!SettingsInit
    BY DEF Init
  <1>2. [Next]_vars => [S!SettingsNext]_S!settingVars
    BY SettingsStep
  <1> QED BY <1>1, <1>2, PTL DEF Spec, S!SettingsSpec

\* However many requests, failed steps and broken calls came before: a setting of
\* an active site that reads as applied is what its host does, what was deleted or
\* never asked for is not there, and a disabled site runs none of it.
THEOREM RowsStayInForce == Spec => []RowsAreInForce
  <1>1. S!SettingsInit => SettingsInv
    BY SettingsStart
  <1>2. SettingsInv /\ [S!SettingsNext]_S!settingVars => SettingsInv'
    BY SettingsKeep
  <1>3. ASSUME SettingsInv
        PROVE  RowsAreInForce
    <2>1. ASSUME NEW k \in All
          PROVE  /\ row[k].status = "none" => conf.live[k] = 0
                 /\ row[k].status = "active" =>
                       /\ webSite.status = "active" => conf.live[k] = row[k].want
                       /\ webSite.status = "disabled" /\ k \in S!Runs => conf.live[k] = 0
                       /\ k = "wpcron" => conf.internal = (row[k].want = 0)
      <3>1. FitsRow(conf, k) /\ SiteTells(conf) /\ conf \in HostConf
        BY <1>3 DEF SettingsInv, Fitting
      <3>2. conf.internal \in BOOLEAN
        BY <3>1 DEF HostConf
      <3>3. row[k].status = "active" /\ k = "wpcron" => (conf.internal = TRUE <=> row[k].want = 0)
        BY <3>1 DEF FitsRow
      <3>4. row[k].status = "active" /\ k = "wpcron" => conf.internal = (row[k].want = 0)
        <4>1. ASSUME row[k].status = "active" /\ k = "wpcron"
              PROVE  conf.internal = (row[k].want = 0)
          <5>1. CASE conf.internal = TRUE
            BY <3>3, <4>1, <5>1, Zenon
          <5>2. CASE conf.internal = FALSE
            BY <3>3, <4>1, <5>2, Zenon
          <5> QED BY <3>2, <5>1, <5>2, Zenon
        <4> QED BY <4>1
      <3>5. /\ row[k].status = "none" => conf.live[k] = 0
            /\ row[k].status = "active" =>
                  /\ webSite.status = "active" => conf.live[k] = row[k].want
                  /\ webSite.status = "disabled" /\ k \in S!Runs => conf.live[k] = 0
        BY <3>1 DEF FitsRow, SiteTells
      <3> QED BY <3>4, <3>5, Zenon
    <2> QED BY <2>1, Zenon DEF RowsAreInForce, S!RowsAreInForce, All
  <1> QED BY <1>1, <1>2, <1>3, SettingsAreRefined, PTL DEF S!SettingsSpec
=============================================================================
