--------------------------- MODULE BackupSchedules ---------------------------
(***************************************************************************)
(* Scheduled backups and scheduled restore tests.  The worker looks before *)
(* every job, or every second, for schedules whose time has come and turns *)
(* each into a job, moving its time in the same transaction.  The panel    *)
(* may have been down for many intervals, and while it restarts two        *)
(* processes may look at once: each reads in its own snapshot of the       *)
(* database, and SQLite refuses the writes of a transaction that has read  *)
(* what another has changed since.                                         *)
(***************************************************************************)
EXTENDS Naturals, FiniteSets

CONSTANTS Schedules,    \* a site and a backup target each
          Processes,    \* panel processes whose worker may look
          Intervals,    \* hours between two runs
          MaxTime,      \* bound of the clock
          MaxAdjusted   \* how often settings and targets change

SchedulesAssumption ==
    Intervals \subseteq Nat \ {0} /\ MaxTime \in Nat /\ MaxAdjusted \in Nat

VARIABLES schedule,     \* rows of backup_schedules
          ready,        \* schedules whose site and target are active
          restorable,   \* restore points of a schedule's site and target, numbered
          runs,         \* jobs inserted by a schedule
          pass,         \* the transaction a process has open: what it has read
          time, adjusted

scheduleVars == <<schedule, ready, restorable, runs, pass, time, adjusted>>

Tasks == {"backup", "test"}
NoSchedule == [enabled |-> FALSE, every |-> [t \in Tasks |-> 0], next |-> [t \in Tasks |-> 0],
               saved |-> [t \in Tasks |-> 0]]
NoPass == [task |-> "none", due |-> {}, at |-> 0]

\* A row changed by another process's commit: the transactions that have read go
\* stale.  Within a process there is one connection, hence one transaction.
Free(p)  == pass[p] = NoPass
Spoil(p) == pass' = [q \in Processes |->
                        IF q # p /\ pass[q] # NoPass THEN [pass[q] EXCEPT !.task = "stale"]
                                                     ELSE IF q = p THEN NoPass ELSE pass[q]]

Change(p) == /\ Free(p) /\ adjusted < MaxAdjusted /\ adjusted' = adjusted + 1 /\ Spoil(p)

\* `saved' is when the time of a task was last set by hand.
SetBackupSchedule(p, s, hours, test) ==
    /\ Change(p) /\ s \in ready
    /\ schedule' = [schedule EXCEPT ![s] =
          [enabled |-> TRUE,
           every   |-> [t \in Tasks |-> IF t = "backup" THEN hours ELSE test],
           next    |-> [t \in Tasks |-> time + IF t = "backup" THEN hours ELSE test],
           saved   |-> [t \in Tasks |-> time]]]
    /\ UNCHANGED <<ready, restorable, runs, time>>

SetRestoreTestSchedule(p, s, test) ==
    /\ Change(p) /\ schedule[s].enabled
    /\ schedule' = [schedule EXCEPT ![s].every["test"] = test, ![s].next["test"] = time + test,
                                    ![s].saved["test"] = time]
    /\ UNCHANGED <<ready, restorable, runs, time>>

\* The site or its target stops being active or becomes so again; a backup ends
\* and its snapshot is the newest restore point.
SetReady(p, s) ==
    /\ Change(p) /\ ready' = IF s \in ready THEN ready \ {s} ELSE ready \union {s}
    /\ UNCHANGED <<schedule, restorable, runs, time>>

AddRestorePoint(p, s) ==
    /\ Change(p) /\ restorable' = [restorable EXCEPT ![s] = @ + 1]
    /\ UNCHANGED <<schedule, ready, runs, time>>

-----------------------------------------------------------------------------
Due(task, s) ==
    /\ schedule[s].enabled /\ s \in ready
    /\ schedule[s].every[task] # 0 /\ schedule[s].next[task] <= time
    /\ task = "test" => restorable[s] # 0

\* The transaction reads the schedules that are due ...
BeginPass(p, task) ==
    /\ Free(p) /\ \E s \in Schedules : Due(task, s)
    /\ pass' = [pass EXCEPT ![p] = [task |-> task, due |-> {s \in Schedules : Due(task, s)},
                                    at |-> time]]
    /\ UNCHANGED <<schedule, ready, restorable, runs, time, adjusted>>

\* ... inserts a job for each under a key made of the schedule and its time, and
\* counts the next interval from the moment it looked.
Run(task, s, at) == [task |-> task, schedule |-> s, due |-> schedule[s].next[task], at |-> at,
                     point |-> IF task = "test" THEN restorable[s] ELSE 0]

\* Mutant of NextRun: the next time follows from the last, as a clock would.
NextFromLast(task, s, at) == schedule[s].next[task] + schedule[s].every[task]

NextRun(task, s, at) == at + schedule[s].every[task]

EnqueueDue(p, task) ==
    LET looked == pass[p].at
        Known(r) == \E q \in runs : q.task = r.task /\ q.schedule = r.schedule /\ q.due = r.due
    IN  /\ pass[p].task = task
        /\ runs' = runs \union {r \in {Run(task, s, looked) : s \in pass[p].due} : ~Known(r)}
        /\ schedule' = [s \in Schedules |-> IF s \in pass[p].due
                            THEN [schedule[s] EXCEPT !.next[task] = NextRun(task, s, looked)]
                            ELSE schedule[s]]
        /\ Spoil(p)
        /\ UNCHANGED <<ready, restorable, time, adjusted>>

EnqueueDueBackups      == \E p \in Processes : EnqueueDue(p, "backup")
EnqueueDueRestoreTests == \E p \in Processes : EnqueueDue(p, "test")

\* The write is refused, or the process ends: nothing of the transaction stays.
Rollback(p) ==
    /\ pass[p] # NoPass /\ pass' = [pass EXCEPT ![p] = NoPass]
    /\ UNCHANGED <<schedule, ready, restorable, runs, time, adjusted>>

Tick == /\ time < MaxTime /\ time' = time + 1
        /\ UNCHANGED <<schedule, ready, restorable, runs, pass, adjusted>>

-----------------------------------------------------------------------------
SchedulesInit ==
    /\ schedule = [s \in Schedules |-> NoSchedule] /\ ready = Schedules
    /\ restorable = [s \in Schedules |-> 0] /\ runs = {}
    /\ pass = [p \in Processes |-> NoPass] /\ time = 0 /\ adjusted = 0

SchedulesNext ==
    \/ \E p \in Processes :
          \/ \E s \in Schedules :
                \/ \E hours \in Intervals, test \in Intervals \union {0} :
                      SetBackupSchedule(p, s, hours, test)
                \/ \E test \in Intervals \union {0} : SetRestoreTestSchedule(p, s, test)
                \/ SetReady(p, s) \/ AddRestorePoint(p, s)
          \/ \E task \in Tasks : BeginPass(p, task)
          \/ Rollback(p)
    \/ EnqueueDueBackups \/ EnqueueDueRestoreTests \/ Tick

SchedulesSpec == SchedulesInit /\ [][SchedulesNext]_scheduleVars

SchedulesTypeOK ==
    /\ schedule \in [Schedules -> [enabled : BOOLEAN, every : [Tasks -> Nat],
                                   next : [Tasks -> Nat], saved : [Tasks -> Nat]]]
    /\ ready \subseteq Schedules /\ restorable \in [Schedules -> Nat]
    /\ \A r \in runs : r.task \in Tasks /\ r.schedule \in Schedules /\ r.at \in 0 .. MaxTime
    /\ \A p \in Processes : pass[p].task \in Tasks \union {"none", "stale"}
    /\ time \in 0 .. MaxTime /\ adjusted \in 0 .. MaxAdjusted

\* However long the panel was down and however many processes look at once, a
\* schedule runs one job at a time it was due: a whole interval lies between a
\* run and the run, or the change of the schedule, before it.
OneRunPerPeriod ==
    [][\A r \in runs' \ runs :
          LET s     == schedule[r.schedule]
              own   == {q \in runs : q.task = r.task /\ q.schedule = r.schedule}
              since == {q.at : q \in own} \union {s.saved[r.task]}
          IN  /\ \A q \in runs' \ runs : q.task = r.task /\ q.schedule = r.schedule => q = r
              /\ \A t \in since : r.at >= t + s.every[r.task]]_scheduleVars
=============================================================================
