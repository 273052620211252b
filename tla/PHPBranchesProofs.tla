------------------------- MODULE PHPBranchesProofs -------------------------
(***************************************************************************)
(* PHPBranches, for any number of sites, branches, jobs and failures, and   *)
(* however late FPM applies reloads.                                        *)
(*                                                                          *)
(* PoolInv: the pool of the version that the panel shows is never lost.     *)
(* MoveInv, above it: a site has no other pool but those that failed        *)
(* changes have left.                                                       *)
(***************************************************************************)
EXTENDS PHPBranches, TLAPS

FpmTypes ==
    /\ listener \in [Sites -> Versions \cup {None}]
    /\ running \subseteq Versions /\ asked \subseteq Versions

\* Whatever a service does, branches and listeners stay what they are.
LEMMA LoadTypes ==
  ASSUME FpmTypes, NEW v \in Versions, Load(v) \/ Stop(v)
  PROVE  FpmTypes'
  <1>1. Drop(v) \in [Sites -> Versions \cup {None}]
    BY DEF FpmTypes, Drop
  <1>2. CASE Stop(v)
    BY <1>1, <1>2 DEF Stop, FpmTypes
  <1>3. CASE Load(v) /\ Loadable(v)
    <2>1. listener' = [s \in Sites |-> IF s \in Has(v) THEN v ELSE Drop(v)[s]]
      BY <1>3 DEF Load
    <2>2. listener' \in [Sites -> Versions \cup {None}]
      BY <1>1, <2>1
    <2> QED BY <1>3, <2>2 DEF Load, FpmTypes
  <1>4. CASE Load(v) /\ ~Loadable(v)
    BY <1>2, <1>4 DEF Load
  <1> QED BY <1>2, <1>3, <1>4

\* The same of the commands that calls run.
LEMMA CommandTypes ==
  ASSUME FpmTypes, NEW v \in Versions,
         Start(v) \/ Reload(v) \/ ReloadOrStopUnused(v) \/ Stop(v) \/ UNCHANGED fpm
  PROVE  FpmTypes'
  <1>1. CASE UNCHANGED fpm
    BY <1>1 DEF fpm, FpmTypes
  <1>2. CASE Start(v)
    BY <1>1, <1>2, LoadTypes DEF Start
  <1>3. CASE Reload(v)
    BY <1>3, LoadTypes DEF Reload, FpmTypes
  <1>4. CASE ReloadOrStopUnused(v)
    BY <1>3, <1>4, LoadTypes DEF ReloadOrStopUnused
  <1> QED BY <1>1, <1>2, <1>3, <1>4, LoadTypes

\* A job appended to the queue.
LEMMA AppendedJob ==
  ASSUME queue \in Seq(Job), NEW j \in Job, queue' = Append(queue, j)
  PROVE  /\ queue' \in Seq(Job) /\ queue' # <<>>
         /\ \A i \in DOMAIN queue' :
              (i \in DOMAIN queue /\ queue'[i] = queue[i]) \/ (i = Len(queue) + 1 /\ queue'[i] = j)
         /\ queue # <<>> => queue'[1] = queue[1]
  OBVIOUS

\* The oldest job leaves it.
LEMMA FinishedJob ==
  ASSUME queue \in Seq(Job), queue # <<>>, queue' = Tail(queue)
  PROVE  /\ queue' \in Seq(Job)
         /\ \A i \in DOMAIN queue' : i + 1 \in DOMAIN queue /\ i # 0 /\ queue'[i] = queue[i + 1]
  OBVIOUS

\* What the queue holds.
LEMMA QueuedJobs ==
  ASSUME queue \in Seq(Job)
  PROVE  \A i \in DOMAIN queue :
           /\ queue[i] \in Job
           /\ queue[i].site \in Sites /\ queue[i].kind \in Kinds
           /\ queue[i].from \in Versions /\ queue[i].to \in Versions
  <1>1. \A i \in DOMAIN queue : queue[i] \in Job
    OBVIOUS
  <1> QED BY <1>1 DEF Job

-----------------------------------------------------------------------------
(* The handlers. *)

\* A handler takes a site that has no job, and a change one that has its pool.
LEMMA RequestKeeps ==
  ASSUME PoolInv, NEW s \in Sites, NEW k \in Kinds, NEW from \in Versions, NEW to \in Versions,
         Request(s, k, from, to, [status |-> Reserved(k), version |-> from]),
         \A i \in DOMAIN queue : queue[i].site # s,
         k = "site.php_version" <=> from # to,
         k = "site.php_version" => from \in pool[s] \cup saved[s]
  PROVE  PoolInv'
  <1> DEFINE j == [site |-> s, kind |-> k, from |-> from, to |-> to]
             row == [status |-> Reserved(k), version |-> from]
  <1>1. j \in Job /\ queue' = Append(queue, j) /\ queue \in Seq(Job)
    BY DEF Job, Request, PoolInv, TypeOK
  <1>2. row \in [status : Status, version : Versions \cup {None}]
    BY DEF Reserved, Kinds, Status
  <1>3. site' = [site EXCEPT ![s] = row] /\ site \in [Sites -> [status : Status, version : Versions \cup {None}]]
    BY DEF Request, PoolInv, TypeOK
  <1>4. site' \in [Sites -> [status : Status, version : Versions \cup {None}]]
    BY <1>2, <1>3
  <1>5. site'[s] = row /\ \A t \in Sites \ {s} : site'[t] = site[t]
    BY <1>3
  <1>6. UNCHANGED <<abandoned, pool, saved, listener, running, asked, pc, call, mem, reply, faults>>
        /\ jobs' \in 0..MaxJobs
    BY BoundsAssumption DEF Request, PoolInv, TypeOK, files, fpm
  <1>7. /\ queue' \in Seq(Job) /\ queue' # <<>>
        /\ \A i \in DOMAIN queue' :
             (i \in DOMAIN queue /\ queue'[i] = queue[i]) \/ (i = Len(queue) + 1 /\ queue'[i] = j)
        /\ queue # <<>> => queue'[1] = queue[1]
    <2> HIDE DEF j
    <2> QED BY <1>1, AppendedJob
  <1>8. TypeOK'
    BY <1>4, <1>6, <1>7 DEF PoolInv, TypeOK
  <1>9. JobsOwnTheirSites'
    <2>1. \A i \in DOMAIN queue : queue[i].site \in Sites \ {s}
      BY <1>1, QueuedJobs
    <2>2. \A i \in DOMAIN queue' :
            /\ site'[queue'[i].site] = [status |-> Reserved(queue'[i].kind), version |-> queue'[i].from]
            /\ queue'[i].kind = "site.php_version" <=> queue'[i].from # queue'[i].to
      BY <1>5, <1>7, <2>1 DEF PoolInv, JobsOwnTheirSites
    <2>3. \A i, m \in DOMAIN queue' : queue'[i].site = queue'[m].site => i = m
      BY <1>7, <2>1 DEF PoolInv, JobsOwnTheirSites
    <2>4. \A t \in Sites : site'[t].version = None => site'[t].status = "absent"
      BY <1>5, NoneAssumption DEF PoolInv, JobsOwnTheirSites
    <2> QED BY <2>2, <2>3, <2>4 DEF JobsOwnTheirSites
  <1>10. CallIsTrue'
    BY <1>6, <1>7 DEF PoolInv, CallIsTrue, Me
  <1>11. PreviousPoolKept'
    <2>1. row.status \in {"active", "php_changing", "php_change_failed"} =>
             row.version \in pool[s] \cup saved[s]
      BY DEF Reserved, Kinds
    <2> QED BY <1>5, <1>6, <2>1 DEF PoolInv, PreviousPoolKept
  <1> QED BY <1>8, <1>9, <1>10, <1>11 DEF PoolInv

\* A site in one of the settled statuses has no job.
LEMMA SettledIsIdle ==
  ASSUME PoolInv, NEW s \in Sites,
         site[s].status \in {"absent", "active", "failed", "disabled", "disable_failed",
                             "enable_failed", "php_change_failed"}
  PROVE  \A i \in DOMAIN queue : queue[i].site # s
  <1>1. \A i \in DOMAIN queue : queue[i].kind \in Kinds
    BY QueuedJobs DEF PoolInv, TypeOK
  <1>2. \A i \in DOMAIN queue :
          site[queue[i].site] = [status |-> Reserved(queue[i].kind), version |-> queue[i].from]
    BY DEF PoolInv, JobsOwnTheirSites
  <1>3. \A i \in DOMAIN queue : site[queue[i].site].status = Reserved(queue[i].kind)
    <2> TAKE i \in DOMAIN queue
    <2>1. site[queue[i].site] = [status |-> Reserved(queue[i].kind), version |-> queue[i].from]
      BY <1>2
    <2> QED BY <2>1
  <1> QED BY <1>1, <1>3 DEF Kinds, Reserved

\* The handlers between them.
LEMMA HandlersKeep == PoolInv /\ Handlers => PoolInv'
  <1> SUFFICES ASSUME PoolInv, Handlers PROVE PoolInv'
    OBVIOUS
  <1> PICK s \in Sites :
        \/ EnqueueSiteProvisionRetry(s) \/ EnqueueSiteDisable(s) \/ EnqueueSiteEnable(s)
        \/ \E v \in Versions : CreateSite(s, v) \/ EnqueuePHPVersionChange(s, v)
    BY DEF Handlers
  <1> DEFINE v0 == site[s].version
  <1>1. site[s].status # "absent" => v0 \in Versions
    BY DEF PoolInv, TypeOK, JobsOwnTheirSites
  <1>2. CASE EnqueueSiteProvisionRetry(s)
    <2>1. Request(s, "site.provision", v0, v0, [status |-> Reserved("site.provision"), version |-> v0])
          /\ site[s].status = "failed"
      BY <1>2 DEF EnqueueSiteProvisionRetry, Transition, Reserved
    <2> QED BY <1>1, <2>1, RequestKeeps, SettledIsIdle DEF Kinds
  <1>3. CASE EnqueueSiteDisable(s)
    <2>1. Request(s, "site.disable", v0, v0, [status |-> Reserved("site.disable"), version |-> v0])
          /\ site[s].status \in {"active", "disable_failed"}
      BY <1>3 DEF EnqueueSiteDisable, Transition, Reserved
    <2> QED BY <1>1, <2>1, RequestKeeps, SettledIsIdle DEF Kinds
  <1>4. CASE EnqueueSiteEnable(s)
    <2>1. Request(s, "site.enable", v0, v0, [status |-> Reserved("site.enable"), version |-> v0])
          /\ site[s].status \in {"disabled", "enable_failed"}
      BY <1>4 DEF EnqueueSiteEnable, Transition, Reserved
    <2> QED BY <1>1, <2>1, RequestKeeps, SettledIsIdle DEF Kinds
  <1>5. ASSUME NEW v \in Versions, CreateSite(s, v) PROVE PoolInv'
    <2>1. Request(s, "site.provision", v, v, [status |-> Reserved("site.provision"), version |-> v])
          /\ site[s].status = "absent"
      BY <1>5 DEF CreateSite, Reserved
    <2> QED BY <2>1, RequestKeeps, SettledIsIdle DEF Kinds
  <1>6. ASSUME NEW v \in Versions, EnqueuePHPVersionChange(s, v) PROVE PoolInv'
    <2>1. Request(s, "site.php_version", v0, v, [status |-> Reserved("site.php_version"), version |-> v0])
          /\ site[s].status \in {"active", "php_change_failed"} /\ v0 # v
      BY <1>6 DEF EnqueuePHPVersionChange, Reserved
    <2>2. v0 \in pool[s] \cup saved[s]
      BY <2>1 DEF PoolInv, PreviousPoolKept
    <2> QED BY <1>1, <2>1, <2>2, RequestKeeps, SettledIsIdle DEF Kinds
  <1> QED BY <1>2, <1>3, <1>4, <1>5, <1>6

-----------------------------------------------------------------------------
(* The steps of a call. *)

\* What is known of the job that is being worked on.
LEMMA TheCall ==
  ASSUME PoolInv, pc # "idle"
  PROVE  /\ queue # <<>> /\ 1 \in DOMAIN queue /\ call = queue[1]
         /\ call \in Job /\ Me \in Sites /\ call.from \in Versions /\ call.to \in Versions
         /\ call.kind \in Kinds
         /\ site[Me] = [status |-> Reserved(call.kind), version |-> call.from]
         /\ call.kind = "site.php_version" <=> call.from # call.to
  <1>1. queue # <<>> /\ call = queue[1] /\ queue \in Seq(Job)
    BY DEF PoolInv, CallIsTrue, TypeOK
  <1>2. 1 \in DOMAIN queue
    BY <1>1
  <1> QED BY <1>1, <1>2, QueuedJobs DEF PoolInv, JobsOwnTheirSites, Me

\* A step of a call that leaves the panel alone keeps the invariant if it
\* takes the pool of a change out of its branch only when there is a copy, and
\* if what the call knows afterwards is true.
LEMMA CallStepKeeps ==
  ASSUME PoolInv, UNCHANGED panel, pc # "idle", call' = call,
         pc' \in Steps, mem' \in [existed : BOOLEAN, stop : BOOLEAN],
         reply' \in {"none", "ok", "fail", "restored", "unknown"}, faults' \in 0..MaxFaults,
         FpmTypes',
         NEW P \in SUBSET Versions, pool' = [pool EXCEPT ![Me] = P],
         NEW S \in SUBSET Versions, saved' = [saved EXCEPT ![Me] = S],
         call.kind = "site.php_version" => call.from \in P \cup S,
         CallIsTrue'
  PROVE  PoolInv'
  <1>1. Me \in Sites /\ site[Me] = [status |-> Reserved(call.kind), version |-> call.from]
        /\ call.kind \in Kinds /\ call \in Job
    BY TheCall
  <1>2. TypeOK'
    BY <1>1 DEF PoolInv, TypeOK, panel, FpmTypes
  <1>3. JobsOwnTheirSites'
    BY DEF PoolInv, JobsOwnTheirSites, panel
  <1>4. PreviousPoolKept'
    <2>1. pool'[Me] = P /\ saved'[Me] = S
          /\ \A t \in Sites \ {Me} : pool'[t] = pool[t] /\ saved'[t] = saved[t]
      BY <1>1 DEF PoolInv, TypeOK
    <2>2. site[Me].status = Reserved(call.kind) /\ site[Me].version = call.from
      BY <1>1
    <2>3. site[Me].status \in {"active", "php_changing", "php_change_failed"} =>
             call.kind = "site.php_version"
      BY <1>1, <2>2 DEF Reserved, Kinds
    <2> QED BY <2>1, <2>2, <2>3 DEF PoolInv, PreviousPoolKept, panel
  <1> QED BY <1>2, <1>3, <1>4 DEF PoolInv

\* The same when no file changes.
LEMMA QuietStepKeeps ==
  ASSUME PoolInv, UNCHANGED <<panel, files>>, pc # "idle", call' = call,
         pc' \in Steps, mem' \in [existed : BOOLEAN, stop : BOOLEAN],
         reply' \in {"none", "ok", "fail", "restored", "unknown"}, faults' \in 0..MaxFaults,
         FpmTypes', CallIsTrue'
  PROVE  PoolInv'
  <1>1. TypeOK'
    <2>1. call \in Job
      BY TheCall
    <2> QED BY <2>1 DEF PoolInv, TypeOK, panel, files, FpmTypes
  <1>2. JobsOwnTheirSites' /\ PreviousPoolKept'
    BY DEF PoolInv, JobsOwnTheirSites, PreviousPoolKept, panel, files
  <1> QED BY <1>1, <1>2 DEF PoolInv

\* A call that gives up has nothing to answer for but its undoing.
LEMMA GivingUp ==
  ASSUME PoolInv, pc # "idle", GiveUp, UNCHANGED panel
  PROVE  /\ call' = call /\ mem' = mem /\ pc' \in Steps
         /\ reply' \in {"none", "ok", "fail", "restored", "unknown"}
         /\ CallIsTrue'
  <1>1. queue # <<>> /\ call = queue[1]
    BY TheCall
  <1>2. call' = call /\ mem' = mem /\ queue' = queue
    BY DEF GiveUp, panel
  <1>3. \/ pc' = "answered" /\ reply' \in {"fail", "restored"}
        \/ pc' = "undo_remove" /\ reply' = reply /\ call.kind = "site.php_version"
    <2>1. UnchangedReply \in {"fail", "restored"}
      BY DEF UnchangedReply
    <2> QED BY <2>1 DEF GiveUp
  <1>4. reply \in {"none", "ok", "fail", "restored", "unknown"}
    BY DEF PoolInv, TypeOK
  <1> QED BY <1>1, <1>2, <1>3, <1>4 DEF CallIsTrue, Steps, Undo, Change

\* A step that goes on in the same call, with its files as they are.
LEMMA GoingOn ==
  ASSUME PoolInv, pc # "idle", UNCHANGED <<panel, files>>, FpmTypes',
         NEW p \in Steps \ {"idle"}, Goto(p) \/ (GiveUp /\ faults' \in 0..MaxFaults),
         p \in Undo \cup Change => call.kind = "site.php_version",
         p \in {"drop", "halt"} => call.kind = "site.disable",
         p \in {"write", "enable", "reload"} => call.kind # "site.disable",
         p = "rest" => call.kind # "site.php_version",
         p # "remove", p # "answered",
         p \in {"enable", "reload", "active", "ready", "nginx", "rest"} =>
           call.kind = "site.disable" \/ call.to \in pool[Me]
  PROVE  PoolInv'
  <1>1. mem \in [existed : BOOLEAN, stop : BOOLEAN] /\ faults \in 0..MaxFaults
        /\ reply \in {"none", "ok", "fail", "restored", "unknown"}
    BY DEF PoolInv, TypeOK
  <1>2. CASE Goto(p)
    <2>1. call' = call /\ pc' = p /\ mem' = mem /\ reply' = reply /\ faults' = faults
      BY <1>2 DEF Goto
    <2>2. CallIsTrue'
      BY <2>1, TheCall DEF CallIsTrue, Me, panel, files
    <2> QED BY <1>1, <2>1, <2>2, QuietStepKeeps
  <1>3. CASE GiveUp /\ faults' \in 0..MaxFaults
    BY <1>1, <1>3, GivingUp, QuietStepKeeps
  <1> QED BY <1>2, <1>3

\* A systemd command keeps the invariant when its step may go on.
LEMMA CommandKeeps ==
  ASSUME PoolInv, pc # "idle", UNCHANGED <<panel, files>>,
         NEW v \in Versions, Start(v) \/ Reload(v) \/ ReloadOrStopUnused(v) \/ UNCHANGED fpm,
         NEW p \in Steps \ {"idle"}, Goto(p) \/ (GiveUp /\ (Fault \/ UNCHANGED faults)),
         p \in Undo \cup Change => call.kind = "site.php_version",
         p \in {"write", "enable", "reload"} => call.kind # "site.disable",
         p = "rest" => call.kind # "site.php_version",
         p \notin {"remove", "answered", "drop", "halt"},
         p \in {"enable", "reload", "active", "ready", "nginx", "rest"} =>
           call.kind = "site.disable" \/ call.to \in pool[Me]
  PROVE  PoolInv'
  <1>1. FpmTypes /\ faults \in 0..MaxFaults
    BY DEF PoolInv, TypeOK, FpmTypes
  <1>2. Goto(p) \/ (GiveUp /\ faults' \in 0..MaxFaults)
    BY <1>1, BoundsAssumption DEF Fault
  <1>3. FpmTypes'
    BY <1>1, CommandTypes
  <1> QED BY <1>2, <1>3, GoingOn

-----------------------------------------------------------------------------
(* The calls, step by step. *)

\* Taking up a job.
LEMMA CallHostKeeps == PoolInv /\ CallHost => PoolInv'
  <1> SUFFICES ASSUME PoolInv, CallHost PROVE PoolInv'
    OBVIOUS
  <1>1. queue # <<>> /\ queue \in Seq(Job) /\ call' = queue[1] /\ pc' = "start" /\ reply' = "none"
    BY DEF CallHost, PoolInv, TypeOK
  <1>2. queue[1] \in Job
    BY <1>1, QueuedJobs
  <1>3. mem' \in [existed : BOOLEAN, stop : BOOLEAN]
    <2>1. PICK b \in BOOLEAN : mem' = [existed |-> FALSE, stop |-> b]
      BY Zenon DEF CallHost
    <2> QED BY <2>1
  <1>4. UNCHANGED <<panel, files, fpm, faults>>
    BY DEF CallHost
  <1>5. TypeOK'
    BY <1>1, <1>2, <1>3, <1>4 DEF PoolInv, TypeOK, panel, files, fpm, Steps
  <1>6. CallIsTrue'
    BY <1>1, <1>4 DEF CallIsTrue, panel, Undo, Change
  <1>7. JobsOwnTheirSites' /\ PreviousPoolKept'
    BY <1>4 DEF PoolInv, JobsOwnTheirSites, PreviousPoolKept, panel, files
  <1> QED BY <1>5, <1>6, <1>7 DEF PoolInv

\* The first look at the old pool.
LEMMA BeginKeeps == PoolInv /\ Begin => PoolInv'
  <1> SUFFICES ASSUME PoolInv, Begin PROVE PoolInv'
    OBVIOUS
  <1>1. pc = "start" /\ UNCHANGED <<panel, files, fpm, call, faults>>
    BY DEF Begin
  <1>2. mem' \in [existed : BOOLEAN, stop : BOOLEAN]
    <2>1. mem \in [existed : BOOLEAN, stop : BOOLEAN]
      BY DEF PoolInv, TypeOK
    <2>2. PICK b \in BOOLEAN : b = (call.from \in pool[Me] /\ pc = "start")
      OBVIOUS
    <2>3. mem' = [mem EXCEPT !.existed = b]
      BY <1>1, <2>2 DEF Begin
    <2> QED BY <2>1, <2>3
  <1>3. \/ pc' = "answered" /\ reply' = "fail"
        \/ pc' = "packages" /\ reply' = reply /\ call.kind = "site.php_version"
        \/ pc' = "drop" /\ reply' = reply /\ call.kind = "site.disable"
        \/ pc' = "write" /\ reply' = reply /\ call.kind \notin {"site.php_version", "site.disable"}
    BY DEF Begin
  <1>4. CallIsTrue'
    BY <1>1, <1>3, TheCall DEF CallIsTrue, panel, Undo, Change
  <1>5. pc' \in Steps /\ reply' \in {"none", "ok", "fail", "restored", "unknown"} /\ faults' \in 0..MaxFaults
        /\ FpmTypes'
    BY <1>1, <1>3 DEF PoolInv, TypeOK, Steps, Change, FpmTypes, fpm
  <1> QED BY <1>1, <1>2, <1>4, <1>5, QuietStepKeeps

\* A step fails, by itself or because of what it finds.
LEMMA FailingKeeps == PoolInv /\ (StepFails \/ Active \/ Ready \/ UndoActive) => PoolInv'
  <1> SUFFICES ASSUME PoolInv, StepFails \/ Active \/ Ready \/ UndoActive PROVE PoolInv'
    OBVIOUS
  <1>1. UNCHANGED <<panel, files, fpm>> /\ pc # "idle"
    BY DEF StepFails, Active, Ready, UndoActive, Probe
  <1>2. FpmTypes' /\ faults \in 0..MaxFaults
    BY <1>1 DEF PoolInv, TypeOK, FpmTypes, fpm
  <1>3. CASE StepFails
    <2>1. GiveUp /\ faults' \in 0..MaxFaults
      BY <1>2, <1>3, BoundsAssumption DEF StepFails, Fault
    <2>2. "start" \in Steps \ {"idle"} /\ "start" \notin Undo \cup Change
      BY DEF Steps, Undo, Change
    <2> QED BY <1>1, <1>2, <2>1, <2>2, GoingOn
  <1>4. CASE Active
    <2>1. pc = "active" /\ (Goto("ready") \/ (GiveUp /\ faults' \in 0..MaxFaults))
      BY <1>2, <1>4 DEF Active, Probe
    <2>2. call.kind = "site.php_version" /\ call.to \in pool[Me]
      BY <2>1 DEF PoolInv, CallIsTrue, Change
    <2>3. "ready" \in Steps \ {"idle"}
      BY DEF Steps, Change
    <2> QED BY <1>1, <1>2, <2>1, <2>2, <2>3, GoingOn
  <1>5. CASE Ready
    <2>1. pc = "ready" /\ (Goto("nginx") \/ (GiveUp /\ faults' \in 0..MaxFaults))
      BY <1>2, <1>5 DEF Ready, Probe
    <2>2. call.kind = "site.php_version" /\ call.to \in pool[Me]
      BY <2>1 DEF PoolInv, CallIsTrue, Change
    <2>3. "nginx" \in Steps \ {"idle"}
      BY DEF Steps, Change
    <2> QED BY <1>1, <1>2, <2>1, <2>2, <2>3, GoingOn
  <1>6. CASE UndoActive
    <2>1. pc = "undo_active" /\ (Goto("undo_ready") \/ (GiveUp /\ faults' \in 0..MaxFaults))
      BY <1>2, <1>6 DEF UndoActive, Probe
    <2>2. call.kind = "site.php_version"
      BY <2>1 DEF PoolInv, CallIsTrue, Undo
    <2>3. "undo_ready" \in Steps \ {"idle"}
      BY DEF Steps, Undo
    <2> QED BY <1>1, <1>2, <2>1, <2>2, <2>3, GoingOn
  <1> QED BY <1>3, <1>4, <1>5, <1>6

\* Packages are installed.
LEMMA PackagesKeep == PoolInv /\ Packages => PoolInv'
  <1> SUFFICES ASSUME PoolInv, Packages PROVE PoolInv'
    OBVIOUS
  <1>1. PICK p \in {"save", "release"} : Goto(p)
    BY DEF Packages
  <1>2. pc = "packages" /\ UNCHANGED <<panel, files, fpm>> /\ p \in Steps \ {"idle"}
    BY DEF Packages, Steps, Change
  <1>3. call.kind = "site.php_version" /\ FpmTypes'
    BY <1>2 DEF PoolInv, CallIsTrue, Change, TypeOK, FpmTypes, fpm
  <1> QED BY <1>1, <1>2, <1>3, GoingOn

\* The commands of a change, and of writing a pool.
LEMMA CommandsKeep ==
  PoolInv /\ (Release \/ Enable \/ ReloadTarget \/ UndoRelease \/ UndoEnable \/ UndoReload) => PoolInv'
  <1> SUFFICES ASSUME PoolInv,
                      Release \/ Enable \/ ReloadTarget \/ UndoRelease \/ UndoEnable \/ UndoReload
               PROVE  PoolInv'
    OBVIOUS
  <1>1. pc # "idle"
    BY DEF Release, Enable, ReloadTarget, UndoRelease, UndoEnable, UndoReload, Command
  <1>2. call.from \in Versions /\ call.to \in Versions
    BY <1>1, TheCall
  <1>3. {"write", "reload", "active", "rest", "undo_restore", "undo_reload", "undo_active"}
          \subseteq Steps \ {"idle"}
    BY DEF Steps, Undo, Change
  <1>4. pc \in Undo \cup Change => call.kind = "site.php_version"
    BY <1>1 DEF PoolInv, CallIsTrue
  <1>5. pc \in {"enable", "reload"} => call.kind # "site.disable" /\ call.to \in pool[Me]
    BY <1>1 DEF PoolInv, CallIsTrue
  <1>6. CASE Release
    <2>1. pc = "release" /\ call.kind = "site.php_version"
      BY <1>4, <1>6 DEF Release, Command, Change
    <2>2. /\ UNCHANGED <<panel, files>> /\ (ReloadOrStopUnused(call.from) \/ UNCHANGED fpm)
          /\ Goto("write") \/ (GiveUp /\ (Fault \/ UNCHANGED faults))
      BY <1>6 DEF Release, Command
    <2>3. "write" \notin Undo
      BY DEF Undo
    <2> QED BY <1>1, <1>2, <1>3, <2>1, <2>2, CommandKeeps
  <1>7. CASE Enable
    <2>1. pc = "enable"
      BY <1>7 DEF Enable, Command
    <2>2. /\ UNCHANGED <<panel, files>> /\ (Start(call.to) \/ UNCHANGED fpm)
          /\ Goto("reload") \/ (GiveUp /\ (Fault \/ UNCHANGED faults))
      BY <1>7 DEF Enable, Command
    <2>3. "reload" \notin Undo \cup Change
      BY DEF Undo, Change
    <2> QED BY <1>1, <1>2, <1>3, <1>5, <2>1, <2>2, <2>3, CommandKeeps
  <1>8. CASE ReloadTarget
    <2>1. pc = "reload"
      BY <1>8 DEF ReloadTarget, Command
    <2>2. CASE call.kind = "site.php_version"
      <3>1. /\ UNCHANGED <<panel, files>> /\ (Reload(call.to) \/ UNCHANGED fpm)
            /\ Goto("active") \/ (GiveUp /\ (Fault \/ UNCHANGED faults))
        BY <1>8, <2>2 DEF ReloadTarget, Command
      <3> QED BY <1>1, <1>2, <1>3, <1>5, <2>1, <2>2, <3>1, CommandKeeps
    <2>3. CASE call.kind # "site.php_version"
      <3>1. /\ UNCHANGED <<panel, files>> /\ (Reload(call.to) \/ UNCHANGED fpm)
            /\ Goto("rest") \/ (GiveUp /\ (Fault \/ UNCHANGED faults))
        BY <1>8, <2>3 DEF ReloadTarget, Command
      <3>2. "rest" \notin Undo \cup Change
        BY DEF Undo, Change
      <3> QED BY <1>1, <1>2, <1>3, <1>5, <2>1, <2>3, <3>1, <3>2, CommandKeeps
    <2> QED BY <2>2, <2>3
  <1>9. CASE UndoRelease
    <2>1. pc = "undo_release" /\ call.kind = "site.php_version"
      BY <1>4, <1>9 DEF UndoRelease, Command, Undo
    <2>2. /\ UNCHANGED <<panel, files>> /\ (ReloadOrStopUnused(call.to) \/ UNCHANGED fpm)
          /\ Goto("undo_restore") \/ (GiveUp /\ (Fault \/ UNCHANGED faults))
      BY <1>9 DEF UndoRelease, Command
    <2> QED BY <1>1, <1>2, <1>3, <2>1, <2>2, CommandKeeps
  <1>10. CASE UndoEnable
    <2>1. pc = "undo_enable" /\ call.kind = "site.php_version"
      BY <1>4, <1>10 DEF UndoEnable, Command, Undo
    <2>2. /\ UNCHANGED <<panel, files>> /\ (Start(call.from) \/ UNCHANGED fpm)
          /\ Goto("undo_reload") \/ (GiveUp /\ (Fault \/ UNCHANGED faults))
      BY <1>10 DEF UndoEnable, Command
    <2> QED BY <1>1, <1>2, <1>3, <2>1, <2>2, CommandKeeps
  <1>11. CASE UndoReload
    <2>1. pc = "undo_reload" /\ call.kind = "site.php_version"
      BY <1>4, <1>11 DEF UndoReload, Command, Undo
    <2>2. /\ UNCHANGED <<panel, files>> /\ (Reload(call.from) \/ UNCHANGED fpm)
          /\ Goto("undo_active") \/ (GiveUp /\ (Fault \/ UNCHANGED faults))
      BY <1>11 DEF UndoReload, Command
    <2> QED BY <1>1, <1>2, <1>3, <2>1, <2>2, CommandKeeps
  <1> QED BY <1>6, <1>7, <1>8, <1>9, <1>10, <1>11

\* The probe that ends an undoing, and the answer of a call that is through.
LEMMA AnsweringKeeps == PoolInv /\ (Succeed \/ UndoReady) => PoolInv'
  <1> SUFFICES ASSUME PoolInv, Succeed \/ UndoReady PROVE PoolInv'
    OBVIOUS
  <1>1. UNCHANGED <<panel, files, fpm, call, mem, faults>> /\ pc' = "answered" /\ pc # "idle"
    BY DEF Succeed, UndoReady
  <1>2. \/ reply' \in {"fail", "restored"}
        \/ reply' = "ok" /\ (call.kind = "site.disable" \/ call.to \in pool[Me])
    <2>1. CASE Succeed
      BY <2>1 DEF Succeed, PoolInv, CallIsTrue
    <2>2. CASE UndoReady
      BY <2>2 DEF UndoReady
    <2> QED BY <2>1, <2>2
  <1>3. CallIsTrue'
    BY <1>1, <1>2, TheCall DEF CallIsTrue, panel, files, Me, Undo, Change
  <1>4. FpmTypes' /\ mem' \in [existed : BOOLEAN, stop : BOOLEAN] /\ faults' \in 0..MaxFaults
    BY <1>1 DEF PoolInv, TypeOK, FpmTypes, fpm
  <1>5. pc' \in Steps /\ reply' \in {"none", "ok", "fail", "restored", "unknown"}
    BY <1>1, <1>2 DEF Steps
  <1> QED BY <1>1, <1>3, <1>4, <1>5, QuietStepKeeps

\* A file of a change is written or removed.  The pool leaves the old branch
\* once there is a copy.
LEMMA WritesKeep ==
  PoolInv /\ (Save \/ Remove \/ WritePool \/ UndoRemove \/ UndoRestore) => PoolInv'
  <1> SUFFICES ASSUME PoolInv, Save \/ Remove \/ WritePool \/ UndoRemove \/ UndoRestore
               PROVE  PoolInv'
    OBVIOUS
  <1>1. pc # "idle" /\ UNCHANGED <<panel, fpm, call, mem, reply, faults>>
    BY DEF Save, Remove, WritePool, UndoRemove, UndoRestore, Write, Goto
  <1>2. FpmTypes' /\ mem' \in [existed : BOOLEAN, stop : BOOLEAN] /\ faults' \in 0..MaxFaults
        /\ reply' \in {"none", "ok", "fail", "restored", "unknown"}
    BY <1>1 DEF PoolInv, TypeOK, FpmTypes, fpm
  <1>3. Me \in Sites /\ call.from \in Versions /\ call.to \in Versions
        /\ (call.kind = "site.php_version" <=> call.from # call.to)
    BY <1>1, TheCall
  <1>4. pool \in [Sites -> SUBSET Versions] /\ saved \in [Sites -> SUBSET Versions]
    BY DEF PoolInv, TypeOK
  <1>5. pool[Me] \subseteq Versions /\ saved[Me] \subseteq Versions
    BY <1>3, <1>4
  <1>6. call.kind = "site.php_version" => call.from \in pool[Me] \cup saved[Me]
    <2>1. site[Me] = [status |-> Reserved(call.kind), version |-> call.from]
      BY <1>1, TheCall
    <2>2. site[Me].status = Reserved(call.kind) /\ site[Me].version = call.from
      BY <2>1
    <2>3. call.kind = "site.php_version" => site[Me].status = "php_changing"
      BY <2>2 DEF Reserved
    <2> QED BY <1>3, <2>2, <2>3 DEF PoolInv, PreviousPoolKept
  <1>7. queue' = queue /\ queue # <<>> /\ call = queue[1]
    BY <1>1, TheCall DEF panel
  <1>8. CASE Save
    <2> DEFINE S == saved[Me] \cup {call.from}
    <2>1. pc = "save" /\ pc' = "remove" /\ saved' = [saved EXCEPT ![Me] = S] /\ pool' = pool
      BY <1>8 DEF Save, Write, Goto
    <2>2. call.kind = "site.php_version" /\ pc' \in Steps
      BY <2>1 DEF PoolInv, CallIsTrue, Change, Steps
    <2>3. pool' = [pool EXCEPT ![Me] = pool[Me]]
      BY <1>4, <2>1
    <2>4. saved'[Me] = S
      BY <1>3, <1>4, <2>1
    <2>5. CallIsTrue'
      BY <1>1, <1>7, <2>1, <2>2, <2>4 DEF CallIsTrue, Me
    <2>6. S \in SUBSET Versions /\ pool[Me] \in SUBSET Versions
      BY <1>3, <1>5
    <2>7. call.from \in pool[Me] \cup S
      OBVIOUS
    <2> HIDE DEF S
    <2> QED BY <1>1, <1>2, <2>1, <2>2, <2>3, <2>5, <2>6, <2>7, CallStepKeeps
  <1>9. CASE Remove
    <2> DEFINE P == pool[Me] \ {call.from}
    <2>1. pc = "remove" /\ pc' = "release" /\ pool' = [pool EXCEPT ![Me] = P] /\ saved' = saved
      BY <1>9 DEF Remove, Write, Goto
    <2>2. call.kind = "site.php_version" /\ call.from \in saved[Me] /\ pc' \in Steps
      BY <2>1 DEF PoolInv, CallIsTrue, Change, Steps
    <2>3. saved' = [saved EXCEPT ![Me] = saved[Me]]
      BY <1>4, <2>1
    <2>4. CallIsTrue'
      BY <1>1, <1>7, <2>1, <2>2 DEF CallIsTrue, Me
    <2>5. P \in SUBSET Versions /\ saved[Me] \in SUBSET Versions
      BY <1>5
    <2> HIDE DEF P
    <2> QED BY <1>1, <1>2, <2>1, <2>2, <2>3, <2>4, <2>5, CallStepKeeps
  <1>10. CASE WritePool
    <2> DEFINE P == pool[Me] \cup {call.to}
    <2>1. pc = "write" /\ pc' = "enable" /\ pool' = [pool EXCEPT ![Me] = P] /\ saved' = saved
      BY <1>10 DEF WritePool, Write, Goto
    <2>2. call.kind # "site.disable" /\ pc' \in Steps
      BY <2>1 DEF PoolInv, CallIsTrue, Change, Steps
    <2>3. saved' = [saved EXCEPT ![Me] = saved[Me]]
      BY <1>4, <2>1
    <2>4. pool'[Me] = P
      BY <1>3, <1>4, <2>1
    <2>5. CallIsTrue'
      BY <1>1, <1>7, <2>1, <2>2, <2>4 DEF CallIsTrue, Me, Undo, Change
    <2>6. P \in SUBSET Versions /\ saved[Me] \in SUBSET Versions
      BY <1>3, <1>5
    <2>7. call.kind = "site.php_version" => call.from \in P \cup saved[Me]
      BY <1>6
    <2> HIDE DEF P
    <2> QED BY <1>1, <1>2, <2>1, <2>2, <2>3, <2>5, <2>6, <2>7, CallStepKeeps
  <1>11. CASE UndoRemove
    <2> DEFINE P == pool[Me] \ {call.to}
    <2>1. pc = "undo_remove" /\ pc' = "undo_release" /\ pool' = [pool EXCEPT ![Me] = P] /\ saved' = saved
      BY <1>11 DEF UndoRemove, Write, Goto
    <2>2. call.kind = "site.php_version" /\ pc' \in Steps
      BY <2>1 DEF PoolInv, CallIsTrue, Undo, Steps
    <2>3. saved' = [saved EXCEPT ![Me] = saved[Me]]
      BY <1>4, <2>1
    <2>4. CallIsTrue'
      BY <1>1, <1>7, <2>1, <2>2 DEF CallIsTrue, Me
    <2>5. P \in SUBSET Versions /\ saved[Me] \in SUBSET Versions
      BY <1>5
    <2>6. call.from \in P \cup saved[Me]
      BY <1>3, <1>6, <2>2
    <2> HIDE DEF P
    <2> QED BY <1>1, <1>2, <2>1, <2>2, <2>3, <2>4, <2>5, <2>6, CallStepKeeps
  <1>12. CASE UndoRestore
    <2> DEFINE P == pool[Me] \cup {call.from}
    <2>1. pc = "undo_restore" /\ pc' = "undo_enable" /\ pool' = [pool EXCEPT ![Me] = P] /\ saved' = saved
      BY <1>12 DEF UndoRestore, Write, Goto
    <2>2. call.kind = "site.php_version" /\ pc' \in Steps
      BY <2>1 DEF PoolInv, CallIsTrue, Undo, Steps
    <2>3. saved' = [saved EXCEPT ![Me] = saved[Me]]
      BY <1>4, <2>1
    <2>4. CallIsTrue'
      BY <1>1, <1>7, <2>1, <2>2 DEF CallIsTrue, Me
    <2>5. P \in SUBSET Versions /\ saved[Me] \in SUBSET Versions
      BY <1>3, <1>5
    <2>6. call.from \in P
      OBVIOUS
    <2> HIDE DEF P
    <2> QED BY <1>1, <1>2, <2>1, <2>2, <2>3, <2>4, <2>5, <2>6, CallStepKeeps
  <1> QED BY <1>8, <1>9, <1>10, <1>11, <1>12

\* Disable takes the pool out, stops or reloads its branch, and puts the pool
\* back when that failed.
LEMMA DisableKeeps == PoolInv /\ (DropPool \/ Halt \/ HaltFails) => PoolInv'
  <1> SUFFICES ASSUME PoolInv, DropPool \/ Halt \/ HaltFails PROVE PoolInv'
    OBVIOUS
  <1>1. pc \in {"drop", "halt"} /\ saved' = saved /\ UNCHANGED panel
    BY DEF DropPool, Halt, HaltFails, files
  <1>2. pc # "idle" /\ call.kind = "site.disable" /\ call \in Job
    BY <1>1, TheCall DEF PoolInv, CallIsTrue
  <1>3. Me \in Sites /\ call.from \in Versions /\ queue # <<>> /\ call = queue[1]
    BY <1>2, TheCall
  <1>4. pool \in [Sites -> SUBSET Versions] /\ saved \in [Sites -> SUBSET Versions] /\ FpmTypes
        /\ mem \in [existed : BOOLEAN, stop : BOOLEAN] /\ faults \in 0..MaxFaults
        /\ reply \in {"none", "ok", "fail", "restored", "unknown"}
    BY DEF PoolInv, TypeOK, FpmTypes
  <1>5. pool[Me] \in SUBSET Versions /\ saved[Me] \in SUBSET Versions
        /\ saved' = [saved EXCEPT ![Me] = saved[Me]]
    BY <1>1, <1>3, <1>4
  <1>6. CASE DropPool
    <2> DEFINE P == pool[Me] \ {call.from}
    <2>1. pool' = [pool EXCEPT ![Me] = P] /\ pc' = "halt"
          /\ UNCHANGED <<fpm, call, mem, reply, faults>>
      BY <1>6 DEF DropPool, Goto
    <2>2. CallIsTrue' /\ pc' \in Steps /\ FpmTypes'
      BY <1>1, <1>2, <1>3, <1>4, <2>1 DEF CallIsTrue, panel, Undo, Change, Steps, FpmTypes, fpm
    <2>3. P \in SUBSET Versions
      BY <1>5
    <2> HIDE DEF P
    <2> QED BY <1>1, <1>2, <1>4, <1>5, <2>1, <2>2, <2>3, CallStepKeeps
  <1>7. CASE Halt
    <2>1. Goto("rest") /\ UNCHANGED <<panel, files>>
      BY <1>7 DEF Halt
    <2>2. FpmTypes'
      BY <1>3, <1>4, <1>7, CommandTypes DEF Halt, HaltEffect
    <2>3. "rest" \in Steps \ {"idle"} /\ "rest" \notin Undo \cup Change
      BY DEF Steps, Undo, Change
    <2> QED BY <1>2, <2>1, <2>2, <2>3, GoingOn
  <1>8. CASE HaltFails
    <2> DEFINE P == IF mem.existed THEN pool[Me] \cup {call.from} ELSE pool[Me]
    <2>1. pool' = [pool EXCEPT ![Me] = P]
      BY <1>4, <1>8 DEF HaltFails
    <2>2. P \in SUBSET Versions
      BY <1>3, <1>5
    <2>3. /\ call' = call /\ mem' = mem /\ pc' \in Steps
          /\ reply' \in {"none", "ok", "fail", "restored", "unknown"}
          /\ CallIsTrue'
      BY <1>1, <1>2, <1>8, GivingUp DEF HaltFails
    <2>4. faults' \in 0..MaxFaults
      BY <1>4, <1>8, BoundsAssumption DEF HaltFails, Fault
    <2>5. FpmTypes'
      <3>1. Stop(call.from) \/ Reload(call.from) \/ UNCHANGED fpm
        BY <1>8 DEF HaltFails, HaltEffect, fpm
      <3> QED BY <1>3, <1>4, <3>1, CommandTypes
    <2> HIDE DEF P
    <2> QED BY <1>1, <1>2, <1>4, <1>5, <2>1, <2>2, <2>3, <2>4, <2>5, CallStepKeeps
  <1> QED BY <1>6, <1>7, <1>8

\* The broker stops, the answer is lost, or FPM applies a reload.
LEMMA MishapsKeep ==
  PoolInv /\ (StopBroker \/ LoseAnswer \/ (\E v \in Versions : Apply(v))) => PoolInv'
  <1> SUFFICES ASSUME PoolInv, StopBroker \/ LoseAnswer \/ (\E v \in Versions : Apply(v))
               PROVE  PoolInv'
    OBVIOUS
  <1>1. CASE StopBroker \/ LoseAnswer
    <2>1. /\ pc # "idle" /\ pc' = "answered" /\ reply' = "unknown" /\ Fault
          /\ UNCHANGED <<panel, files, fpm, call, mem>>
      BY <1>1 DEF StopBroker, LoseAnswer, Answer
    <2>2. CallIsTrue'
      BY <2>1, TheCall DEF CallIsTrue, panel, Undo, Change
    <2>3. FpmTypes' /\ mem' \in [existed : BOOLEAN, stop : BOOLEAN] /\ faults' \in 0..MaxFaults
      BY <2>1, BoundsAssumption DEF PoolInv, TypeOK, FpmTypes, fpm, Fault
    <2>4. pc' \in Steps
      BY <2>1 DEF Steps
    <2> QED BY <2>1, <2>2, <2>3, <2>4, QuietStepKeeps
  <1>2. ASSUME NEW v \in Versions, Apply(v) PROVE PoolInv'
    <2>1. UNCHANGED <<panel, files, pc, call, mem, reply, faults>> /\ Load(v)
      BY <1>2 DEF Apply
    <2>2. FpmTypes'
      BY <2>1, LoadTypes DEF PoolInv, TypeOK, FpmTypes
    <2>3. TypeOK'
      BY <2>1, <2>2 DEF PoolInv, TypeOK, FpmTypes, panel, files
    <2>4. CallIsTrue' /\ JobsOwnTheirSites' /\ PreviousPoolKept'
      BY <2>1 DEF PoolInv, CallIsTrue, JobsOwnTheirSites, PreviousPoolKept, panel, files, Me
    <2> QED BY <2>3, <2>4 DEF PoolInv
  <1> QED BY <1>1, <1>2

\* A version change is put back into the queue.
LEMMA RetryKeeps == PoolInv /\ RetryPHPVersionChange => PoolInv'
  <1> SUFFICES ASSUME PoolInv, RetryPHPVersionChange PROVE PoolInv'
    OBVIOUS
  <1>1. pc' = "idle" /\ UNCHANGED <<panel, files, fpm, call, mem, reply, faults>>
    BY DEF RetryPHPVersionChange
  <1>2. TypeOK'
    BY <1>1 DEF PoolInv, TypeOK, panel, files, fpm, Steps
  <1>3. CallIsTrue' /\ JobsOwnTheirSites' /\ PreviousPoolKept'
    BY <1>1 DEF PoolInv, CallIsTrue, JobsOwnTheirSites, PreviousPoolKept, panel, files
  <1> QED BY <1>2, <1>3 DEF PoolInv

\* The outcome is written down.  A site that becomes active has a pool of the
\* version that is written with it.
LEMMA FinishJobKeeps == PoolInv /\ FinishJob => PoolInv'
  <1> SUFFICES ASSUME PoolInv, FinishJob PROVE PoolInv'
    OBVIOUS
  <1> DEFINE row == [status |-> Outcome, version |-> IF reply = "ok" THEN call.to ELSE call.from]
  <1>1. /\ pc = "answered" /\ ~(reply = "unknown" /\ call.kind = "site.php_version")
        /\ pc' = "idle" /\ queue' = Tail(queue) /\ site' = [site EXCEPT ![Me] = row]
        /\ UNCHANGED <<jobs, files, fpm, call, mem, reply, faults>>
    BY DEF FinishJob
  <1>2. /\ queue # <<>> /\ call = queue[1] /\ 1 \in DOMAIN queue /\ Me \in Sites
        /\ call.from \in Versions /\ call.to \in Versions /\ call.kind \in Kinds
        /\ site[Me] = [status |-> Reserved(call.kind), version |-> call.from]
        /\ (call.kind = "site.php_version" <=> call.from # call.to)
    BY <1>1, TheCall
  <1>3. queue \in Seq(Job) /\ site \in [Sites -> [status : Status, version : Versions \cup {None}]]
    BY DEF PoolInv, TypeOK
  <1>4. row.status = Outcome /\ row.version \in Versions
        /\ row.version = IF reply = "ok" THEN call.to ELSE call.from
    BY <1>2
  <1>5. Outcome \in Status
    BY DEF Outcome, Status
  <1>6. row \in [status : Status, version : Versions \cup {None}]
    BY <1>4, <1>5
  <1>7. site'[Me] = row /\ \A t \in Sites \ {Me} : site'[t] = site[t]
    BY <1>1, <1>2, <1>3
  <1>8. /\ queue' \in Seq(Job)
        /\ \A i \in DOMAIN queue' : i + 1 \in DOMAIN queue /\ i # 0 /\ queue'[i] = queue[i + 1]
    BY <1>1, <1>2, <1>3, FinishedJob
  <1>9. TypeOK'
    <2> HIDE DEF row
    <2>1. site' \in [Sites -> [status : Status, version : Versions \cup {None}]]
      BY <1>1, <1>3, <1>6
    <2>2. abandoned' \in [Sites -> SUBSET Versions]
      <3>1. abandoned \in [Sites -> SUBSET Versions] /\ Abandoned \in SUBSET Versions
        BY <1>2 DEF PoolInv, TypeOK, Abandoned
      <3> QED BY <3>1 DEF FinishJob
    <2> QED BY <1>1, <1>8, <2>1, <2>2 DEF PoolInv, TypeOK, files, fpm, Steps
  <1>10. JobsOwnTheirSites'
    <2> HIDE DEF row
    <2>1. \A i \in DOMAIN queue' : queue'[i].site \in Sites \ {Me}
      <3> TAKE i \in DOMAIN queue'
      <3>1. i + 1 \in DOMAIN queue /\ i + 1 # 1 /\ queue'[i] = queue[i + 1]
        BY <1>8
      <3>2. queue[i + 1].site # queue[1].site
        BY <1>2, <3>1 DEF PoolInv, JobsOwnTheirSites
      <3> QED BY <1>2, <1>3, <3>1, <3>2, QueuedJobs DEF Me
    <2>2. \A i \in DOMAIN queue' :
            /\ site'[queue'[i].site] = [status |-> Reserved(queue'[i].kind), version |-> queue'[i].from]
            /\ queue'[i].kind = "site.php_version" <=> queue'[i].from # queue'[i].to
      BY <1>7, <1>8, <2>1 DEF PoolInv, JobsOwnTheirSites
    <2>3. \A i, m \in DOMAIN queue' : queue'[i].site = queue'[m].site => i = m
      <3> TAKE i, m \in DOMAIN queue'
      <3>1. i + 1 \in DOMAIN queue /\ m + 1 \in DOMAIN queue
            /\ queue'[i] = queue[i + 1] /\ queue'[m] = queue[m + 1]
        BY <1>8
      <3>2. queue'[i].site = queue'[m].site => i + 1 = m + 1
        BY <3>1 DEF PoolInv, JobsOwnTheirSites
      <3>3. i \in Nat /\ m \in Nat
        BY <1>8
      <3> QED BY <3>2, <3>3
    <2>4. \A t \in Sites : site'[t].version = None => site'[t].status = "absent"
      BY <1>4, <1>7, NoneAssumption DEF PoolInv, JobsOwnTheirSites
    <2> QED BY <2>2, <2>3, <2>4 DEF JobsOwnTheirSites
  <1>11. CallIsTrue'
    BY <1>1 DEF CallIsTrue
  <1>12. PreviousPoolKept'
    <2>1. pool' = pool /\ saved' = saved
      BY <1>1 DEF files
    <2>2. reply = "ok" => call.kind = "site.disable" \/ call.to \in pool[Me]
      BY <1>1 DEF PoolInv, CallIsTrue
    <2>3. call.kind = "site.php_version" => call.from \in pool[Me] \cup saved[Me]
      <3>1. site[Me].status = Reserved(call.kind) /\ site[Me].version = call.from
        BY <1>2
      <3>2. call.kind = "site.php_version" => site[Me].status = "php_changing"
        BY <3>1 DEF Reserved
      <3> QED BY <1>2, <3>1, <3>2 DEF PoolInv, PreviousPoolKept
    <2>4. Outcome \in {"active", "php_changing", "php_change_failed"} =>
            call.kind = "site.php_version" \/ (reply = "ok" /\ call.kind # "site.disable")
      BY <1>2 DEF Outcome, Kinds
    <2>5. row.status \in {"active", "php_changing", "php_change_failed"} =>
            row.version \in pool[Me] \cup saved[Me]
      BY <1>4, <2>2, <2>3, <2>4
    <2> HIDE DEF row
    <2> QED BY <1>7, <2>1, <2>5 DEF PoolInv, PreviousPoolKept
  <1> QED BY <1>9, <1>10, <1>11, <1>12 DEF PoolInv

-----------------------------------------------------------------------------
(* The specification. *)

\* At the start each active site has its pool, and there are no jobs.
LEMMA StartsKnown == Init => PoolInv
  <1> SUFFICES ASSUME Init PROVE PoolInv
    OBVIOUS
  <1>1. PICK v \in [Established -> Versions] :
          LET In(s) == IF s \in Established THEN {v[s]} ELSE {} IN
          /\ site = [s \in Sites |-> IF s \in Established
                       THEN [status |-> "active", version |-> v[s]]
                       ELSE [status |-> "absent", version |-> None]]
          /\ pool = [s \in Sites |-> In(s)]
          /\ listener = [s \in Sites |-> IF s \in Established THEN v[s] ELSE None]
          /\ running = UNION {In(s) : s \in Sites}
    BY DEF Init
  <1>2. /\ saved = [s \in Sites |-> {}] /\ asked = {} /\ queue = <<>> /\ jobs = 0
        /\ pc = "idle" /\ mem = NoCall /\ reply = "none" /\ faults = 0
    BY DEF Init
  <1>3. site \in [Sites -> [status : Status, version : Versions \cup {None}]]
    BY <1>1 DEF Status
  <1>4. pool \in [Sites -> SUBSET Versions] /\ listener \in [Sites -> Versions \cup {None}]
        /\ running \subseteq Versions
    BY <1>1
  <1>5. mem \in [existed : BOOLEAN, stop : BOOLEAN]
    <2>1. FALSE \in BOOLEAN
      OBVIOUS
    <2> QED BY <1>2, <2>1 DEF NoCall
  <1>6. TypeOK
    <2>1. abandoned \in [Sites -> SUBSET Versions]
      BY <1>1 DEF Init
    <2> QED BY <1>2, <1>3, <1>4, <1>5, <2>1, BoundsAssumption DEF TypeOK, Steps
  <1>7. JobsOwnTheirSites /\ CallIsTrue
    <2>1. \A s \in Sites : site[s].version = None => site[s].status = "absent"
      BY <1>1, NoneAssumption
    <2> QED BY <1>2, <2>1 DEF JobsOwnTheirSites, CallIsTrue
  <1>8. PreviousPoolKept
    BY <1>1 DEF PreviousPoolKept
  <1> QED BY <1>6, <1>7, <1>8 DEF PoolInv

\* Every step keeps it.
LEMMA NextKeeps == PoolInv /\ [Next]_vars => PoolInv'
  <1> SUFFICES ASSUME PoolInv, [Next]_vars PROVE PoolInv'
    OBVIOUS
  <1>1. CASE Handlers
    BY <1>1, HandlersKeep
  <1>2. CASE CallStep
    BY <1>2, CallHostKeeps, BeginKeeps, FailingKeeps, PackagesKeep, CommandsKeep, AnsweringKeeps,
       WritesKeep, DisableKeeps, RetryKeeps, FinishJobKeeps DEF CallStep
  <1>3. CASE StopBroker \/ LoseAnswer \/ (\E v \in Versions : Apply(v))
    BY <1>3, MishapsKeep
  <1>4. CASE UNCHANGED vars
    BY <1>4 DEF vars, panel, files, fpm, PoolInv, TypeOK, JobsOwnTheirSites, CallIsTrue,
       PreviousPoolKept, Me
  <1> QED BY <1>1, <1>2, <1>3, <1>4 DEF Next

\* Whatever fails, whatever is broken off and however often it is repeated, the
\* panel and the host agree on where the pools are.
THEOREM PoolsStayKnown == Spec => []PoolInv
  BY StartsKnown, NextKeeps, PTL DEF Spec

\* ChangePHPVersion never loses the pool of the version that the panel shows:
\* it is in its directory, or there is the recovery copy.
THEOREM PreviousPoolIsKept == Spec => []PreviousPoolKept
  <1>1. PoolInv => PreviousPoolKept
    BY DEF PoolInv
  <1> QED BY <1>1, PoolsStayKnown, PTL
-----------------------------------------------------------------------------
(* Where the pools are. *)

\* What a step keeps that touches neither rows nor pools.
LEMMA RestMoves ==
  ASSUME MoveInv, UNCHANGED <<site, queue, abandoned, pool>>, ChangeKnowsPools'
  PROVE  MoveInv'
  BY DEF MoveInv, StraysAreExpected, RowsTell

\* A stray pool of the site of a call belongs to that call.
LEMMA MyStrays ==
  ASSUME PoolInv, MoveInv, pc # "idle"
  PROVE  \A v \in pool[Me] \ ({call.from} \cup abandoned[Me]) :
           call.kind = "site.php_version" /\ v = call.to /\ call.from \notin pool[Me]
  <1> TAKE v \in pool[Me] \ ({call.from} \cup abandoned[Me])
  <1>1. Me \in Sites /\ site[Me].version = call.from /\ 1 \in DOMAIN queue /\ call = queue[1]
    BY TheCall
  <1>2. PICK i \in DOMAIN queue :
          /\ queue[i].site = Me /\ queue[i].kind = "site.php_version"
          /\ queue[i].to = v /\ queue[i].from \notin pool[Me]
    BY <1>1 DEF MoveInv, StraysAreExpected
  <1>3. i = 1
    BY <1>1, <1>2 DEF PoolInv, JobsOwnTheirSites, Me
  <1> QED BY <1>1, <1>2, <1>3

\* A step of a call may put its site's pool anywhere but in a third place.
LEMMA StepMoves ==
  ASSUME PoolInv, MoveInv, pc # "idle", UNCHANGED panel, call' = call,
         NEW P \in SUBSET Versions, pool' = [pool EXCEPT ![Me] = P],
         \A v \in P \ ({call.from} \cup abandoned[Me]) :
           call.kind = "site.php_version" /\ v = call.to /\ call.from \notin P,
         ChangeKnowsPools'
  PROVE  MoveInv'
  <1>1. Me \in Sites /\ site[Me] = [status |-> Reserved(call.kind), version |-> call.from]
        /\ 1 \in DOMAIN queue /\ call = queue[1] /\ call.kind \in Kinds
    BY TheCall
  <1>2. pool'[Me] = P /\ \A t \in Sites \ {Me} : pool'[t] = pool[t]
    BY <1>1 DEF PoolInv, TypeOK
  <1>3. site[Me].version = call.from /\ site[Me].status \notin {"active", "absent"}
    BY <1>1 DEF Reserved, Kinds
  <1>4. StraysAreExpected'
    <2> SUFFICES ASSUME NEW t \in Sites, NEW v \in pool'[t] \ ({site[t].version} \cup abandoned[t])
                 PROVE  \E i \in DOMAIN queue :
                          /\ queue[i].site = t /\ queue[i].kind = "site.php_version"
                          /\ queue[i].to = v /\ queue[i].from \notin pool'[t]
      BY DEF StraysAreExpected, panel
    <2>1. CASE t = Me
      BY <1>1, <1>2, <1>3, <2>1 DEF Me
    <2>2. CASE t # Me
      BY <1>2, <2>2 DEF MoveInv, StraysAreExpected
    <2> QED BY <2>1, <2>2
  <1>5. RowsTell'
    BY <1>2, <1>3 DEF MoveInv, RowsTell, panel
  <1> QED BY <1>4, <1>5 DEF MoveInv

\* The steps of a call that change no file, or no pool.
LEMMA QuietStepsMove ==
  ASSUME PoolInv, MoveInv,
         \/ CallHost \/ Begin \/ StepFails \/ Packages \/ Save \/ Release \/ Enable \/ ReloadTarget
         \/ Active \/ Ready \/ Succeed \/ UndoRelease \/ UndoEnable \/ UndoReload \/ UndoActive
         \/ UndoReady \/ Halt \/ RetryPHPVersionChange \/ StopBroker \/ LoseAnswer
         \/ \E v \in Versions : Apply(v)
  PROVE  MoveInv'
  <1> USE DEF MoveInv, ChangeKnowsPools, Moving, Me
  <1>1. mem.existed \in BOOLEAN
    BY DEF PoolInv, TypeOK
  <1>2. UnchangedReply \in {"restored", "fail"} /\ (UnchangedReply = "restored" => mem.existed)
    BY <1>1 DEF UnchangedReply
  <1>3. CASE CallHost \/ Begin
    <2>1. CASE CallHost
      BY <2>1, RestMoves DEF CallHost, panel, files
    <2>2. CASE Begin
      <3>1. mem'.existed = (call.from \in pool[Me])
        BY <2>2 DEF Begin, PoolInv, TypeOK
      <3>2. call' = call /\ UNCHANGED <<panel, files>> /\ pc' # "idle"
            /\ (call.kind = "site.php_version" =>
                  pc' = "packages" \/ (pc' = "answered" /\ reply' = "fail"))
        BY <2>2 DEF Begin
      <3>3. ChangeKnowsPools'
        BY <3>1, <3>2 DEF files
      <3> QED BY <3>2, <3>3, RestMoves DEF panel, files
    <2> QED BY <1>3, <2>1, <2>2
  <1>4. CASE StepFails
    BY <1>1, <1>2, <1>4, RestMoves DEF StepFails, GiveUp, panel, files
  <1>5. CASE Packages \/ Save
    BY <1>1, <1>5, RestMoves DEF Packages, Save, Write, Goto, panel, files
  <1>6. CASE Release \/ Enable \/ ReloadTarget
    BY <1>6, RestMoves DEF Release, Enable, ReloadTarget, Command, Goto, GiveUp, panel, files
  <1>7. CASE Active \/ Ready \/ Succeed
    <2>1. pc = "rest" => call.kind # "site.php_version"
      BY DEF PoolInv, CallIsTrue
    <2> QED BY <1>7, <2>1, RestMoves DEF Active, Ready, Succeed, Probe, Goto, GiveUp, panel, files
  <1>8. CASE UndoRelease
    BY <1>8, RestMoves DEF UndoRelease, Command, Goto, GiveUp, panel, files
  <1>9. CASE UndoEnable \/ UndoReload
    BY <1>9, RestMoves DEF UndoEnable, UndoReload, Command, Goto, GiveUp, panel, files
  <1>10. CASE UndoActive \/ UndoReady
    BY <1>10, RestMoves DEF UndoActive, UndoReady, Probe, Goto, GiveUp, panel, files
  <1>11. CASE Halt
    BY <1>11, RestMoves DEF Halt, Goto, panel, files
  <1>12. CASE RetryPHPVersionChange \/ StopBroker \/ LoseAnswer
    BY <1>12, RestMoves DEF RetryPHPVersionChange, StopBroker, LoseAnswer, Answer, panel, files
  <1>13. CASE \E v \in Versions : Apply(v)
    BY <1>13, RestMoves DEF Apply, panel, files
  <1> QED BY <1>3, <1>4, <1>5, <1>6, <1>7, <1>8, <1>9, <1>10, <1>11, <1>12, <1>13

\* The steps that write a pool or remove one.
LEMMA PoolStepsMove ==
  ASSUME PoolInv, MoveInv,
         Remove \/ WritePool \/ UndoRemove \/ UndoRestore \/ DropPool \/ HaltFails
  PROVE  MoveInv'
  <1>1. pc # "idle"
    BY DEF Remove, WritePool, UndoRemove, UndoRestore, DropPool, HaltFails, Write
  <1>2. Me \in Sites /\ call.from \in Versions /\ call.to \in Versions /\ pool[Me] \in SUBSET Versions
        /\ pool \in [Sites -> SUBSET Versions]
        /\ (call.kind = "site.php_version" <=> call.from # call.to)
    BY <1>1, TheCall DEF PoolInv, TypeOK
  <1>3. \A v \in pool[Me] \ ({call.from} \cup abandoned[Me]) :
          call.kind = "site.php_version" /\ v = call.to /\ call.from \notin pool[Me]
    BY <1>1, MyStrays
  <1>4. /\ pc \in Undo \cup Change => call.kind = "site.php_version"
        /\ pc \in {"drop", "halt"} => call.kind = "site.disable"
    BY <1>1 DEF PoolInv, CallIsTrue
  <1>5. CASE Remove
    <2> DEFINE P == pool[Me] \ {call.from}
    <2>1. pool' = [pool EXCEPT ![Me] = P] /\ pool'[Me] = P /\ UNCHANGED panel /\ call' = call
          /\ pc' = "release"
      BY <1>2, <1>5 DEF Remove, Write, Goto
    <2>2. \A v \in P \ ({call.from} \cup abandoned[Me]) :
            call.kind = "site.php_version" /\ v = call.to /\ call.from \notin P
      BY <1>3
    <2>3. ChangeKnowsPools'
      BY <2>1 DEF ChangeKnowsPools, Moving, Me
    <2> QED BY <1>1, <1>2, <2>1, <2>2, <2>3, StepMoves
  <1>6. CASE WritePool
    <2> DEFINE P == pool[Me] \cup {call.to}
    <2>1. pool' = [pool EXCEPT ![Me] = P] /\ pool'[Me] = P /\ UNCHANGED panel /\ call' = call
          /\ pc = "write" /\ pc' = "enable"
      BY <1>2, <1>6 DEF WritePool, Write, Goto
    <2>2. call.kind = "site.php_version" => call.from \notin pool[Me]
      BY <2>1 DEF MoveInv, ChangeKnowsPools, Moving
    <2>3. \A v \in P \ ({call.from} \cup abandoned[Me]) :
            call.kind = "site.php_version" /\ v = call.to /\ call.from \notin P
      BY <1>2, <1>3, <2>2
    <2>4. ChangeKnowsPools'
      BY <1>2, <2>1, <2>2 DEF ChangeKnowsPools, Moving, Me
    <2> QED BY <1>1, <1>2, <2>1, <2>3, <2>4, StepMoves
  <1>7. CASE UndoRemove
    <2> DEFINE P == pool[Me] \ {call.to}
    <2>1. pool' = [pool EXCEPT ![Me] = P] /\ pool'[Me] = P /\ UNCHANGED panel /\ call' = call
          /\ pc = "undo_remove" /\ pc' = "undo_release"
      BY <1>2, <1>7 DEF UndoRemove, Write, Goto
    <2>2. \A v \in P \ ({call.from} \cup abandoned[Me]) :
            call.kind = "site.php_version" /\ v = call.to /\ call.from \notin P
      BY <1>3
    <2>3. ChangeKnowsPools'
      BY <2>1 DEF ChangeKnowsPools, Moving, Me
    <2> QED BY <1>1, <1>2, <2>1, <2>2, <2>3, StepMoves
  <1>8. CASE UndoRestore
    <2> DEFINE P == pool[Me] \cup {call.from}
    <2>1. pool' = [pool EXCEPT ![Me] = P] /\ pool'[Me] = P /\ UNCHANGED panel /\ call' = call
          /\ pc = "undo_restore" /\ pc' = "undo_enable"
      BY <1>2, <1>8 DEF UndoRestore, Write, Goto
    <2>2. call.to \notin pool[Me]
      BY <1>1, <1>4, <2>1 DEF MoveInv, ChangeKnowsPools, Undo
    <2>3. \A v \in P \ ({call.from} \cup abandoned[Me]) :
            call.kind = "site.php_version" /\ v = call.to /\ call.from \notin P
      BY <1>3, <2>2
    <2>4. ChangeKnowsPools'
      BY <2>1 DEF ChangeKnowsPools, Moving, Me
    <2> QED BY <1>1, <1>2, <2>1, <2>3, <2>4, StepMoves
  <1>9. CASE DropPool \/ HaltFails
    <2>1. call.kind = "site.disable" /\ UNCHANGED panel /\ call' = call
      BY <1>4, <1>9 DEF DropPool, HaltFails, Goto, GiveUp
    <2>2. PICK P \in {pool[Me], pool[Me] \cup {call.from}, pool[Me] \ {call.from}} :
            pool' = [pool EXCEPT ![Me] = P]
      BY <1>2, <1>9 DEF DropPool, HaltFails
    <2>3. \A v \in P \ ({call.from} \cup abandoned[Me]) :
            call.kind = "site.php_version" /\ v = call.to /\ call.from \notin P
      BY <1>3, <2>1
    <2>4. ChangeKnowsPools'
      BY <2>1 DEF ChangeKnowsPools
    <2>5. P \in SUBSET Versions
      BY <1>2
    <2> QED BY <1>1, <2>1, <2>2, <2>3, <2>4, <2>5, StepMoves
  <1> QED BY <1>5, <1>6, <1>7, <1>8, <1>9

\* A job takes a site that has no stray pool but those of failed changes.
LEMMA RequestMoves ==
  ASSUME PoolInv, MoveInv, NEW s \in Sites, NEW k \in Kinds, NEW from \in Versions, NEW to \in Versions,
         Request(s, k, from, to, [status |-> Reserved(k), version |-> from]),
         \A i \in DOMAIN queue : queue[i].site # s,
         pool[s] \subseteq {from} \cup abandoned[s]
  PROVE  MoveInv'
  <1> DEFINE row == [status |-> Reserved(k), version |-> from]
             j == [site |-> s, kind |-> k, from |-> from, to |-> to]
  <1>1. UNCHANGED <<pool, abandoned, pc, call, mem, reply>>
    BY DEF Request, files
  <1>2. site'[s] = row /\ \A t \in Sites \ {s} : site'[t] = site[t]
    BY DEF Request, PoolInv, TypeOK
  <1>3. \A i \in DOMAIN queue : i \in DOMAIN queue' /\ queue'[i] = queue[i]
    <2>1. j \in Job /\ queue \in Seq(Job) /\ queue' = Append(queue, j)
      BY DEF Job, Request, PoolInv, TypeOK
    <2> HIDE DEF j
    <2> QED BY <2>1
  <1>4. StraysAreExpected'
    <2> SUFFICES ASSUME NEW t \in Sites, NEW v \in pool[t] \ ({site'[t].version} \cup abandoned[t])
                 PROVE  \E i \in DOMAIN queue' :
                          /\ queue'[i].site = t /\ queue'[i].kind = "site.php_version"
                          /\ queue'[i].to = v /\ queue'[i].from \notin pool[t]
      BY <1>1 DEF StraysAreExpected
    <2>1. t # s
      BY <1>2
    <2> QED BY <1>2, <1>3, <2>1 DEF MoveInv, StraysAreExpected
  <1>5. RowsTell'
    <2>1. row.status \notin {"active", "absent"}
      BY DEF Reserved, Kinds
    <2> HIDE DEF row
    <2> QED BY <1>1, <1>2, <2>1 DEF MoveInv, RowsTell
  <1>6. ChangeKnowsPools'
    BY <1>1 DEF MoveInv, ChangeKnowsPools, Me
  <1> QED BY <1>4, <1>5, <1>6 DEF MoveInv

\* A site without a job has no stray pool but those of failed changes.
LEMMA IdleSites ==
  ASSUME MoveInv, NEW s \in Sites, \A i \in DOMAIN queue : queue[i].site # s
  PROVE  pool[s] \subseteq {site[s].version} \cup abandoned[s]
  BY DEF MoveInv, StraysAreExpected

\* The handlers between them.
LEMMA HandlersMove ==
  ASSUME PoolInv, MoveInv, Handlers
  PROVE  MoveInv'
  <1> PICK s \in Sites :
        \/ EnqueueSiteProvisionRetry(s) \/ EnqueueSiteDisable(s) \/ EnqueueSiteEnable(s)
        \/ \E v \in Versions : CreateSite(s, v) \/ EnqueuePHPVersionChange(s, v)
    BY DEF Handlers
  <1> DEFINE v0 == site[s].version
  <1>1. site[s].status # "absent" => v0 \in Versions
    BY DEF PoolInv, TypeOK, JobsOwnTheirSites
  <1>2. CASE EnqueueSiteProvisionRetry(s)
    <2>1. Request(s, "site.provision", v0, v0, [status |-> Reserved("site.provision"), version |-> v0])
          /\ site[s].status = "failed"
      BY <1>2 DEF EnqueueSiteProvisionRetry, Transition, Reserved
    <2> QED BY <1>1, <2>1, RequestMoves, IdleSites, SettledIsIdle DEF Kinds
  <1>3. CASE EnqueueSiteDisable(s)
    <2>1. Request(s, "site.disable", v0, v0, [status |-> Reserved("site.disable"), version |-> v0])
          /\ site[s].status \in {"active", "disable_failed"}
      BY <1>3 DEF EnqueueSiteDisable, Transition, Reserved
    <2> QED BY <1>1, <2>1, RequestMoves, IdleSites, SettledIsIdle DEF Kinds
  <1>4. CASE EnqueueSiteEnable(s)
    <2>1. Request(s, "site.enable", v0, v0, [status |-> Reserved("site.enable"), version |-> v0])
          /\ site[s].status \in {"disabled", "enable_failed"}
      BY <1>4 DEF EnqueueSiteEnable, Transition, Reserved
    <2> QED BY <1>1, <2>1, RequestMoves, IdleSites, SettledIsIdle DEF Kinds
  <1>5. ASSUME NEW v \in Versions, CreateSite(s, v) PROVE MoveInv'
    <2>1. Request(s, "site.provision", v, v, [status |-> Reserved("site.provision"), version |-> v])
          /\ site[s].status = "absent"
      BY <1>5 DEF CreateSite, Reserved
    <2>2. pool[s] \subseteq {v} \cup abandoned[s]
      <3>1. site[s].version = None /\ pool[s] \subseteq Versions
        BY <2>1 DEF MoveInv, RowsTell, PoolInv, TypeOK
      <3> QED BY <2>1, <3>1, SettledIsIdle, IdleSites, NoneAssumption
    <2> QED BY <2>1, <2>2, RequestMoves, SettledIsIdle DEF Kinds
  <1>6. ASSUME NEW v \in Versions, EnqueuePHPVersionChange(s, v) PROVE MoveInv'
    <2>1. Request(s, "site.php_version", v0, v, [status |-> Reserved("site.php_version"), version |-> v0])
          /\ site[s].status \in {"active", "php_change_failed"}
      BY <1>6 DEF EnqueuePHPVersionChange, Reserved
    <2> QED BY <1>1, <2>1, RequestMoves, IdleSites, SettledIsIdle DEF Kinds
  <1> QED BY <1>2, <1>3, <1>4, <1>5, <1>6

\* The outcome is written down, with the branch that a failed change may have
\* left a pool in.
LEMMA FinishMoves ==
  ASSUME PoolInv, MoveInv, FinishJob
  PROVE  MoveInv'
  <1> DEFINE row == [status |-> Outcome, version |-> IF reply = "ok" THEN call.to ELSE call.from]
  <1>1. /\ pc = "answered" /\ ~(reply = "unknown" /\ call.kind = "site.php_version")
        /\ pc' = "idle" /\ queue' = Tail(queue) /\ site' = [site EXCEPT ![Me] = row]
        /\ abandoned' = [abandoned EXCEPT ![Me] = Abandoned] /\ pool' = pool
    BY DEF FinishJob, files
  <1>2. /\ queue # <<>> /\ call = queue[1] /\ 1 \in DOMAIN queue /\ Me \in Sites
        /\ call.kind \in Kinds /\ site[Me].version = call.from
        /\ (call.kind = "site.php_version" <=> call.from # call.to)
    BY <1>1, TheCall
  <1>3. /\ site'[Me] = row /\ abandoned'[Me] = Abandoned
        /\ \A t \in Sites \ {Me} : site'[t] = site[t] /\ abandoned'[t] = abandoned[t]
    BY <1>1, <1>2 DEF PoolInv, TypeOK
  <1>4. row.status = Outcome /\ row.version = IF reply = "ok" THEN call.to ELSE call.from
    OBVIOUS
  <1>5. \A v \in pool[Me] \ ({call.from} \cup abandoned[Me]) :
          call.kind = "site.php_version" /\ v = call.to /\ call.from \notin pool[Me]
    BY <1>1, MyStrays
  <1>6. call.kind = "site.php_version" =>
          /\ reply = "ok" => call.from \notin pool[Me]
          /\ reply = "restored" => call.from \in pool[Me]
    BY <1>1 DEF MoveInv, ChangeKnowsPools
  <1>7. pool[Me] \subseteq {row.version} \cup Abandoned
    BY <1>2, <1>4, <1>5, <1>6 DEF Abandoned
  <1>8. StraysAreExpected'
    <2> SUFFICES ASSUME NEW t \in Sites, NEW v \in pool[t] \ ({site'[t].version} \cup abandoned'[t])
                 PROVE  \E i \in DOMAIN queue' :
                          /\ queue'[i].site = t /\ queue'[i].kind = "site.php_version"
                          /\ queue'[i].to = v /\ queue'[i].from \notin pool[t]
      BY <1>1 DEF StraysAreExpected
    <2> HIDE DEF row
    <2>1. t # Me
      BY <1>3, <1>7
    <2>2. PICK i \in DOMAIN queue :
            /\ queue[i].site = t /\ queue[i].kind = "site.php_version"
            /\ queue[i].to = v /\ queue[i].from \notin pool[t]
      BY <1>3, <2>1 DEF MoveInv, StraysAreExpected
    <2>3. i # 1
      BY <1>2, <2>1, <2>2 DEF Me
    <2>4. i - 1 \in DOMAIN queue' /\ queue'[i - 1] = queue[i]
      BY <1>1, <1>2, <2>3 DEF PoolInv, TypeOK
    <2> QED BY <2>2, <2>4
  <1>9. RowsTell'
    <2>1. Outcome = "active" =>
            \/ call.kind = "site.php_version" /\ reply \in {"ok", "restored"}
            \/ call.kind # "site.disable" /\ reply = "ok"
      BY <1>2 DEF Outcome, Kinds
    <2>2. reply = "ok" => call.kind = "site.disable" \/ call.to \in pool[Me]
      BY <1>1 DEF PoolInv, CallIsTrue
    <2>3. row.status = "active" => row.version \in pool[Me]
      BY <1>4, <1>6, <2>1, <2>2
    <2>4. row.status # "absent"
      BY <1>4 DEF Outcome
    <2> HIDE DEF row
    <2> QED BY <1>1, <1>3, <2>3, <2>4 DEF MoveInv, RowsTell
  <1>10. ChangeKnowsPools'
    BY <1>1 DEF ChangeKnowsPools
  <1> QED BY <1>8, <1>9, <1>10 DEF MoveInv

\* Every step keeps the pools where rows and call say.
LEMMA NextMoves == PoolInv /\ MoveInv /\ [Next]_vars => MoveInv'
  <1> SUFFICES ASSUME PoolInv, MoveInv, [Next]_vars PROVE MoveInv'
    OBVIOUS
  <1>1. CASE Handlers
    BY <1>1, HandlersMove
  <1>2. CASE CallStep
    BY <1>2, QuietStepsMove, PoolStepsMove, FinishMoves DEF CallStep
  <1>3. CASE StopBroker \/ LoseAnswer \/ (\E v \in Versions : Apply(v))
    BY <1>3, QuietStepsMove
  <1>4. CASE UNCHANGED vars
    <2>1. ChangeKnowsPools'
      BY <1>4 DEF vars, panel, files, MoveInv, ChangeKnowsPools, Me
    <2> QED BY <1>4, <2>1, RestMoves DEF vars, panel, files
  <1> QED BY <1>1, <1>2, <1>3, <1>4 DEF Next

\* At the start the active sites have their pools and nobody has another.
LEMMA StartsMoved == Init => MoveInv
  BY DEF Init, MoveInv, StraysAreExpected, RowsTell, ChangeKnowsPools

\* What the panel calls active has its pool in the branch of its version and in
\* no other but those of failed changes, whoever else changes, fails or repeats.
THEOREM PoolsAreMoved == Spec => []PoolIsMoved
  <1>1. PoolInv /\ MoveInv => PoolIsMoved
    <2> SUFFICES ASSUME PoolInv, MoveInv, NEW s \in Sites, site[s].status = "active"
                 PROVE  /\ site[s].version \in pool[s]
                        /\ pool[s] \subseteq {site[s].version} \cup abandoned[s]
      BY DEF PoolIsMoved
    <2>1. \A i \in DOMAIN queue : queue[i].site # s
      BY SettledIsIdle
    <2> QED BY <2>1, IdleSites DEF MoveInv, RowsTell
  <1> QED BY <1>1, StartsMoved, NextMoves, PoolsStayKnown, PTL DEF Spec

-----------------------------------------------------------------------------
(* The neighbours. *)

\* A branch that starts, or stops without a pool, takes no listener that serves.
LEMMA BranchesSpareOthers ==
  ASSUME PoolInv, NEW v \in Versions, Start(v) \/ Reload(v) \/ ReloadOrStopUnused(v) \/ UNCHANGED fpm,
         NEW t \in Sites, Served(t)
  PROVE  listener'[t] = listener[t]
  <1>1. listener[t] \in pool[t] /\ listener[t] # None /\ pool[t] \subseteq Versions
    BY NoneAssumption DEF Served, PoolInv, TypeOK
  <1>2. CASE UNCHANGED listener
    BY <1>2
  <1>3. CASE Has(v) = {} /\ Stop(v)
    <2>1. listener[t] # v
      BY <1>1, <1>3 DEF Has
    <2> QED BY <1>3, <2>1 DEF Stop, Drop
  <1>4. CASE Loadable(v) /\ Load(v)
    <2>1. listener'[t] = IF t \in Has(v) THEN v ELSE Drop(v)[t]
      BY <1>4 DEF Load
    <2>2. t \in Has(v) => listener[t] = v
      BY <1>1, <1>4 DEF Loadable
    <2>3. t \notin Has(v) => listener[t] # v
      BY <1>1 DEF Has
    <2> QED BY <2>1, <2>2, <2>3 DEF Drop
  <1> QED BY <1>2, <1>3, <1>4 DEF Start, Reload, ReloadOrStopUnused, fpm

\* No step of a change, of its rollback or of its repetition takes the listener
\* of another site's pool away.
THEOREM NeighboursKeepTheirBranch == Spec => ChangesKeepNeighbours
  <1>1. ASSUME PoolInv, Next, pc # "idle", pc' # pc, call.kind = "site.php_version",
               NEW t \in Sites \ {Me}, Served(t)
        PROVE  listener'[t] = listener[t]
    <2>1. call.from \in Versions /\ call.to \in Versions
      BY <1>1, TheCall
    <2>2. CASE Release \/ Enable \/ ReloadTarget \/ UndoRelease \/ UndoEnable \/ UndoReload
      <3>1. \/ UNCHANGED fpm
            \/ ReloadOrStopUnused(call.from) \/ Start(call.to) \/ Reload(call.to)
            \/ ReloadOrStopUnused(call.to) \/ Start(call.from) \/ Reload(call.from)
        BY <2>2 DEF Release, Enable, ReloadTarget, UndoRelease, UndoEnable, UndoReload, Command
      <3> QED BY <1>1, <2>1, <3>1, BranchesSpareOthers
    <2>3. ~Halt /\ ~HaltFails /\ ~\E v \in Versions : Apply(v)
      BY <1>1 DEF Halt, HaltFails, Apply, PoolInv, CallIsTrue
    <2>4. CASE Handlers
      BY <2>4 DEF Handlers, EnqueueSiteProvisionRetry, EnqueueSiteDisable, EnqueueSiteEnable, CreateSite,
         EnqueuePHPVersionChange, Transition, Request, fpm
    <2>5. CASE StopBroker \/ LoseAnswer
      BY <2>5 DEF StopBroker, LoseAnswer, fpm
    <2>6. CASE CallStep
      BY <2>2, <2>3, <2>6 DEF CallStep, CallHost, Begin, StepFails, Packages, Save, Remove, WritePool,
         Active, Ready, Succeed, UndoRemove, UndoRestore, UndoActive, UndoReady, DropPool,
         RetryPHPVersionChange, FinishJob, Write, Probe, fpm
    <2> QED BY <1>1, <2>3, <2>4, <2>5, <2>6 DEF Next
  <1>2. PoolInv /\ [Next]_vars =>
          [pc # "idle" /\ pc' # pc /\ call.kind = "site.php_version" =>
             \A t \in Sites \ {Me} : Served(t) => listener'[t] = listener[t]]_vars
    BY <1>1
  <1> QED BY <1>2, PoolsStayKnown, PTL DEF Spec, ChangesKeepNeighbours
=============================================================================
