---------------------------- MODULE PHPBranches ----------------------------
(***************************************************************************)
(* Sites that share PHP branches.  Each PHP version is one FPM service that *)
(* serves the pools in its directory; a site has one socket, whichever      *)
(* branch its pool is in.  Provisioning, enabling and disabling put a pool  *)
(* into a branch or take it out; ChangePHPVersion moves it from one branch  *)
(* to another and back if that fails.  The host runs one call at a time, a  *)
(* call may fail or be broken off at any step, and a version change whose   *)
(* answer was lost is repeated before any later job.  FPM applies a reload  *)
(* at some time after systemctl has returned.                               *)
(***************************************************************************)
EXTENDS Naturals, Sequences, FiniteSets

CONSTANTS Sites, Versions,
          None,         \* no version
          Established,  \* the sites that are active at the start
          MaxJobs,      \* bound: requests of operators
          MaxFaults     \* bound: failed steps, stops and lost answers

ASSUME NoneAssumption == None \notin Versions
ASSUME EstablishedAssumption == Established \subseteq Sites
ASSUME BoundsAssumption == MaxJobs \in Nat /\ MaxFaults \in Nat

VARIABLES
    \* the panel's database
    site,      \* status and PHP version of each site
    queue,     \* its pending jobs, oldest first; only the first one is worked on
    jobs,      \* how many there have been
    \* the host
    pool,      \* the branches whose directory has a pool of the site
    saved,     \* the branches that keep a recovery copy of its pool
    listener,  \* the branch that listens on its socket
    running,   \* the branches whose service runs
    asked,     \* the branches that have a reload to apply
    \* the call
    pc, call, mem, reply, faults,
    \* history
    abandoned  \* the branches to which a change of the site has failed, and none succeeded since

panel == <<site, queue, jobs, abandoned>>
files == <<pool, saved>>
fpm   == <<listener, running, asked>>
vars  == <<panel, files, fpm, pc, call, mem, reply, faults>>

Kinds  == {"site.provision", "site.enable", "site.disable", "site.php_version"}
Status == {"absent", "queued", "active", "failed", "disabling", "disabled", "disable_failed",
           "enabling", "enable_failed", "php_changing", "php_change_failed"}
Job    == [site : Sites, kind : Kinds, from : Versions, to : Versions]
Undo   == {"undo_remove", "undo_release", "undo_restore", "undo_enable", "undo_reload",
           "undo_active", "undo_ready"}
Change == {"packages", "save", "remove", "release", "active", "ready", "nginx"}
Steps  == Undo \cup Change \cup
          {"idle", "start", "write", "enable", "reload", "rest", "drop", "halt", "answered"}

TypeOK ==
    /\ site \in [Sites -> [status : Status, version : Versions \cup {None}]]
    /\ queue \in Seq(Job) /\ jobs \in 0..MaxJobs
    /\ abandoned \in [Sites -> SUBSET Versions]
    /\ pool \in [Sites -> SUBSET Versions] /\ saved \in [Sites -> SUBSET Versions]
    /\ listener \in [Sites -> Versions \cup {None}]
    /\ running \subseteq Versions /\ asked \subseteq Versions
    /\ pc \in Steps /\ (pc # "idle" => call \in Job)
    /\ mem \in [existed : BOOLEAN, stop : BOOLEAN]
    /\ reply \in {"none", "ok", "fail", "restored", "unknown"}
    /\ faults \in 0..MaxFaults

NoCall == [existed |-> FALSE, stop |-> FALSE]

Init ==
    /\ \E v \in [Established -> Versions] :
         LET In(s) == IF s \in Established THEN {v[s]} ELSE {} IN
         /\ site = [s \in Sites |-> IF s \in Established
                      THEN [status |-> "active", version |-> v[s]]
                      ELSE [status |-> "absent", version |-> None]]
         /\ pool = [s \in Sites |-> In(s)]
         /\ listener = [s \in Sites |-> IF s \in Established THEN v[s] ELSE None]
         /\ running = UNION {In(s) : s \in Sites}
    /\ saved = [s \in Sites |-> {}] /\ asked = {}
    /\ queue = <<>> /\ jobs = 0 /\ abandoned = [s \in Sites |-> {}]
    /\ pc = "idle" /\ call = None /\ mem = NoCall /\ reply = "none" /\ faults = 0

-----------------------------------------------------------------------------
(***************************************************************************)
(* The handlers.  A job takes the status of its site until it is finished.  *)
(***************************************************************************)
Request(s, k, from, to, row) ==
    /\ jobs < MaxJobs /\ jobs' = jobs + 1
    /\ queue' = Append(queue, [site |-> s, kind |-> k, from |-> from, to |-> to])
    /\ site' = [site EXCEPT ![s] = row]
    /\ UNCHANGED <<abandoned, files, fpm, pc, call, mem, reply, faults>>

CreateSite(s, v) ==
    /\ site[s].status = "absent"
    /\ Request(s, "site.provision", v, v, [status |-> "queued", version |-> v])

Transition(s, k, allowed, status) ==
    LET v == site[s].version IN
    /\ site[s].status \in allowed
    /\ Request(s, k, v, v, [status |-> status, version |-> v])

EnqueueSiteProvisionRetry(s) == Transition(s, "site.provision", {"failed"}, "queued")
EnqueueSiteDisable(s) == Transition(s, "site.disable", {"active", "disable_failed"}, "disabling")
EnqueueSiteEnable(s)  == Transition(s, "site.enable", {"disabled", "enable_failed"}, "enabling")

EnqueuePHPVersionChange(s, v) ==
    /\ site[s].status \in {"active", "php_change_failed"} /\ v # site[s].version
    /\ Request(s, "site.php_version", site[s].version, v,
               [status |-> "php_changing", version |-> site[s].version])

-----------------------------------------------------------------------------
(***************************************************************************)
(* PHP-FPM and systemd, external.  A branch serves the pools it finds when  *)
(* it starts or reloads; it cannot do so when another branch listens on the *)
(* socket of one of them.                                                   *)
(***************************************************************************)
Has(v) == {s \in Sites : v \in pool[s]}

Loadable(v) == \A s \in Has(v) : listener[s] \in {None, v}

Drop(v) == [s \in Sites |-> IF listener[s] = v THEN None ELSE listener[s]]

Stop(v) ==
    /\ running' = running \ {v} /\ asked' = asked \ {v} /\ listener' = Drop(v)

\* What a start or a reload comes to.
Load(v) ==
    IF Loadable(v)
    THEN /\ running' = running \cup {v} /\ asked' = asked \ {v}
         /\ listener' = [s \in Sites |-> IF s \in Has(v) THEN v ELSE Drop(v)[s]]
    ELSE Stop(v)

\* systemctl start: a service that runs is left alone.
Start(v) ==
    IF v \in running THEN UNCHANGED fpm ELSE Loadable(v) /\ Load(v)

\* systemctl reload signals a running service, and returns.
Reload(v) ==
    /\ v \in running
    /\ asked' = asked \cup {v} /\ UNCHANGED <<listener, running>>

\* FPM gets to the reload.
Apply(v) ==
    /\ v \in asked /\ Load(v)
    /\ UNCHANGED <<panel, files, pc, call, mem, reply, faults>>

\* Mutant of ReloadOrStopUnused: a branch is stopped with the pool that leaves it.
StopUnused(v) == Stop(v)

\* reloadOrStopUnused: what counts are the pools that are in the directory.
ReloadOrStopUnused(v) == IF Has(v) = {} THEN Stop(v) ELSE Reload(v)

-----------------------------------------------------------------------------
(***************************************************************************)
(* A call.                                                                  *)
(***************************************************************************)
Me      == call.site
Fault   == faults < MaxFaults /\ faults' = faults + 1
Goto(p) == pc' = p /\ UNCHANGED <<call, mem, reply, faults>>
Answer(r) == pc' = "answered" /\ reply' = r /\ UNCHANGED <<call, mem>>

\* OtherActiveSiteUsesPHP, which the worker asks before it calls Disable.
OtherActiveSiteUsesPHP(s, v) ==
    \E t \in Sites \ {s} :
      site[t].status \notin {"absent", "disabled", "failed"} /\ site[t].version = v

CallHost ==
    /\ pc = "idle" /\ queue # <<>>
    /\ call' = Head(queue) /\ pc' = "start"
    /\ LET j == Head(queue) IN
       mem' = [existed |-> FALSE,
               stop |-> j.kind = "site.disable" /\ ~OtherActiveSiteUsesPHP(j.site, j.from)]
    /\ reply' = "none"
    /\ UNCHANGED <<panel, files, fpm, faults>>

\* What the call does first, and whether the old pool is where it belongs.
Begin ==
    /\ pc = "start"
    /\ mem' = [mem EXCEPT !.existed = call.from \in pool[Me]]
    /\ IF call.kind = "site.php_version" /\ call.from \notin pool[Me] \cup saved[Me]
       THEN pc' = "answered" /\ reply' = "fail"
       ELSE /\ pc' = CASE call.kind = "site.php_version" -> "packages"
                       [] call.kind = "site.disable" -> "drop"
                       [] OTHER -> "write"
            /\ UNCHANGED reply
    /\ UNCHANGED <<panel, files, fpm, call, faults>>

\* unchangedFailure: the old pool counts as serving when its branch is active
\* and somebody accepts connections.
UnchangedReply ==
    IF mem.existed /\ call.from \in running /\ listener[Me] # None THEN "restored" ELSE "fail"

\* Where a failure leads: nothing was changed yet; the change is undone; or the
\* call just fails, and with it the undoing.
Moving == {"release", "write", "enable", "reload", "active", "ready", "nginx"}
GiveUp ==
    /\ UNCHANGED <<call, mem>>
    /\ CASE pc \in {"packages", "save", "remove"} -> pc' = "answered" /\ reply' = UnchangedReply
         [] pc \in Moving /\ call.kind = "site.php_version" -> pc' = "undo_remove" /\ UNCHANGED reply
         [] OTHER -> pc' = "answered" /\ reply' = "fail"

\* A step fails before it has done anything.
StepFails ==
    /\ pc \notin {"idle", "answered", "halt"} /\ Fault /\ GiveUp
    /\ UNCHANGED <<panel, files, fpm>>

\* A step that changes a file.
Write(step, next, where, there) ==
    /\ pc = step /\ where' = [where EXCEPT ![Me] = there] /\ Goto(next)
    /\ UNCHANGED <<panel, fpm>>

\* A systemd command, which succeeds, or has its effect and still fails, or
\* cannot work on the services as they are.
Command(step, next, Effect, possible) ==
    /\ pc = step
    /\ \/ possible /\ Effect /\ Goto(next)
       \/ possible /\ Effect /\ Fault /\ GiveUp
       \/ ~possible /\ UNCHANGED <<fpm, faults>> /\ GiveUp
    /\ UNCHANGED <<panel, files>>

\* systemctl is-active, and a connection to the socket.
Probe(step, next, holds) ==
    /\ pc = step
    /\ IF holds THEN Goto(next) ELSE GiveUp /\ UNCHANGED faults
    /\ UNCHANGED <<panel, files, fpm>>

\* Mutant of Save: the recovery copy is left to the old pool.
SaveSkipped ==
    /\ pc = "save" /\ Goto("remove") /\ UNCHANGED <<panel, files, fpm>>

\* ChangePHPVersion.
Packages ==
    /\ pc = "packages" /\ Goto(IF mem.existed THEN "save" ELSE "release")
    /\ UNCHANGED <<panel, files, fpm>>
Save   == Write("save", "remove", saved, saved[Me] \cup {call.from}) /\ UNCHANGED pool
Remove == Write("remove", "release", pool, pool[Me] \ {call.from}) /\ UNCHANGED saved

Release == Command("release", "write", ReloadOrStopUnused(call.from),
                   Has(call.from) = {} \/ call.from \in running)

\* AptPHPRuntime.Ensure.
WritePool == Write("write", "enable", pool, pool[Me] \cup {call.to}) /\ UNCHANGED saved
Enable == Command("enable", "reload", Start(call.to), call.to \in running \/ Loadable(call.to))
ReloadTarget ==
    Command("reload", IF call.kind = "site.php_version" THEN "active" ELSE "rest",
            Reload(call.to), call.to \in running)

Active  == Probe("active", "ready", call.to \in running)
Ready   == Probe("ready", "nginx", listener[Me] # None)

\* nginx is checked and reloaded, or the rest of Provision or Disable is done.
Succeed ==
    /\ pc \in {"nginx", "rest"}
    /\ pc' = "answered" /\ reply' = "ok"
    /\ UNCHANGED <<panel, files, fpm, call, mem, faults>>

\* Mutant of UndoRemove: the pool of the new branch stays.
UndoRemoveSkipped ==
    pc = "undo_remove" /\ Goto("undo_release") /\ UNCHANGED <<panel, files, fpm>>

\* The rollback of ChangePHPVersion.
UndoRemove  == Write("undo_remove", "undo_release", pool, pool[Me] \ {call.to}) /\ UNCHANGED saved
UndoRelease == Command("undo_release", "undo_restore", ReloadOrStopUnused(call.to),
                       Has(call.to) = {} \/ call.to \in running)
UndoRestore == Write("undo_restore", "undo_enable", pool, pool[Me] \cup {call.from}) /\ UNCHANGED saved
UndoEnable  == Command("undo_enable", "undo_reload", Start(call.from),
                       call.from \in running \/ Loadable(call.from))
UndoReload  == Command("undo_reload", "undo_active", Reload(call.from), call.from \in running)
UndoActive  == Probe("undo_active", "undo_ready", call.from \in running)
UndoReady ==
    /\ pc = "undo_ready" /\ pc' = "answered"
    /\ reply' = IF listener[Me] = None THEN "fail" ELSE "restored"
    /\ UNCHANGED <<panel, files, fpm, call, mem, faults>>

\* Disable: the pool goes, then its branch is stopped or told.
DropPool ==
    /\ pc = "drop" /\ pool' = [pool EXCEPT ![Me] = @ \ {call.from}]
    /\ Goto("halt") /\ UNCHANGED <<panel, saved, fpm>>

HaltEffect == IF mem.stop THEN Stop(call.from) ELSE Reload(call.from)

Halt ==
    /\ pc = "halt" /\ HaltEffect
    /\ Goto("rest") /\ UNCHANGED <<panel, files>>

\* The pool is put back as a file when its branch could not be told, or was
\* told and systemctl failed.
HaltFails ==
    /\ pc = "halt"
    /\ \/ Fault /\ (HaltEffect \/ UNCHANGED fpm)
       \/ ~mem.stop /\ call.from \notin running /\ UNCHANGED <<fpm, faults>>
    /\ pool' = IF mem.existed THEN [pool EXCEPT ![Me] = @ \cup {call.from}] ELSE pool
    /\ GiveUp /\ UNCHANGED <<panel, saved>>

-----------------------------------------------------------------------------
(***************************************************************************)
(* The panel gets the answer, or does not.                                  *)
(***************************************************************************)
\* The broker stops.
StopBroker ==
    /\ pc \notin {"idle", "answered"} /\ Fault
    /\ Answer("unknown") /\ UNCHANGED <<panel, files, fpm>>

LoseAnswer ==
    /\ pc = "answered" /\ reply # "unknown" /\ Fault
    /\ Answer("unknown") /\ UNCHANGED <<panel, files, fpm>>

\* Mutant of RetryPHPVersionChange: the job is closed without its site.
RetryNever ==
    /\ pc = "answered" /\ reply = "unknown" /\ call.kind = "site.php_version"
    /\ pc' = "idle" /\ queue' = Tail(queue)
    /\ UNCHANGED <<site, jobs, abandoned, files, fpm, call, mem, reply, faults>>

\* The job goes back to the queue, where it is the oldest.
RetryPHPVersionChange ==
    /\ pc = "answered" /\ reply = "unknown" /\ call.kind = "site.php_version"
    /\ pc' = "idle"
    /\ UNCHANGED <<panel, files, fpm, call, mem, reply, faults>>

Outcome ==
    CASE call.kind = "site.php_version" ->
            IF reply \in {"ok", "restored"} THEN "active" ELSE "php_change_failed"
      [] call.kind = "site.disable" -> IF reply = "ok" THEN "disabled" ELSE "disable_failed"
      [] call.kind = "site.enable"  -> IF reply = "ok" THEN "active" ELSE "enable_failed"
      [] OTHER -> IF reply = "ok" THEN "active" ELSE "failed"

\* What a finished change leaves behind it.
Abandoned ==
    CASE call.kind # "site.php_version" \/ reply = "restored" -> abandoned[Me]
      [] reply = "ok" -> abandoned[Me] \ {call.to}
      [] OTHER        -> abandoned[Me] \cup {call.to}

FinishJob ==
    /\ pc = "answered" /\ ~(reply = "unknown" /\ call.kind = "site.php_version")
    /\ pc' = "idle" /\ queue' = Tail(queue)
    /\ site' = [site EXCEPT ![Me] =
                  [status |-> Outcome, version |-> IF reply = "ok" THEN call.to ELSE call.from]]
    /\ abandoned' = [abandoned EXCEPT ![Me] = Abandoned]
    /\ UNCHANGED <<jobs, files, fpm, call, mem, reply, faults>>

Handlers ==
    \E s \in Sites :
       \/ EnqueueSiteProvisionRetry(s) \/ EnqueueSiteDisable(s) \/ EnqueueSiteEnable(s)
       \/ \E v \in Versions : CreateSite(s, v) \/ EnqueuePHPVersionChange(s, v)

CallStep ==
    \/ CallHost \/ Begin \/ StepFails \/ Packages \/ Save \/ Remove \/ Release
    \/ WritePool \/ Enable \/ ReloadTarget \/ Active \/ Ready \/ Succeed
    \/ UndoRemove \/ UndoRelease \/ UndoRestore \/ UndoEnable \/ UndoReload
    \/ UndoActive \/ UndoReady \/ DropPool \/ Halt \/ HaltFails
    \/ RetryPHPVersionChange \/ FinishJob

Next == Handlers \/ CallStep \/ StopBroker \/ LoseAnswer \/ (\E v \in Versions : Apply(v))

Spec == Init /\ [][Next]_vars

\* The worker's loop and the broker go on.
FairSpec == Spec /\ WF_vars(CallStep)

-----------------------------------------------------------------------------
\* The pool of the version the panel shows is never lost: it is in its place
\* or in the recovery copy, wherever a change was broken off.
PreviousPoolKept ==
    \A s \in Sites : site[s].status \in {"active", "php_changing", "php_change_failed"} =>
      site[s].version \in pool[s] \cup saved[s]

\* What the panel calls active has its pool in the branch of its version, and
\* nowhere else ("moves the site's pool to the selected branch") but where a
\* change of the site has failed for good: neither a change that succeeded, nor
\* one that was undone, broken off or repeated leaves a second pool.
PoolIsMoved ==
    \A s \in Sites : site[s].status = "active" =>
      /\ site[s].version \in pool[s]
      /\ pool[s] \subseteq {site[s].version} \cup abandoned[s]

\* A branch serves the site from the pool in its directory.
Served(t) == listener[t] \in pool[t]

\* No step of a change, of its undoing or of its repetition takes the listener
\* of another site away ("Other site pools keep their branch running").  A
\* reload that FPM applies later is a step of FPM.
ChangesKeepNeighbours ==
    [][pc # "idle" /\ pc' # pc /\ call.kind = "site.php_version" =>
         \A t \in Sites \ {Me} : Served(t) => listener'[t] = listener[t]]_vars

\* Disabling a site stops its branch only if no other site's pool is on it.
DisableKeepsLivePools ==
    [][pc = "halt" /\ pc' # pc =>
         \A t \in Sites \ {Me} : Served(t) => listener'[t] = listener[t]]_vars

\* A requested change is decided.
ChangesSettle ==
    \A s \in Sites : site[s].status = "php_changing" ~> site[s].status # "php_changing"

-----------------------------------------------------------------------------
(***************************************************************************)
(* The inductive invariant behind PreviousPoolKept.                         *)
(***************************************************************************)
Reserved(k) ==
    CASE k = "site.provision" -> "queued"
      [] k = "site.disable"   -> "disabling"
      [] k = "site.enable"    -> "enabling"
      [] OTHER                -> "php_changing"

\* Each pending job has its site to itself and knows its version.
JobsOwnTheirSites ==
    /\ \A s \in Sites : site[s].version = None => site[s].status = "absent"
    /\ \A i \in DOMAIN queue :
         LET j == queue[i] IN
         /\ site[j.site] = [status |-> Reserved(j.kind), version |-> j.from]
         /\ j.kind = "site.php_version" <=> j.from # j.to
    /\ \A i, k \in DOMAIN queue : queue[i].site = queue[k].site => i = k

\* A call works on the oldest job, with the steps of its kind, and knows where
\* the site's pool is.
CallIsTrue ==
    pc # "idle" =>
      /\ queue # <<>> /\ call = queue[1]
      /\ pc \in Undo \cup Change => call.kind = "site.php_version"
      /\ pc \in {"drop", "halt"} => call.kind = "site.disable"
      /\ pc \in {"write", "enable", "reload"} => call.kind # "site.disable"
      /\ pc = "rest" => call.kind # "site.php_version"
      /\ pc = "remove" => call.from \in saved[Me]
      /\ pc \in {"enable", "reload", "active", "ready", "nginx", "rest"}
         \/ (pc = "answered" /\ reply = "ok") =>
           call.kind = "site.disable" \/ call.to \in pool[Me]

PoolInv == TypeOK /\ JobsOwnTheirSites /\ CallIsTrue /\ PreviousPoolKept

-----------------------------------------------------------------------------
(***************************************************************************)
(* The inductive invariant behind PoolIsMoved.                              *)
(***************************************************************************)
\* A pool in a third place belongs to the change that is on its way, which
\* has taken the old pool out before.
StraysAreExpected ==
    \A s \in Sites : \A v \in pool[s] \ ({site[s].version} \cup abandoned[s]) :
      \E i \in DOMAIN queue :
        /\ queue[i].site = s /\ queue[i].kind = "site.php_version"
        /\ queue[i].to = v /\ queue[i].from \notin pool[s]

RowsTell ==
    \A s \in Sites :
      /\ site[s].status = "active" => site[s].version \in pool[s]
      /\ site[s].status = "absent" => site[s].version = None

\* Where the old pool is, by the step of the change.
ChangeKnowsPools ==
    pc # "idle" /\ call.kind = "site.php_version" =>
      /\ pc = "packages" /\ mem.existed => call.from \in pool[Me]
      /\ pc \in {"save", "remove"} => mem.existed /\ call.from \in pool[Me]
      /\ pc = "packages" /\ ~mem.existed => call.from \notin pool[Me]
      /\ pc \in Moving \cup {"undo_remove"} \/ (pc = "answered" /\ reply = "ok") =>
           call.from \notin pool[Me]
      /\ pc \in {"undo_release", "undo_restore"} => call.to \notin pool[Me]
      /\ pc \in {"undo_enable", "undo_reload", "undo_active", "undo_ready"}
         \/ (pc = "answered" /\ reply = "restored") => call.from \in pool[Me]

MoveInv == StraysAreExpected /\ RowsTell /\ ChangeKnowsPools
=============================================================================
