--------------------------- MODULE SiteLifecycle ---------------------------
(***************************************************************************)
(* The durable job queue of the panel, the lifecycle of a site that it     *)
(* drives, and the root broker that carries the jobs out.                  *)
(*                                                                         *)
(* Three parties share no memory.  The panel's HTTP handlers write sites   *)
(* and jobs rows in SQLite transactions (the Enqueue... actions); the      *)
(* panel's worker claims the oldest queued job, calls the broker over a    *)
(* socket and records the answer; the broker runs every request it has     *)
(* read to its end, whether or not the caller is still there.  The panel   *)
(* may stop anywhere, a connection may be lost before or after the work    *)
(* was done, and the broker may stop with requests pending.                *)
(***************************************************************************)
EXTENDS Naturals, SequencesExt, HostResults

CONSTANTS
    Sites,        \* site identifiers an operator may use
    Domains,      \* host names
    Established,  \* the sites that are provisioned and active at the start
    Kinds,        \* the job kinds the handlers enqueue in this instance
    Workers,      \* worker processes; the panel runs one
    MaxJobs,      \* bound: rows in the jobs table
    Ordered,      \* do requests get the host's locks in order of arrival?
    MaxInbox,     \* bound: requests pending at the broker
    MaxFaults     \* bound: stops, lost connections and refused dials

ASSUME NoneAssumption == None \notin Sites /\ None \notin Domains /\ None \notin Workers
ASSUME EstablishedAssumption == Established \subseteq Sites
ASSUME OrderAssumption == Ordered \in BOOLEAN
ASSUME BoundsAssumption == MaxJobs \in Nat /\ MaxInbox \in Nat /\ MaxFaults \in Nat

(***************************************************************************)
(* Kinds of jobs.  A status job takes the site's status for itself while   *)
(* it is pending; Transit is the status it holds.                          *)
(***************************************************************************)
Transit ==
    [k \in {"site.provision", "site.restore_clone", "site.disable",
            "site.enable", "site.domain_change", "site.delete"} |->
        CASE k = "site.disable"       -> "disabling"
          [] k = "site.enable"        -> "enabling"
          [] k = "site.domain_change" -> "domain_changing"
          [] k = "site.delete"        -> "deleting"
          [] OTHER                    -> "queued"]
StatusKinds    == DOMAIN Transit
LifecycleKinds == {"site.domain_change", "site.delete"}
JobKinds       == StatusKinds \cup {"site.backup", "site.config_apply"}

\* Mutant of ReplayKinds: a backup whose answer was lost is closed as failed.
ReplayLifecycleOnly == LifecycleKinds

\* Kinds the worker puts back when it does not know what the broker did.
ReplayKinds    == {"site.domain_change", "site.delete", "site.backup"}

LockedStatus   == {"domain_changing", "domain_change_failed",
                   "deleting", "delete_failed"}
TransitStatus  == {"queued", "disabling", "enabling", "domain_changing", "deleting"}
SiteStatus     == TransitStatus \cup
                  {"absent", "active", "failed", "disabled", "disable_failed",
                   "enable_failed", "domain_change_failed", "delete_failed"}
JobStatus      == {"absent", "queued", "running", "succeeded", "failed"}

ASSUME KindsAssumption == Kinds \subseteq JobKinds /\ None \notin JobKinds

VARIABLES
    \* the panel's database
    site,         \* table sites; status "absent" is a missing row
    tomb,         \* table deleted_sites: identifiers
    reservation,  \* table site_domain_reservations
    job,          \* table jobs, in order of created_at
    lastJob,      \* number of jobs rows
    \* the panel's memory
    checked,      \* sites whose status a SetSiteSnippets call has read
    worker,       \* what each worker is doing
    \* the broker and the host
    inbox,        \* requests read by the broker and not carried out yet
    journal,      \* the host's recovery journal of each job
    host,         \* what the host really has of each site
    faults        \* faults so far

store == <<site, tomb, reservation, job, lastJob>>
wire  == <<inbox, journal, host>>
vars  == <<store, checked, worker, wire, faults>>

JobId    == 1..MaxJobs
SiteRow  == [status : SiteStatus, domain : Domains \cup {None}]
JobRow   == [kind : JobKinds \cup {None}, site : Sites \cup {None},
             source : Sites \cup {None}, domain : Domains \cup {None},
             status : JobStatus]
Rsv      == [domain : Domains, site : Sites, job : JobId]
Replies  == {"none", "ok", "fail", "restored", "refused", "unknown", "unavailable"}
Worker   == [pc : {"down", "idle", "selected", "claimed", "calling", "answered"},
             job : JobId \cup {0}, reply : Replies]
Request  == [job : JobId, domain : Domains \cup {None}, caller : Workers \cup {None},
             waits : BOOLEAN]
Journals == {"none", "changing", "activating", "rollback", "complete",
             "restored", "removing", "done"}
HostSite == [files : BOOLEAN, vhost : Domains \cup {None}, serving : BOOLEAN]

TypeOK ==
    /\ site \in [Sites -> SiteRow]
    /\ tomb \subseteq Sites
    /\ reservation \subseteq Rsv
    /\ job \in [JobId -> JobRow]
    /\ lastJob \in 0..MaxJobs
    /\ checked \subseteq Sites
    /\ worker \in [Workers -> Worker]
    /\ inbox \in Seq(Request)
    /\ journal \in [JobId -> Journals]
    /\ host \in [Sites -> HostSite]
    /\ faults \in 0..MaxFaults

NoRow  == [status |-> "absent", domain |-> None]
NoJob  == [kind |-> None, site |-> None, source |-> None, domain |-> None,
           status |-> "absent"]
Idling == [pc |-> "idle", job |-> 0, reply |-> "none"]
Down   == [pc |-> "down", job |-> 0, reply |-> "none"]

\* Established sites are active, each under a domain of its own.
Init ==
    /\ \E f \in [Established -> Domains] :
         /\ \A s, t \in Established : f[s] = f[t] => s = t
         /\ site = [s \in Sites |-> IF s \in Established
                      THEN [status |-> "active", domain |-> f[s]] ELSE NoRow]
         /\ host = [s \in Sites |-> IF s \in Established THEN Up(f[s]) ELSE Gone]
    /\ tomb = {} /\ reservation = {}
    /\ job = [j \in JobId |-> NoJob] /\ lastJob = 0
    /\ checked = {} /\ worker = [w \in Workers |-> Down]
    /\ inbox = <<>> /\ journal = [j \in JobId |-> "none"] /\ faults = 0

-----------------------------------------------------------------------------
(***************************************************************************)
(* Transactions of the HTTP handlers.                                      *)
(***************************************************************************)
Pending(j)    == job[j].status \in {"queued", "running"}
Touches(j, s) == s \in {job[j].site, job[j].source}

\* No pending job targets s or reads it.
Idle(s) == \A j \in JobId : Pending(j) => ~Touches(j, s)

\* No site has the domain and none has reserved it.
DomainFree(d) ==
    /\ \A s \in Sites : site[s].domain # d
    /\ \A r \in reservation : r.domain # d

\* Mutant of LifecycleLock: without the triggers.
NoLock(k, s, src) == FALSE

\* The database refuses a new job that touches a reserved site.
LifecycleLock(k, s, src) ==
    k \notin LifecycleKinds /\ \E x \in {s, src} \ {None} : site[x].status \in LockedStatus

InsertJob(k, s, src, d) ==
    /\ k \in Kinds
    /\ lastJob < MaxJobs
    /\ ~LifecycleLock(k, s, src)
    /\ lastJob' = lastJob + 1
    /\ job' = [job EXCEPT ![lastJob + 1] =
                 [kind |-> k, site |-> s, source |-> src, domain |-> d, status |-> "queued"]]

SetStatus(s, st) == site' = [site EXCEPT ![s].status = st]
Elsewhere        == UNCHANGED <<checked, worker, wire, faults>>

\* Mutant of InsertSite: no look at deleted_sites.
InsertSiteReused(s, d) ==
    /\ site[s].status = "absent" /\ DomainFree(d)
    /\ site' = [site EXCEPT ![s] = [status |-> "queued", domain |-> d]]

InsertSite(s, d) ==
    /\ site[s].status = "absent" /\ s \notin tomb /\ DomainFree(d)
    /\ site' = [site EXCEPT ![s] = [status |-> "queued", domain |-> d]]

CreateSite(s, d) ==
    /\ InsertSite(s, d)
    /\ InsertJob("site.provision", s, None, None)
    /\ UNCHANGED <<tomb, reservation>> /\ Elsewhere

EnqueueRestoreClone(src, s, d) ==
    /\ site[src].status = "active"
    /\ InsertSite(s, d)
    /\ InsertJob("site.restore_clone", s, src, None)
    /\ UNCHANGED <<tomb, reservation>> /\ Elsewhere

EnqueueSiteTransition(s, k, allowed) ==
    /\ Idle(s) /\ site[s].status \in allowed
    /\ SetStatus(s, Transit[k])
    /\ InsertJob(k, s, None, None)
    /\ UNCHANGED <<tomb, reservation>> /\ Elsewhere

EnqueueSiteDisable(s) ==
    EnqueueSiteTransition(s, "site.disable", {"active", "disable_failed"})
EnqueueSiteEnable(s) ==
    EnqueueSiteTransition(s, "site.enable", {"disabled", "enable_failed"})
EnqueueSiteProvisionRetry(s) ==
    EnqueueSiteTransition(s, "site.provision", {"failed"})

EnqueueDomainChange(s, d) ==
    /\ site[s].status = "active" /\ Idle(s) /\ DomainFree(d)
    /\ SetStatus(s, "domain_changing")
    /\ InsertJob("site.domain_change", s, None, d)
    /\ reservation' = reservation \cup {[domain |-> d, site |-> s, job |-> lastJob + 1]}
    /\ UNCHANGED tomb /\ Elsewhere

EnqueueSiteDelete(s) ==
    /\ Idle(s)
    /\ site[s].status \in {"active", "disabled", "failed", "disable_failed", "enable_failed"}
    /\ SetStatus(s, "deleting")
    /\ InsertJob("site.delete", s, None, site[s].domain)
    /\ UNCHANGED <<tomb, reservation>> /\ Elsewhere

\* The newest failed job of the kind goes back to the queue under its own key.
RetryFailedLifecycleJob(s, k, failed) ==
    /\ Idle(s) /\ site[s].status = failed
    /\ \E j \in JobId :
         LET Failed(i) == job[i].kind = k /\ job[i].site = s /\ job[i].status = "failed"
         IN /\ Failed(j) /\ \A i \in JobId : Failed(i) => i <= j
            /\ job' = [job EXCEPT ![j].status = "queued"]
    /\ SetStatus(s, Transit[k])
    /\ UNCHANGED <<tomb, reservation, lastJob>> /\ Elsewhere

RetryDomainChange(s) ==
    RetryFailedLifecycleJob(s, "site.domain_change", "domain_change_failed")
RetrySiteDelete(s) ==
    RetryFailedLifecycleJob(s, "site.delete", "delete_failed")

EnqueueSiteBackup(s) ==
    /\ site[s].status = "active"
    /\ InsertJob("site.backup", s, None, None)
    /\ UNCHANGED <<site, tomb, reservation>> /\ Elsewhere

\* SetSiteSnippets reads the status first and opens its transaction later.
ReadSnippetSite(s) ==
    /\ "site.config_apply" \in Kinds /\ lastJob < MaxJobs
    /\ s \notin checked /\ site[s].status \in {"active", "disabled"}
    /\ checked' = checked \cup {s}
    /\ UNCHANGED <<store, worker, wire, faults>>

SetSiteSnippets(s) ==
    /\ s \in checked /\ checked' = checked \ {s}
    /\ \/ InsertJob("site.config_apply", s, None, None) /\ s \notin tomb
       \/ /\ s \in tomb \/ LifecycleLock("site.config_apply", s, None) \/ lastJob = MaxJobs
          /\ UNCHANGED <<job, lastJob>>
    /\ UNCHANGED <<site, tomb, reservation, worker, wire, faults>>

-----------------------------------------------------------------------------
(***************************************************************************)
(* The worker.                                                             *)
(***************************************************************************)
Fault == faults < MaxFaults /\ faults' = faults + 1

\* Nobody waits any more for the answers of the requests W's members sent.
Abandoned(W) ==
    [i \in DOMAIN inbox |->
        IF inbox[i].caller \in W THEN [inbox[i] EXCEPT !.caller = None] ELSE inbox[i]]

\* Mutant of StartWorker: interrupted jobs stay running.
StartWorkerNoRequeue(w) ==
    /\ worker[w].pc = "down"
    /\ worker' = [worker EXCEPT ![w] = Idling]
    /\ UNCHANGED <<store, checked, wire, faults>>

\* Worker.Run requeues whatever a previous process left running.
StartWorker(w) ==
    /\ worker[w].pc = "down"
    /\ worker' = [worker EXCEPT ![w] = Idling]
    /\ job' = [j \in JobId |->
                 IF job[j].status = "running" THEN [job[j] EXCEPT !.status = "queued"] ELSE job[j]]
    /\ UNCHANGED <<site, tomb, reservation, lastJob, checked, wire, faults>>

\* The process stops at any instruction; only the database survives.
StopWorker(w) ==
    /\ Fault /\ worker[w].pc # "down"
    /\ worker' = [worker EXCEPT ![w] = Down]
    /\ inbox' = Abandoned({w}) /\ checked' = {}
    /\ UNCHANGED <<store, journal, host>>

\* ClaimNextJob is two statements: a SELECT of the oldest queued row ...
SelectJob(w) ==
    /\ worker[w].pc = "idle"
    /\ \E j \in JobId :
         /\ job[j].status = "queued"
         /\ \A i \in JobId : job[i].status = "queued" => j <= i
         /\ worker' = [worker EXCEPT ![w] = [@ EXCEPT !.pc = "selected", !.job = j]]
    /\ UNCHANGED <<store, checked, wire, faults>>

\* ... and an UPDATE that still requires the row to be queued.
ClaimJob(w) ==
    LET j == worker[w].job IN
    /\ worker[w].pc = "selected"
    /\ IF job[j].status = "queued"
       THEN /\ job' = [job EXCEPT ![j].status = "running"]
            /\ worker' = [worker EXCEPT ![w].pc = "claimed"]
       ELSE /\ worker' = [worker EXCEPT ![w] = Idling] /\ UNCHANGED job
    /\ UNCHANGED <<site, tomb, reservation, lastJob, checked, wire, faults>>

\* What the worker, the broker's dispatcher and the host's entry checks
\* require of the rows the worker reads just before it calls.
CallAllowed(j) ==
    LET st == site[job[j].site].status IN
    CASE job[j].kind = "site.domain_change" -> st = "domain_changing"
      [] job[j].kind = "site.delete" ->
            st = "deleting" /\ site[job[j].site].domain = job[j].domain
      [] job[j].kind = "site.disable" -> st \in {"disabling", "disable_failed"}
      [] job[j].kind = "site.config_apply" -> st \in {"active", "disabled"}
      [] job[j].kind = "site.restore_clone" ->
            st = "queued" /\ site[job[j].source].status = "active"
      [] OTHER -> st # "absent"

Answer(w, r) == worker' = [worker EXCEPT ![w] = [@ EXCEPT !.pc = "answered", !.reply = r]]

\* The request carries the site row as it is now.
CallBroker(w) ==
    LET j == worker[w].job IN
    /\ worker[w].pc = "claimed" /\ CallAllowed(j) /\ Len(inbox) < MaxInbox
    /\ inbox' = Append(inbox, [job |-> j, domain |-> site[job[j].site].domain,
                               caller |-> w, waits |-> FALSE])
    /\ worker' = [worker EXCEPT ![w].pc = "calling"]
    /\ UNCHANGED <<store, checked, journal, host, faults>>

RefuseCall(w) ==
    /\ worker[w].pc = "claimed" /\ ~CallAllowed(worker[w].job)
    /\ Answer(w, "refused")
    /\ UNCHANGED <<store, checked, wire, faults>>

\* ErrUnavailable: the dial failed, the broker has read nothing.
DialFails(w) ==
    /\ Fault /\ worker[w].pc = "claimed" /\ CallAllowed(worker[w].job)
    /\ Answer(w, "unavailable")
    /\ UNCHANGED <<store, checked, wire>>

\* ErrOutcomeUnknown: a timeout or a lost connection, before or after the
\* broker did the work.  The request itself stays with the broker.
LoseConnection(w) ==
    /\ Fault
    /\ \/ worker[w].pc = "calling"
       \/ worker[w].pc = "answered" /\ worker[w].reply \in {"ok", "fail", "restored"}
    /\ Answer(w, "unknown")
    /\ inbox' = Abandoned({w})
    /\ UNCHANGED <<store, checked, journal, host>>

\* RetrySiteLifecycleJob, RetryBackupJob: the same row, the same key.
RetryJob(w) ==
    LET j == worker[w].job IN
    /\ worker[w].pc = "answered" /\ worker[w].reply \in {"unknown", "unavailable"}
    /\ job[j].kind \in ReplayKinds
    /\ job' = IF job[j].status = "running" THEN [job EXCEPT ![j].status = "queued"] ELSE job
    /\ worker' = [worker EXCEPT ![w] = Idling]
    /\ UNCHANGED <<site, tomb, reservation, lastJob, checked, wire, faults>>

-----------------------------------------------------------------------------
(***************************************************************************)
(* FinishJob: one transaction that closes the row and applies its result.  *)
(* A row that is no longer running changes nothing; a result that no       *)
(* longer matches the site rolls the whole transaction back.               *)
(***************************************************************************)
Finishing(w, kinds) ==
    /\ worker[w].pc = "answered" /\ job[worker[w].job].kind \in kinds
    /\ ~ (worker[w].reply \in {"unknown", "unavailable"} /\ job[worker[w].job].kind \in ReplayKinds)
    /\ worker' = [worker EXCEPT ![w] = Idling]
    /\ UNCHANGED <<lastJob, checked, wire, faults>>

Close(j, ok) ==
    job' = [job EXCEPT ![j].status = IF ok THEN "succeeded" ELSE "failed"]

TransitionOutcome(k, ok) ==
    CASE k = "site.disable" -> IF ok THEN "disabled" ELSE "disable_failed"
      [] k = "site.enable"  -> IF ok THEN "active" ELSE "enable_failed"
      [] OTHER              -> IF ok THEN "active" ELSE "failed"

\* provision, clone, enable and disable set the status by identifier alone.
FinishTransition(w) ==
    LET j  == worker[w].job
        s  == job[j].site
        ok == worker[w].reply = "ok"
    IN  /\ Finishing(w, StatusKinds \ LifecycleKinds)
        /\ UNCHANGED <<tomb, reservation>>
        /\ IF job[j].status = "running"
           THEN /\ Close(j, ok)
                /\ IF site[s].status = "absent" THEN UNCHANGED site
                   ELSE SetStatus(s, TransitionOutcome(job[j].kind, ok))
           ELSE UNCHANGED <<job, site>>

FinishOrdinary(w) ==
    LET j == worker[w].job IN
    /\ Finishing(w, JobKinds \ StatusKinds)
    /\ UNCHANGED <<site, tomb, reservation>>
    /\ IF job[j].status = "running" THEN Close(j, worker[w].reply = "ok") ELSE UNCHANGED job

\* The answer says which of the two domains the host serves.
HostSettled(r) == r \in {"ok", "restored"}

FinishDomainChange(w) ==
    LET j == worker[w].job
        s == job[j].site
        r == worker[w].reply
        held == {q \in reservation : q.site = s /\ q.job = j}
        Matches == /\ site[s].status = "domain_changing"
                   /\ \E q \in held : q.domain = job[j].domain
    IN  /\ Finishing(w, {"site.domain_change"})
        /\ UNCHANGED tomb
        /\ IF job[j].status # "running" \/ (r = "ok" /\ ~Matches)
           THEN UNCHANGED <<job, site, reservation>>
           ELSE /\ Close(j, r = "ok")
                /\ reservation' = IF HostSettled(r) THEN reservation \ held ELSE reservation
                /\ site' =
                     IF site[s].status # "domain_changing" THEN site
                     ELSE CASE r = "ok" -> [site EXCEPT ![s] =
                                              [status |-> "active", domain |-> job[j].domain]]
                            [] r = "restored" -> [site EXCEPT ![s].status = "active"]
                            [] OTHER -> [site EXCEPT ![s].status = "domain_change_failed"]

FinishSiteDelete(w) ==
    LET j == worker[w].job
        s == job[j].site
        ok == worker[w].reply = "ok"
        Matches == site[s].status = "deleting" /\ site[s].domain = job[j].domain
    IN  /\ Finishing(w, {"site.delete"})
        /\ UNCHANGED reservation
        /\ IF job[j].status # "running" \/ (ok /\ ~Matches)
           THEN UNCHANGED <<job, site, tomb>>
           ELSE /\ Close(j, ok)
                /\ tomb' = IF ok THEN tomb \cup {s} ELSE tomb
                /\ site' = IF ok THEN [site EXCEPT ![s] = NoRow]
                           ELSE IF site[s].status = "deleting"
                                THEN [site EXCEPT ![s].status = "delete_failed"] ELSE site

-----------------------------------------------------------------------------
(***************************************************************************)
(* The broker.  h.mu serialises what changes the host; domain changes and  *)
(* backups first take backupMu, so that others may overtake them, and so   *)
(* does a clone that has provisioned its target.  A Go mutex nearly always *)
(* serves those that wait in order of arrival, but does not promise it.    *)
(***************************************************************************)
TakesBackupLock(q) == job[q.job].kind \in {"site.domain_change", "site.backup"} \/ q.waits

\* A waiting clone queued again when its target was provisioned.
MayRun(i) ==
    Ordered => \A k \in 1..(i - 1) :
                 inbox[k].waits \/ (TakesBackupLock(inbox[k]) /\ ~TakesBackupLock(inbox[i]))

Results(q) ==
    LET j == q.job  h == host[job[j].site]  n == journal[j] IN
    CASE job[j].kind \in {"site.provision", "site.enable"} -> ProvisionResults(h, n, q.domain)
      [] job[j].kind = "site.restore_clone" ->
            IF q.waits THEN RestoreResults(h, n) ELSE CloneResults(h, n, q.domain)
      [] job[j].kind = "site.disable"       -> DisableResults(h, n)
      [] job[j].kind = "site.delete"        -> DeleteResults(h, n)
      [] job[j].kind = "site.domain_change" -> DomainChangeResults(h, n, q.domain, job[j].domain)
      [] OTHER -> {Result(h, n, "ok"), Result(h, n, "fail")}

\* The request runs to its end; the answer goes to whoever still waits.
Execute(i) ==
    LET q == inbox[i] IN
    /\ MayRun(i)
    /\ \E x \in Results(q) :
         /\ host' = [host EXCEPT ![job[q.job].site] = x.host]
         /\ journal' = [journal EXCEPT ![q.job] = x.journal]
         /\ IF q.caller = None THEN UNCHANGED worker ELSE Answer(q.caller, x.reply)
    /\ inbox' = RemoveAt(inbox, i)
    /\ UNCHANGED <<store, checked, faults>>

\* A clone has provisioned its target and lets go of h.mu until it has both.
CloneWaits(i) ==
    LET j == inbox[i].job IN
    /\ MayRun(i) /\ job[j].kind = "site.restore_clone" /\ ~inbox[i].waits /\ journal[j] # "done"
    /\ host' = [host EXCEPT ![job[j].site] = Up(inbox[i].domain)]
    /\ inbox' = [inbox EXCEPT ![i].waits = TRUE]
    /\ UNCHANGED <<store, checked, worker, journal, faults>>

\* The broker stops: what it had read is gone and every caller knows nothing.
StopBroker ==
    /\ Fault /\ inbox # <<>> /\ inbox' = <<>>
    /\ worker' = [w \in Workers |->
                    IF worker[w].pc = "calling"
                    THEN [worker[w] EXCEPT !.pc = "answered", !.reply = "unknown"] ELSE worker[w]]
    /\ UNCHANGED <<store, checked, journal, host>>

-----------------------------------------------------------------------------
Handlers ==
    \E s \in Sites :
       \/ EnqueueSiteDisable(s) \/ EnqueueSiteEnable(s) \/ EnqueueSiteProvisionRetry(s)
       \/ EnqueueSiteDelete(s) \/ RetryDomainChange(s) \/ RetrySiteDelete(s)
       \/ EnqueueSiteBackup(s) \/ ReadSnippetSite(s) \/ SetSiteSnippets(s)
       \/ \E d \in Domains :
            \/ CreateSite(s, d) \/ EnqueueDomainChange(s, d)
            \/ \E src \in Sites : EnqueueRestoreClone(src, s, d)

WorkerStep(w) ==
    \/ StartWorker(w) \/ SelectJob(w) \/ ClaimJob(w) \/ CallBroker(w) \/ RefuseCall(w)
    \/ RetryJob(w) \/ FinishTransition(w) \/ FinishOrdinary(w)
    \/ FinishDomainChange(w) \/ FinishSiteDelete(w)

BrokerStep == \E i \in DOMAIN inbox : Execute(i) \/ CloneWaits(i)

Faults == StopBroker \/ \E w \in Workers : StopWorker(w) \/ DialFails(w) \/ LoseConnection(w)

Next == Handlers \/ (\E w \in Workers : WorkerStep(w)) \/ BrokerStep \/ Faults

Spec == Init /\ [][Next]_vars

\* systemd restarts the panel, the worker's loop never waits for an operator,
\* and the broker finishes what it has read.
FairSpec == Spec /\ WF_vars(BrokerStep) /\ \A w \in Workers : WF_vars(WorkerStep(w))

-----------------------------------------------------------------------------
(***************************************************************************)
(* Properties.                                                             *)
(***************************************************************************)

\* No host name is used twice, and none that a domain change has reserved is
\* used by any site, whatever handlers run between the reservation and the
\* end of the change (EnqueueDomainChange, the sites_reserved_domain triggers).
DomainsDisjoint ==
    /\ \A s, t \in Sites : s # t /\ site[s].domain # None => site[s].domain # site[t].domain
    /\ \A r \in reservation, s \in Sites : site[s].domain # r.domain
    /\ \A r, q \in reservation : r.domain = q.domain \/ r.site = q.site => r = q

\* The reservation row exists exactly while the change is unsettled: from the
\* request until the host has confirmed one of the two domains.
ReservationFollowsChange ==
    \A s \in Sites :
      site[s].status \in {"domain_changing", "domain_change_failed"}
        <=> \E r \in reservation :
              /\ r.site = s
              /\ job[r.job].kind = "site.domain_change" /\ job[r.job].site = s
              /\ job[r.job].domain = r.domain
              /\ job[r.job].status \in {"queued", "running", "failed"}

\* While a site is being renamed or deleted, no other pending job targets it
\* or reads it, and after a failure nothing at all is pending for it.
LockedSitesAreQuiet ==
    \A s \in Sites, j \in JobId :
      Pending(j) /\ Touches(j, s) /\ site[s].status \in LockedStatus
        => job[j].kind \in LifecycleKinds /\ job[j].site = s /\ site[s].status = Transit[job[j].kind]

\* A site never waits for a job that does not exist: each transitional status
\* has exactly one pending job, of its kind, and every such job has its site.
TransitionsHaveTheirJob ==
    /\ \A s \in Sites : site[s].status \in TransitStatus =>
         \E j \in JobId : /\ Pending(j) /\ job[j].site = s /\ job[j].kind \in StatusKinds
                         /\ Transit[job[j].kind] = site[s].status
    /\ \A j \in JobId : Pending(j) /\ job[j].kind \in StatusKinds =>
         /\ site[job[j].site].status = Transit[job[j].kind]
         /\ \A i \in JobId : Pending(i) /\ job[i].kind \in StatusKinds
                                /\ job[i].site = job[j].site => i = j

\* What the panel calls active is being served by the host under exactly the
\* domain the panel shows, whichever answers were lost or repeated before.
ActiveIsServed ==
    \A s \in Sites : site[s].status = "active" => host[s] = Up(site[s].domain)

\* A confirmed deletion is final: the identifier is never used again and no
\* request still on its way brings anything of the site back.
DeletedStaysDeleted ==
    \A s \in tomb : site[s] = NoRow /\ host[s] = Gone

\* A site leaves the reserved statuses only when the host has settled and the
\* broker holds no request for it any more.
ReleasedOnlyWhenSettled ==
    [][\A s \in Sites :
         site[s].status \in LockedStatus /\ site'[s].status \notin LockedStatus =>
           /\ host[s] = IF site'[s].status = "absent" THEN Gone ELSE Up(site'[s].domain)
           /\ \A i \in DOMAIN inbox : ~Touches(inbox[i].job, s)]_vars

\* Two requests that the broker holds at the same time and that involve the
\* same site are repetitions of one job, never two different operations.
NoIncompatibleRequest ==
    \A i, k \in DOMAIN inbox, s \in Sites :
      Touches(inbox[i].job, s) /\ Touches(inbox[k].job, s) => inbox[i].job = inbox[k].job

\* Every started transition is decided, also when the queue is blocked for a
\* while by a job that is replayed at its head; only operators who go on for
\* ever retrying a failed change, which keeps its place in the queue, could
\* hold the others back.
OperatorRetry == \E s \in Sites : RetryDomainChange(s) \/ RetrySiteDelete(s)
TransitionsSettle ==
    <>[][~OperatorRetry]_vars =>
      \A s \in Sites : site[s].status \in TransitStatus ~> site[s].status \notin TransitStatus

-----------------------------------------------------------------------------
(***************************************************************************)
(* The inductive invariant of the panel's database.  It holds for any      *)
(* number of workers that overlap in any way.                              *)
(***************************************************************************)

\* Rows are filled in order of creation.
RowsWellFormed ==
    \A j \in JobId :
      IF j <= lastJob
      THEN /\ job[j].kind \in JobKinds /\ job[j].site \in Sites /\ job[j].status # "absent"
           /\ IF job[j].kind = "site.restore_clone" THEN job[j].source \in Sites
              ELSE job[j].source = None
      ELSE job[j] = NoJob

\* Workers and requests only ever name rows that exist.
WorkHasItsRow ==
    /\ \A w \in Workers : worker[w].pc \notin {"down", "idle"} => worker[w].job \in 1..lastJob
    /\ \A i \in DOMAIN inbox : inbox[i].job \in 1..lastJob

\* A request that somebody waits for is the only one of a worker that is
\* calling, and for the job of that worker: an answer never reaches another job.
CallersWait ==
    /\ \A i \in DOMAIN inbox : inbox[i].caller # None =>
         /\ worker[inbox[i].caller].pc = "calling"
         /\ worker[inbox[i].caller].job = inbox[i].job
    /\ \A i, k \in DOMAIN inbox :
         inbox[i].caller # None /\ inbox[i].caller = inbox[k].caller => i = k

\* A reservation names the domain change that made it, a pending domain change
\* owns a reservation, and that owner is the newest domain change of its site:
\* the retry, which takes the newest failed one, therefore takes the owner.
ReservationHasItsOwner ==
    /\ \A r \in reservation :
         /\ job[r.job].kind = "site.domain_change" /\ job[r.job].site = r.site
         /\ job[r.job].domain = r.domain
         /\ job[r.job].status \in {"queued", "running", "failed"}
    /\ \A j \in JobId : Pending(j) /\ job[j].kind = "site.domain_change" =>
         [domain |-> job[j].domain, site |-> job[j].site, job |-> j] \in reservation
    /\ \A r \in reservation, j \in JobId :
         job[j].kind = "site.domain_change" /\ job[j].site = r.site => j <= r.job

AbsentSitesHaveNoDomain ==
    \A s \in Sites : site[s].status = "absent" <=> site[s].domain = None

StoreInv ==
    /\ TypeOK /\ WorkHasItsRow /\ CallersWait /\ RowsWellFormed /\ AbsentSitesHaveNoDomain
    /\ DomainsDisjoint /\ ReservationFollowsChange /\ ReservationHasItsOwner
    /\ LockedSitesAreQuiet /\ TransitionsHaveTheirJob
=============================================================================
