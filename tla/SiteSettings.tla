----------------------------- MODULE SiteSettings -----------------------------
(***************************************************************************)
(* What is asked of one site beside its files: scheduled commands,         *)
(* WordPress's own schedule, visitor access, the WordPress defence, a Node *)
(* application and an FTP account.  A request commits the wanted row with  *)
(* a job before any host work; the worker takes the jobs in order, reads   *)
(* the row and calls the broker; the answer, or its loss, decides the row. *)
(* Disabling stops what the site runs, enabling starts it again.           *)
(*                                                                         *)
(* No request touches a row, or the site's status, while a job works on    *)
(* it, so the worker's reading, the call and its outcome are one step.  A  *)
(* call may fail at any of its steps, and leaves what the code puts back,  *)
(* or be cut off after any of them, and is then replayed or given up.      *)
(***************************************************************************)
EXTENDS Naturals, Sequences

CONSTANTS SettingKinds,  \* what is asked for, of those below
          MaxRequests,   \* bound on the requests of a behaviour
          MaxFaults      \* bound on the failed steps and broken calls of a behaviour

AllKinds == {"cron", "wpcron", "access", "security", "node", "ftp"}
SettingsAssumption ==
    SettingKinds \subseteq AllKinds /\ MaxRequests \in Nat /\ MaxFaults \in Nat

Cron   == {"cron", "wpcron"}        \* a source below DataRoot, a target in /etc/cron.d
Nginx  == {"access", "security"}    \* files that count once Nginx reloads
Runs   == Cron \cup {"node", "ftp"} \* stopped while the site is disabled
Values == 1..2                      \* what a setting may say; 0 is off or absent
Torn   == 3                         \* files of which only some were replaced

VARIABLES webSite, \* the site's kind and status
          row,     \* per kind the wanted value and the status SQLite keeps
          queue,   \* the jobs not finished, in the order they are taken
          conf,    \* the host: what is kept on disk, what is live
          spent,   \* requests made
          faults,  \* steps failed and calls broken
          last     \* the job that was last turned down by the code itself, and how

settingVars == <<webSite, row, queue, conf, spent, faults, last>>

KindsHere == {k \in SettingKinds : /\ k \in {"wpcron", "security"} => webSite.kind = "wordpress"
                                   /\ k = "node" => webSite.kind = "proxy"}

SettingsInit ==
    /\ webSite \in [kind : {"wordpress", "proxy"}, status : {"active"}]
    /\ row = [k \in AllKinds |-> [status |-> "none", want |-> 0]]
    /\ queue = <<>>
    /\ conf = [kept |-> [k \in AllKinds |-> 0], live |-> [k \in AllKinds |-> 0],
               internal |-> TRUE, strays |-> {}]
    /\ spent = 0 /\ faults = 0 /\ last = <<>>

-----------------------------------------------------------------------------
\* Requests.

Pending(kinds)  == \E i \in DOMAIN queue : queue[i].kind \in kinds
requireSiteIdle == queue = <<>>

Ask(k, action, status, want) ==
    /\ spent < MaxRequests
    /\ spent' = spent + 1
    /\ row' = [row EXCEPT ![k] = [status |-> status, want |-> want]]
    /\ queue' = Append(queue, [kind |-> k, action |-> action, want |-> want])
    /\ UNCHANGED <<webSite, conf, faults, last>>

\* Any state of the site will do, only another change of its schedules will not.
enqueueCronJob == ~ Pending(Cron)
SetCronSchedule(want) == enqueueCronJob /\ Ask("cron", "apply", "pending", want)
RequestCronScheduleDelete ==
    enqueueCronJob /\ row["cron"].status # "none" /\ Ask("cron", "delete", "pending_delete", row["cron"].want)
SetWordPressCronSetting(want) == enqueueCronJob /\ Ask("wpcron", "apply", "pending", want)

\* Cloudflare's addresses only (2) and the defence exclude one another, by their rows.
SetSiteAccess(want) ==
    /\ webSite.status = "active" /\ row["access"].status # "pending"
    /\ want = 2 => row["security"].want = 0
    /\ Ask("access", "apply", "pending", want)
EnqueueSiteSecuritySettings(want) ==
    /\ requireSiteIdle /\ webSite.status = "active"
    /\ want # 0 => row["access"].want # 2
    /\ Ask("security", "apply", "pending", want)

requireHostingSiteIdle == requireSiteIdle /\ webSite.status = "active"
ConfigureNodeRuntime(want) == requireHostingSiteIdle /\ Ask("node", "apply", "pending", want)
CreateFTPUser == requireHostingSiteIdle /\ row["ftp"].status = "none" /\ Ask("ftp", "apply", "pending", 1)
EnqueueFTPUserDelete ==
    /\ requireHostingSiteIdle /\ row["ftp"].status \in {"active", "failed", "delete_failed"}
    /\ Ask("ftp", "delete", "pending_delete", 1)

Request ==
    \/ /\ "cron" \in KindsHere
       /\ (\E w \in {0} \cup Values : SetCronSchedule(w)) \/ RequestCronScheduleDelete
    \/ "wpcron" \in KindsHere /\ \E w \in {0} \cup Values : SetWordPressCronSetting(w)
    \/ "access" \in KindsHere /\ \E w \in {0} \cup Values : SetSiteAccess(w)
    \/ "security" \in KindsHere /\ \E w \in {0} \cup Values : EnqueueSiteSecuritySettings(w)
    \/ "node" \in KindsHere /\ \E w \in Values : ConfigureNodeRuntime(w)
    \/ "ftp" \in KindsHere /\ (CreateFTPUser \/ EnqueueFTPUserDelete)

enqueueSiteTransition(kind, allowed, transition) ==
    /\ requireSiteIdle /\ webSite.status \in allowed /\ spent < MaxRequests
    /\ spent' = spent + 1
    /\ webSite' = [webSite EXCEPT !.status = transition]
    /\ queue' = Append(queue, [kind |-> kind, action |-> "apply", want |-> 0])
    /\ UNCHANGED <<row, conf, faults, last>>

Transition == \/ enqueueSiteTransition("disable", {"active", "disable_failed"}, "disabling")
              \/ enqueueSiteTransition("enable", {"disabled", "enable_failed"}, "enabling")

-----------------------------------------------------------------------------
\* What a call does to the host c: a plan of steps, each with the host it
\* leaves and the host the code's rollback leaves when the step fails, and
\* how the call ends when no step fails.

Step(to, back)  == [to |-> to, back |-> back]
Plan(steps)     == [steps |-> steps, end |-> "done"]
Refused         == [steps |-> <<>>, end |-> "refused"]
After(c, plan)  == IF plan.steps = <<>> THEN c ELSE plan.steps[Len(plan.steps)].to
Then(c, p, Q(_)) ==
    IF p.end # "done" THEN p
    ELSE LET q == Q(After(c, p)) IN [steps |-> p.steps \o q.steps, end |-> q.end]

Ends(c, plan) ==
    {[conf |-> After(c, plan), end |-> plan.end], [conf |-> c, end |-> "cut"]}
        \cup {[conf |-> plan.steps[i].back, end |-> "failed"] : i \in DOMAIN plan.steps}
        \cup {[conf |-> plan.steps[i].to, end |-> "cut"] : i \in DOMAIN plan.steps}

Keep(c, k, w) == [c EXCEPT !.kept[k] = w]
Live(c, k, w) == [c EXCEPT !.live[k] = w]
Reload(c)     == [c EXCEPT !.live = [k \in AllKinds |-> IF k \in Nginx THEN c.kept[k] ELSE @[k]]]

\* The target is written beside itself, under a name of its own that must not
\* exist, and renamed over it.  A call cut off in between leaves that name.
secureSetCronTarget(c, k) ==
    IF k \in c.strays THEN [steps |-> <<>>, end |-> "blocked"]
    ELSE Plan(<<Step([c EXCEPT !.strays = @ \cup {k}], c), Step(Live(c, k, c.kept[k]), c)>>)
RemoveTarget(c, k) == Plan(<<Step(Live(c, k, 0), c)>>)
requireCronService(c) == Plan(<<Step(c, c)>>)
InstallCron(c, k) == Then(c, requireCronService(c), LAMBDA d : secureSetCronTarget(d, k))

ApplyCronSchedule(c, job) ==
    LET saved == Keep(c, "cron", IF job.want = 0 THEN 1 ELSE job.want)
        save  == Plan(<<Step(saved, c)>>)
        off   == Keep(c, "cron", 0) IN
    IF webSite.status \notin {"active", "disabled"} THEN Refused
    ELSE IF job.action = "delete" THEN
        Then(c, RemoveTarget(c, "cron"), LAMBDA d : Plan(<<Step(Keep(d, "cron", 0), d)>>))
    ELSE IF job.want = 0 THEN
        Plan(<<Step(saved, c), Step(off, saved), Step(Live(off, "cron", 0), off)>>)
    ELSE Then(c, save, LAMBDA d : IF webSite.status = "disabled" THEN RemoveTarget(d, "cron")
                                  ELSE InstallCron(d, "cron"))

setWPInternalCron(c, disable) == [c EXCEPT !.internal = ~ disable]

\* The external runner comes before the internal one goes, and the other way round.
\* When wp-config.php cannot be edited the entry just installed is removed again.
ApplyWordPressCronReplacement(c, job) ==
    LET save     == Plan(<<Step(Keep(c, "wpcron", job.want), c)>>)
        silence(d) == Plan(<<Step(setWPInternalCron(d, TRUE),
                                  IF webSite.status = "active" THEN Live(d, "wpcron", 0) ELSE d)>>)
        spoken   == setWPInternalCron(c, FALSE)
        removed  == Live(spoken, "wpcron", 0) IN
    IF webSite.status \notin {"active", "disabled"} THEN Refused
    ELSE IF job.want = 0 THEN
        Plan(<<Step(spoken, c), Step(removed, spoken), Step(Keep(removed, "wpcron", 0), removed)>>)
    ELSE Then(c, IF webSite.status = "active" THEN Then(c, save, LAMBDA d : InstallCron(d, "wpcron"))
                 ELSE save, silence)

\* Several files, a check and a reload; all are put back when one step fails.
SwitchFiles(c, k, want) ==
    LET put == Keep(c, k, want) IN
    Plan(<<Step(Keep(c, k, Torn), c), Step(put, c), Step(Reload(put), Reload(c))>>)
ApplySiteAccess(c, want) == IF webSite.status = "active" THEN SwitchFiles(c, "access", want) ELSE Refused
applySecurity(c, want)   == SwitchFiles(c, "security", want)

\* A running application is stopped first, and started again as it was when a
\* later step fails.  Without one, what was written stays.
ApplyNodeRuntime(c, want) ==
    LET stopped == Live(c, "node", 0)
        written == Keep(stopped, "node", want)
        again   == IF c.kept["node"] = 0 THEN written ELSE Live(c, "node", c.kept["node"]) IN
    Plan(<<Step(stopped, c), Step(written, IF c.kept["node"] = 0 THEN c ELSE again),
           Step(Live(written, "node", want), again)>>)

ApplyFTPUser(c, want) ==
    IF webSite.status # "active" THEN Refused
    ELSE Plan(<<Step(Live(c, "ftp", want), c), Step(Live(c, "ftp", want), c)>>)
DeleteFTPUser(c) ==
    LET gone == Live(c, "ftp", 0) IN Plan(<<Step(gone, c), Step(gone, gone)>>)

SetSiteCronEnabled(c, enabled) ==
    LET one(d, k) == IF d.kept[k] = 0 THEN Plan(<<>>)
                     ELSE IF enabled THEN secureSetCronTarget(d, k) ELSE RemoveTarget(d, k) IN
    Then(c, one(c, "cron"), LAMBDA d : one(d, "wpcron"))

stopSiteHostingLocked(c) ==
    LET quiet == IF c.kept["node"] = 0 THEN c ELSE Live(c, "node", 0) IN
    Plan(<<Step(quiet, c), Step(Live(quiet, "ftp", 0), quiet)>>)

Traffic(c) == Plan(<<Step(Reload(c), c)>>)
\* Mutant of Disable: the hosting services of the site are left running.
DisableKeepsHosting(c) == Then(c, Traffic(c), LAMBDA d : SetSiteCronEnabled(d, FALSE))
Disable(c) ==
    Then(c, Then(c, Traffic(c), LAMBDA d : SetSiteCronEnabled(d, FALSE)), stopSiteHostingLocked)
Provision(c) == Then(c, Traffic(c), LAMBDA d : SetSiteCronEnabled(d, TRUE))

\* The accounts are applied with the site as it was read, "enabling".
enableSiteHosting(c) ==
    Then(c, IF row["node"].status = "none" THEN Plan(<<>>) ELSE ApplyNodeRuntime(c, row["node"].want),
         LAMBDA d : IF row["ftp"].status = "active" THEN ApplyFTPUser(d, row["ftp"].want) ELSE Plan(<<>>))

Call(c, job) ==
    CASE job.kind = "cron"     -> ApplyCronSchedule(c, job)
      [] job.kind = "wpcron"   -> ApplyWordPressCronReplacement(c, job)
      [] job.kind = "access"   -> ApplySiteAccess(c, row["access"].want)
      [] job.kind = "security" -> applySecurity(c, row["security"].want)
      [] job.kind = "node"     -> ApplyNodeRuntime(c, row["node"].want)
      [] job.kind = "ftp"      -> IF job.action = "delete" THEN DeleteFTPUser(c)
                                  ELSE ApplyFTPUser(c, row["ftp"].want)
      [] job.kind = "disable"  -> Disable(c)
      [] job.kind = "enable"   -> Then(c, Provision(c), enableSiteHosting)

-----------------------------------------------------------------------------
\* The worker.

FinishJob(job, ok) ==
    /\ queue' = Tail(queue)
    /\ IF job.kind \in {"enable", "disable"}
       THEN /\ webSite' = [webSite EXCEPT !.status =
                 CASE job.kind = "enable"  -> IF ok THEN "active" ELSE "enable_failed"
                   [] job.kind = "disable" -> IF ok THEN "disabled" ELSE "disable_failed"]
            /\ row' = row
       ELSE /\ row' = [row EXCEPT ![job.kind] =
                 IF ~ ok THEN [@ EXCEPT !.status = IF job.kind = "ftp" /\ job.action = "delete"
                                                   THEN "delete_failed" ELSE "failed"]
                 ELSE IF job.action = "delete" THEN [status |-> "none", want |-> 0]
                 ELSE [@ EXCEPT !.status = "active"]]
            /\ webSite' = webSite

\* The kinds whose job is put back when the broker's answer is lost.  A panel
\* that restarts puts back any.
Replayed == SettingKinds

ProcessOne ==
    /\ queue # <<>>
    /\ \E e \in Ends(conf, Call(conf, Head(queue))) :
        LET job == Head(queue) IN
        /\ conf' = e.conf
        /\ last' = IF e.end \in {"refused", "blocked"} THEN <<job.kind, e.end>> ELSE <<>>
        /\ IF e.end \in {"failed", "cut"} THEN faults < MaxFaults /\ faults' = faults + 1 ELSE faults' = faults
        /\ IF e.end # "cut" THEN FinishJob(job, e.end = "done")
           ELSE \/ UNCHANGED <<webSite, row, queue>>
                \/ job.kind \notin Replayed /\ FinishJob(job, FALSE)
        /\ spent' = spent

SettingsNext == Request \/ Transition \/ ProcessOne
SettingsSpec == SettingsInit /\ [][SettingsNext]_settingVars

-----------------------------------------------------------------------------

SettingsTypeOK ==
    /\ webSite.status \in {"active", "disabling", "disabled", "disable_failed", "enabling", "enable_failed"}
    /\ \A k \in AllKinds : /\ row[k].want \in 0..2 /\ conf.kept[k] \in 0..Torn /\ conf.live[k] \in 0..Torn
                           /\ row[k].status \in {"none", "pending", "pending_delete", "active", "failed",
                                                 "delete_failed"}
    /\ conf.strays \subseteq Cron /\ conf.internal \in BOOLEAN

\* Whatever failed, was cut off or was replayed before: on an active site a row
\* that reads as applied is what the host does, what was deleted or never asked
\* for is not there, and a disabled site runs none of it (cron.go:157-158: "Desired
\* files remain under DataRoot while a disabled site has no live /etc/cron.d
\* entries").  WordPress's own schedule is off exactly when it was replaced.
RowsAreInForce ==
    \A k \in AllKinds :
        /\ row[k].status = "none" => conf.live[k] = 0
        /\ row[k].status = "active" =>
              /\ webSite.status = "active" => conf.live[k] = row[k].want
              /\ webSite.status = "disabled" /\ k \in Runs => conf.live[k] = 0
              /\ k = "wpcron" => conf.internal = (row[k].want = 0)

\* Enabling a site replays its FTP accounts: no step of it is refused by the
\* code itself (docs/dispatch/hosting-services.md:63-64).
EnableReplaysAccounts == last # <<"enable", "refused">>
=============================================================================
