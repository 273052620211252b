---------------------------- MODULE SiteDeletion ----------------------------
(***************************************************************************)
(* How the broker deletes a WordPress site from the host (Host.DeleteSite).*)
(* A deletion is never undone: its record is written before anything is    *)
(* removed, and a call that failed or was broken off is repeated under the *)
(* same key until the record says done.  Meanwhile nginx is reloaded for   *)
(* other reasons, PHP applies a reload late, the site's own programs start *)
(* others, and other sites come to and leave the PHP branch it shares.     *)
(***************************************************************************)
EXTENDS Naturals, HostResults

CONSTANTS Domain,    \* the site's host name
          MaxFaults  \* bound: failed steps, stops and lost answers

ASSUME DomainAssumption == Domain # None
ASSUME BoundsAssumption == MaxFaults \in Nat

VARIABLES
    record,     \* the deletion record of the job
    \* what belongs to the site
    link,       \* its vhosts are enabled
    vhost,      \* its vhosts are available
    pool,       \* its PHP pool is configured
    launchers,  \* cron entries, units and logins that start programs
    account, database,
    tree,       \* its files: "whole", "part" or "none"
    \* what runs
    traffic,    \* nginx has its vhosts loaded
    listening,  \* PHP has its pool loaded
    procs,      \* programs run under its account
    branch,     \* the PHP branch: is it running, was it asked to reload,
                \* do other sites have pools on it
    \* the call, and what the panel knows
    pc, mem, reply,
    began,      \* history: host and record when the call began
    told, faults

config == <<link, vhost, pool, launchers, account, database, tree>>
live   == <<traffic, listening, procs, branch>>
call   == <<pc, mem, reply, began>>
vars   == <<record, config, live, call, told, faults>>

Record == [state : {"none", "removing", "done"}, stopped : BOOLEAN,
           account : BOOLEAN, database : BOOLEAN]
Branch == [running : BOOLEAN, asked : BOOLEAN, others : BOOLEAN]
Steps  == {"idle", "start", "unlink", "nginx", "pool", "release", "wait", "launchers",
           "mark_stopped", "stop", "drop", "tree", "files", "account", "mark_done", "answered"}

TypeOK ==
    /\ record \in Record /\ mem \in Record
    /\ link \in BOOLEAN /\ vhost \in BOOLEAN /\ pool \in BOOLEAN /\ launchers \in BOOLEAN
    /\ account \in BOOLEAN /\ database \in BOOLEAN /\ tree \in {"whole", "part", "none"}
    /\ traffic \in BOOLEAN /\ listening \in BOOLEAN /\ procs \in BOOLEAN /\ told \in BOOLEAN
    /\ branch \in Branch
    /\ pc \in Steps /\ reply \in {"none", "ok", "fail"}
    /\ faults \in 0..MaxFaults

\* Host as SiteLifecycle sees it: visitors get in when the vhosts are enabled,
\* since anybody may reload nginx.
HostView == [files |-> tree # "none", vhost |-> IF vhost THEN Domain ELSE None,
             serving |-> link]

\* Provision makes the account first, then the directories, then the rest;
\* Disable takes some of it away; either may have been broken off anywhere.
Init ==
    /\ link \in BOOLEAN /\ vhost \in BOOLEAN /\ pool \in BOOLEAN /\ launchers \in BOOLEAN
    /\ account \in BOOLEAN /\ database \in BOOLEAN /\ tree \in {"whole", "none"}
    /\ traffic \in BOOLEAN /\ listening \in BOOLEAN /\ branch \in Branch
    /\ pool \/ listening \/ database \/ vhost => tree = "whole"
    /\ link \/ traffic \/ launchers => vhost
    /\ tree = "whole" => account
    /\ ~branch.asked /\ (branch.others \/ listening => branch.running)
    /\ procs = FALSE
    /\ record = [state |-> "none", stopped |-> FALSE, account |-> FALSE, database |-> FALSE]
    /\ pc = "idle" /\ mem = record /\ reply = "none" /\ began = Result(HostView, "none", "none")
    /\ told = FALSE /\ faults = 0

-----------------------------------------------------------------------------
(***************************************************************************)
(* The call.                                                               *)
(***************************************************************************)
Fault    == faults < MaxFaults /\ faults' = faults + 1
Reply(r) == pc' = "answered" /\ reply' = r /\ UNCHANGED began
Fail     == Fault /\ Reply("fail") /\ UNCHANGED mem
Goto(p)  == pc' = p /\ UNCHANGED <<mem, reply, began, faults>>

\* After what a step does, the next one; or it has done it and still fails.
Then(p)  == Goto(p) \/ Fail

Call ==
    /\ pc = "idle" /\ ~told
    /\ pc' = "start" /\ mem' = record /\ reply' = "none"
    /\ began' = Result(HostView, record.state, "none")
    /\ UNCHANGED <<record, config, live, told, faults>>

\* Any step may fail before it has done anything.
StepFails ==
    /\ pc \notin {"idle", "answered"} /\ Fail
    /\ UNCHANGED <<record, config, live, told>>

AnswerAgain ==
    /\ pc = "start" /\ mem.state = "done" /\ Reply("ok")
    /\ UNCHANGED <<record, config, live, mem, told, faults>>

\* Mutant of Resume: the files have to be there, as for a new deletion.
ResumeNeedsTree ==
    /\ pc = "start" /\ mem.state = "removing"
    /\ \/ tree # "none" /\ Goto("unlink")
       \/ tree = "none" /\ Reply("fail") /\ UNCHANGED <<mem, faults>>
    /\ UNCHANGED <<record, config, live, told>>

Resume ==
    /\ pc = "start" /\ mem.state = "removing" /\ Goto("unlink")
    /\ UNCHANGED <<record, config, live, told>>

\* writeSiteDeletion; a write that fails may have replaced the file.
Save(m, done) ==
    /\ mem' = m
    /\ \/ record' = m /\ done /\ UNCHANGED faults
       \/ record' = m /\ Fault /\ Reply("fail")

\* Mutant of Begin: the account is looked up again when it is to be removed.
BeginForgetsAccount ==
    /\ pc = "start" /\ mem.state = "none"
    /\ Save([mem EXCEPT !.state = "removing", !.database = database],
            pc' = "unlink" /\ UNCHANGED <<reply, began>>)
    /\ UNCHANGED <<config, live, told>>

\* Mutant of Begin: the database is not part of the record.
BeginForgetsDatabase ==
    /\ pc = "start" /\ mem.state = "none"
    /\ Save([mem EXCEPT !.state = "removing", !.account = account],
            pc' = "unlink" /\ UNCHANGED <<reply, began>>)
    /\ UNCHANGED <<config, live, told>>

\* Everything is inspected, then the record names what is to be removed.
Begin ==
    /\ pc = "start" /\ mem.state = "none"
    /\ Save([mem EXCEPT !.state = "removing", !.account = account, !.database = database],
            pc' = "unlink" /\ UNCHANGED <<reply, began>>)
    /\ UNCHANGED <<config, live, told>>

\* Mutant of Unlink: the vhosts are disabled when they are removed.
UnlinkLater ==
    /\ pc = "unlink" /\ Then("nginx")
    /\ UNCHANGED <<record, config, live, told>>

Unlink ==
    /\ pc = "unlink" /\ link' = FALSE /\ Then("nginx")
    /\ UNCHANGED <<record, vhost, pool, launchers, account, database, tree, live, told>>

\* Mutant of AfterNginx: the pool is only released while it exists.
AfterNginxSkips == IF mem.stopped \/ ~pool THEN "stop" ELSE "pool"

AfterNginx == IF mem.stopped THEN "stop" ELSE "pool"

ReloadNginx ==
    /\ pc = "nginx" /\ traffic' = link /\ Then(AfterNginx)
    /\ UNCHANGED <<record, config, listening, procs, branch, told>>

RemovePool ==
    /\ pc = "pool" /\ pool' = FALSE /\ Then("release")
    /\ UNCHANGED <<record, link, vhost, launchers, account, database, tree, live, told>>

\* Mutant of ReleaseBranch: the branch is stopped with its last WPX site.
ReleaseBranchStops ==
    /\ pc = "release"
    /\ branch' = [branch EXCEPT !.running = FALSE] /\ listening' = FALSE
    /\ Then("wait")
    /\ UNCHANGED <<record, config, traffic, procs, told>>

\* reloadOrStopUnused looks at the pools that are there.
ReleaseBranch ==
    /\ pc = "release"
    /\ IF branch.others
       THEN branch' = [branch EXCEPT !.asked = TRUE] /\ UNCHANGED listening
       ELSE branch' = [branch EXCEPT !.running = FALSE] /\ listening' = FALSE
    /\ Then("wait")
    /\ UNCHANGED <<record, config, traffic, procs, told>>

\* waitDeletionSocketStopped; its timeout is a failure.
WaitListener ==
    /\ pc = "wait" /\ ~listening /\ Goto("launchers")
    /\ UNCHANGED <<record, config, live, told>>

\* RemoveSiteCron, deleteSiteHostingLocked.
RemoveLaunchers ==
    /\ pc = "launchers" /\ launchers' = FALSE /\ Then("mark_stopped")
    /\ UNCHANGED <<record, link, vhost, pool, account, database, tree, live, told>>

MarkStopped ==
    /\ pc = "mark_stopped"
    /\ Save([mem EXCEPT !.stopped = TRUE], pc' = "stop" /\ UNCHANGED <<reply, began>>)
    /\ UNCHANGED <<config, live, told>>

\* Every program of the account is killed, if there still is one.
StopSite == IF mem.account /\ account THEN procs' = FALSE ELSE UNCHANGED procs

StopPrograms ==
    /\ pc = "stop" /\ StopSite
    /\ Then(IF mem.database THEN "drop" ELSE "tree")
    /\ UNCHANGED <<record, config, traffic, listening, branch, told>>

DropDatabase ==
    /\ pc = "drop" /\ database' = FALSE /\ Then("tree")
    /\ UNCHANGED <<record, link, vhost, pool, launchers, account, tree, live, told>>

RemoveTree ==
    /\ pc = "tree"
    /\ \/ tree' = "none" /\ Then("files")
       \/ tree' = (IF tree = "none" THEN "none" ELSE "part") /\ Fail
    /\ UNCHANGED <<record, link, vhost, pool, launchers, account, database, live, told>>

RemoveFiles ==
    /\ pc = "files" /\ vhost' = FALSE /\ Then("account")
    /\ UNCHANGED <<record, link, pool, launchers, account, database, tree, live, told>>

RemoveAccount ==
    /\ pc = "account" /\ StopSite
    /\ account' = (account /\ ~mem.account)
    /\ Then("mark_done")
    /\ UNCHANGED <<record, link, vhost, pool, launchers, database, tree,
                   traffic, listening, branch, told>>

MarkDone ==
    /\ pc = "mark_done"
    /\ Save([mem EXCEPT !.state = "done"], Reply("ok"))
    /\ UNCHANGED <<config, live, told>>

Deliver ==
    /\ pc = "answered" /\ pc' = "idle"
    /\ \/ told' = (reply = "ok") /\ UNCHANGED faults
       \/ Fault /\ UNCHANGED told
    /\ UNCHANGED <<record, config, live, mem, reply, began>>

StopBroker ==
    /\ pc \notin {"idle", "answered"} /\ Fault
    /\ pc' = "idle"
    /\ UNCHANGED <<record, config, live, mem, reply, began, told>>

-----------------------------------------------------------------------------
(***************************************************************************)
(* The rest of the host.                                                   *)
(***************************************************************************)
NginxReload ==
    /\ traffic # link /\ traffic' = link
    /\ UNCHANGED <<record, config, listening, procs, branch, call, told, faults>>

\* PHP finishes a reload after systemctl has reported it.
PHPApplies ==
    /\ branch.asked /\ branch' = [branch EXCEPT !.asked = FALSE] /\ listening' = pool
    /\ UNCHANGED <<record, config, traffic, procs, call, told, faults>>

ProgramStarts ==
    /\ ~procs /\ account
    /\ launchers \/ (listening /\ branch.running)
    /\ procs' = TRUE
    /\ UNCHANGED <<record, config, traffic, listening, branch, call, told, faults>>

\* Another site's operation, which h.mu keeps out of a running call.
NeighbourMoves ==
    /\ pc \in {"idle", "answered"}
    /\ \E there \in BOOLEAN :
         /\ there # branch.others
         /\ branch' = [running |-> there \/ pool, asked |-> branch.asked /\ (there \/ pool),
                       others |-> there]
         /\ listening' = (listening /\ (there \/ pool))
    /\ UNCHANGED <<record, config, traffic, procs, call, told, faults>>

CallStep ==
    \/ StepFails \/ AnswerAgain \/ Resume \/ Begin \/ Unlink \/ ReloadNginx \/ RemovePool
    \/ ReleaseBranch \/ WaitListener \/ RemoveLaunchers \/ MarkStopped \/ StopPrograms
    \/ DropDatabase \/ RemoveTree \/ RemoveFiles \/ RemoveAccount \/ MarkDone \/ Deliver

Next == Call \/ CallStep \/ StopBroker \/ NginxReload \/ PHPApplies \/ ProgramStarts \/ NeighbourMoves

Spec == Init /\ [][Next]_vars

\* A call goes on, and PHP does apply what it has accepted.
FairSpec == Spec /\ WF_vars(CallStep) /\ WF_vars(PHPApplies)

-----------------------------------------------------------------------------
\* Once something of the site's data has been destroyed, nobody can write to
\* the rest any more: no visitor, no PHP worker, no cron job or login, and none
\* of the programs they had started (the order of DeleteSite's stages).
NobodyWritesWhileRemoving ==
    tree = "part" \/ (record.database /\ ~database) =>
      ~traffic /\ ~pool /\ ~listening /\ ~launchers /\ ~procs

\* The UID is not free for another site while files or a database of the old
\* one exist (the account is removed last).
AccountOutlivesData == tree # "none" \/ database => account

\* What the record calls done is gone, on disk and in every running service.
DoneMeansGone ==
    record.state = "done" =>
      /\ ~(\E x \in {link, vhost, pool, launchers, account, database} : x) /\ tree = "none"
      /\ ~traffic /\ ~listening /\ ~procs

\* The PHP branch runs as long as another site has a pool on it.
NeighboursKeepPHP == branch.others => branch.running

\* However a call ends, SiteLifecycle has this end among its results.
CallsMatchTheirSummary ==
    pc = "answered" =>
      Result(HostView, record.state, reply) \in DeleteResults(began.host, began.journal)

-----------------------------------------------------------------------------
(***************************************************************************)
(* The inductive invariant: how far the deletion is, told from the record  *)
(* and from the place of the call.                                         *)
(***************************************************************************)
Unlinked == ~link /\ ~traffic
Silent   == Unlinked /\ ~pool /\ ~listening /\ ~launchers

\* What the record alone guarantees, whatever call comes next.
RecordIsTrue ==
    /\ mem = record
    /\ record.state = "none" => ~record.stopped
    /\ record.state # "none" => (account => record.account) /\ (database => record.database)
    /\ record.stopped => Silent
    /\ record.state # "none" /\ (tree = "part" \/ (record.database /\ ~database)) =>
         record.stopped /\ ~procs
    /\ record.state = "none" => tree # "part" /\ ~record.database
    /\ procs \/ tree # "none" \/ database => account
    /\ record.state = "done" => Silent /\ ~vhost /\ ~account
    /\ branch.others => branch.running

\* What a call has done when it gets to its next step.
CallGetsFurther ==
    /\ pc \notin {"idle", "start", "answered"} => record.state = "removing"
    /\ pc = "nginx" => ~link
    /\ pc \in {"pool", "release", "wait", "launchers", "mark_stopped"} => Unlinked
    /\ pc \in {"release", "wait", "launchers", "mark_stopped"} => ~pool
    /\ pc \in {"launchers", "mark_stopped"} => ~listening
    /\ pc = "mark_stopped" => ~launchers
    /\ pc \in {"stop", "drop", "tree", "files", "account", "mark_done"} => record.stopped
    /\ pc \in {"drop", "tree", "files", "account", "mark_done"} => ~procs
    /\ pc \in {"tree", "files", "account", "mark_done"} => ~database
    /\ pc \in {"files", "account", "mark_done"} => tree = "none"
    /\ pc \in {"account", "mark_done"} => ~vhost
    /\ pc = "mark_done" => ~account
    /\ pc = "answered" => reply # "none"
    /\ pc = "answered" /\ reply = "ok" => record.state = "done"

\* A call only takes away, in the order in which SiteLifecycle may see it.
CallsTakeAway ==
    /\ began.host \in [files : BOOLEAN, vhost : {Domain, None}, serving : BOOLEAN]
    /\ began.journal = "done" => began.host = Gone
    /\ pc # "idle" =>
         /\ record.state \in CASE began.journal = "none"     -> {"none", "removing", "done"}
                                [] began.journal = "removing" -> {"removing", "done"}
                                [] OTHER                      -> {"done"}
         /\ began.journal \in {"none", "removing", "done"}
         /\ record.state = "none" => HostView = began.host
         /\ tree # "none" => began.host.files
         /\ vhost => began.host.vhost = Domain
         /\ link => began.host.serving
         /\ tree = "none" /\ began.host.files => ~link
         /\ ~vhost /\ began.host.vhost = Domain => ~link /\ tree = "none"

DeletionInv == TypeOK /\ RecordIsTrue /\ CallGetsFurther /\ CallsTakeAway

\* Every call ends, and with finitely many failures repeating it finishes the
\* deletion, from whatever state an earlier one was broken off in.
RetriesConverge == []<>(pc = "idle") /\ ~[]<>(pc = "start")
=============================================================================
