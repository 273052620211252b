---------------------------- MODULE DomainChange ----------------------------
(***************************************************************************)
(* How the broker renames a site on the host (Host.ChangeDomain): the      *)
(* recovery journal of one job, the two vhosts on disk, what nginx has     *)
(* loaded, and the WordPress database with its recovery snapshot.          *)
(*                                                                         *)
(* A call runs in small steps; each may fail, and between any two of them  *)
(* the broker may stop.  nginx loads the vhosts on disk whenever anybody   *)
(* reloads or restarts it, not only when this call asks for it.  A request *)
(* of a visitor that nginx let in writes to the database when it gets to   *)
(* it, which may be after nginx shut the site, and a cron job writes       *)
(* whenever it likes.  The panel repeats the call under the same key until *)
(* it is told an outcome.                                                  *)
(***************************************************************************)
EXTENDS Naturals, HostResults

CONSTANTS Old, New,   \* the two host names
          MaxWrites,  \* bound: writes of visitors and cron jobs
          MaxFaults   \* bound: failed steps, stops and lost answers

ASSUME NamesAssumption == Old # New /\ Old # None /\ New # None
ASSUME BoundsAssumption == MaxWrites \in Nat /\ MaxFaults \in Nat

VARIABLES
    setup,     \* is it WordPress, does it have a TLS vhost; never changes
    \* on disk
    journal,   \* state.json
    snapshot,  \* database.sql, the recovery copy
    vhost,     \* the generated vhosts, plain and TLS
    \* running on the host
    nginx,     \* the vhosts nginx has loaded
    db,        \* the WordPress database: the name in its URLs, the writes it holds
    inside,    \* requests nginx let in that have not written yet
    accepted,  \* history: writes committed while nginx let visitors in
    late,      \* history: writes committed while it did not
    \* the call
    pc,        \* the next step
    mem,       \* the journal in memory
    reply,     \* the answer
    began,     \* history: host and journal when the call began
    \* the panel
    told,      \* the outcome it knows
    faults     \* faults so far

disk   == <<journal, snapshot, vhost>>
visits == <<inside, accepted, late>>
world  == <<nginx, db, visits>>
call   == <<pc, mem, reply, began>>
vars   == <<setup, disk, world, call, told, faults>>

States   == {"none", "changing", "activating", "complete",
             "rolling_back", "restoring_traffic", "restored"}
Journal  == [state : States, ready : BOOLEAN, started : BOOLEAN]
Vhosts   == [http : {"old", "gate", "new"}, tls : {"old", "gate", "off"}]
Urls     == {"old", "mixed", "new", "broken"}
Database == [url : Urls, writes : 0..MaxWrites, late : 0..MaxWrites]
Steps    == {"idle", "start", "http", "tls", "reload", "export", "mark_started",
             "rewrite", "check", "mark_activating", "mark_complete", "rollback",
             "import", "mark_restoring", "mark_restored", "answered"}
Replies  == {"none", "ok", "fail", "restored"}

TypeOK ==
    /\ setup \in [wordPress : BOOLEAN, tls : BOOLEAN]
    /\ journal \in Journal /\ mem \in Journal
    /\ snapshot \in Database \cup {None}
    /\ vhost \in Vhosts /\ nginx \in Vhosts
    /\ db \in Database
    /\ inside \in Nat /\ accepted \in Nat /\ late \in Nat
    /\ inside + accepted + late <= MaxWrites
    /\ pc \in Steps /\ reply \in Replies
    /\ told \in {Old, New, None} /\ faults \in 0..MaxFaults

\* The vhosts that each phase of the change wants on disk.
Active      == [http |-> "old", tls |-> IF setup.tls THEN "old" ELSE "off"]
Maintenance == [http |-> "gate", tls |-> IF setup.tls THEN "gate" ELSE "off"]
Renamed     == [http |-> "new", tls |-> "off"]
Wanted(state) ==
    CASE state = "changing"   -> Maintenance
      [] state = "activating" -> Renamed
      [] OTHER                -> Active

\* The name under which visitors get in.
Serving ==
    IF nginx.http = "new" THEN New
    ELSE IF "old" \in {nginx.http, nginx.tls} THEN Old ELSE None

\* Host and journal as SiteLifecycle sees them.
HostView == IF Serving = None THEN Off(Old) ELSE Up(Serving)
JournalView ==
    IF journal.state \in {"rolling_back", "restoring_traffic"} THEN "rollback" ELSE journal.state

Init ==
    /\ setup \in [wordPress : BOOLEAN, tls : BOOLEAN]
    /\ journal = [state |-> "none", ready |-> FALSE, started |-> FALSE]
    /\ snapshot = None /\ vhost = Active /\ nginx = Active
    /\ db = [url |-> "old", writes |-> 0, late |-> 0]
    /\ inside = 0 /\ accepted = 0 /\ late = 0
    /\ pc = "idle" /\ mem = journal /\ reply = "none"
    /\ began = Result(HostView, "none", "none")
    /\ told = None /\ faults = 0

-----------------------------------------------------------------------------
(***************************************************************************)
(* Steps of a call.  Each succeeds, or fails at the cost of a fault.       *)
(***************************************************************************)
Try(done, failed) ==
    \/ done /\ UNCHANGED faults
    \/ failed /\ faults < MaxFaults /\ faults' = faults + 1

Goto(step) == pc' = step /\ UNCHANGED <<reply, began>>
Reply(r)   == pc' = "answered" /\ reply' = r /\ UNCHANGED began

\* A durable write of the journal; one that fails may have replaced the file.
Save(j, done, failed) ==
    /\ mem' = j
    /\ Try(journal' = j /\ done, journal' \in {j, journal} /\ failed)

Mark(from, state, done, failed) ==
    /\ pc = from
    /\ Save([mem EXCEPT !.state = state], done, failed)
    /\ UNCHANGED <<setup, snapshot, vhost, world, told>>

\* Until the activation boundary a failed step is undone, afterwards it is resumed.
GiveUp == IF mem.state = "changing" THEN Goto("rollback") ELSE Reply("fail")

Call ==
    /\ pc = "idle" /\ told = None
    /\ pc' = "start" /\ mem' = journal /\ reply' = "none"
    /\ began' = Result(HostView, JournalView, "none")
    /\ UNCHANGED <<setup, disk, world, told, faults>>

\* Early returns: wrong directories, an unreadable journal, no such account.
RefuseCall ==
    /\ pc = "start"
    /\ Try(FALSE, Reply("fail"))
    /\ UNCHANGED <<setup, disk, world, mem, told>>

\* A finished change is answered from its journal.
AnswerAgain ==
    /\ pc = "start" /\ mem.state \in {"complete", "restored"}
    /\ Reply(IF mem.state = "complete" THEN "ok" ELSE "restored")
    /\ UNCHANGED <<setup, disk, world, mem, told, faults>>

\* Mutant of Boots: WordPress is asked at every start.
BootsAlways == TRUE

\* Only a change that has not begun to recover asks WordPress to load.
Boots == mem.state \in {"none", "changing"}

\* Mutant of PreflightReply: a replay that fails its checks counts as restored.
PreflightReplyRestored == "restored"

\* Before there is a journal nothing has been changed.
PreflightReply == IF mem.state = "none" THEN "restored" ELSE "fail"

\* The checks that load WordPress; a half imported database does not load.
PreflightFails ==
    /\ pc = "start" /\ setup.wordPress /\ Boots
    /\ mem.state \notin {"complete", "restored", "activating"}
    /\ IF db.url = "broken" THEN Reply(PreflightReply) /\ UNCHANGED faults
       ELSE Try(FALSE, Reply(PreflightReply))
    /\ UNCHANGED <<setup, disk, world, mem, told>>

Checked == setup.wordPress /\ Boots => db.url # "broken"

\* Mutant of ResumeActivation: an interrupted activation is undone.
ResumeActivationBackwards ==
    /\ pc = "start" /\ mem.state = "activating" /\ Goto("rollback")
    /\ mem' = [mem EXCEPT !.state = "rolling_back"]
    /\ UNCHANGED <<setup, disk, world, told, faults>>

ResumeActivation ==
    /\ pc = "start" /\ mem.state = "activating" /\ Goto("http")
    /\ UNCHANGED <<setup, disk, world, mem, told, faults>>

ResumeRollback ==
    /\ pc = "start" /\ mem.state \in {"rolling_back", "restoring_traffic"} /\ Checked
    /\ Goto("rollback")
    /\ UNCHANGED <<setup, disk, world, mem, told, faults>>

ResumeChange ==
    /\ pc = "start" /\ mem.state = "changing" /\ Checked /\ Goto("http")
    /\ UNCHANGED <<setup, disk, world, mem, told, faults>>

\* The vhosts are inspected and kept in the first journal.
Begin ==
    /\ pc = "start" /\ mem.state = "none" /\ Checked
    /\ Save([mem EXCEPT !.state = "changing"], Goto("http"), Reply("fail"))
    /\ UNCHANGED <<setup, snapshot, vhost, world, told>>

\* writeDomainVhosts, the plain one first, then reloadDomainNginx.
WriteVhost(from, part, next) ==
    LET written == [vhost EXCEPT ![part] = Wanted(mem.state)[part]] IN
    /\ pc = from
    /\ Try(vhost' = written /\ Goto(next), vhost' \in {vhost, written} /\ GiveUp)
    /\ UNCHANGED <<setup, journal, snapshot, world, mem, told>>

WriteHTTP == WriteVhost("http", "http", "tls")
WriteTLS  == WriteVhost("tls", "tls", "reload")

\* Mutant of AfterReload: a replay exports the database again.
AfterReloadExports ==
    CASE mem.state = "changing" -> IF setup.wordPress THEN "export" ELSE "mark_activating"
      [] mem.state = "activating" -> "mark_complete"
      [] OTHER                    -> "mark_restored"

AfterReload ==
    CASE mem.state = "changing" ->
            IF ~setup.wordPress THEN "mark_activating"
            ELSE IF mem.ready THEN "mark_started" ELSE "export"
      [] mem.state = "activating" -> "mark_complete"
      [] OTHER                    -> "mark_restored"

Reload ==
    /\ pc = "reload"
    /\ Try(nginx' = vhost /\ Goto(AfterReload), nginx' \in {nginx, vhost} /\ GiveUp)
    /\ UNCHANGED <<setup, disk, db, visits, mem, told>>

\* exportDomainDatabase replaces the recovery copy, then BackupReady is journaled.
Export ==
    /\ pc = "export"
    /\ \/ snapshot' = db /\ Save([mem EXCEPT !.ready = TRUE], Goto("mark_started"), Goto("rollback"))
       \/ /\ snapshot' \in {snapshot, db} /\ UNCHANGED <<journal, mem>>
          /\ Try(FALSE, Goto("rollback"))
    /\ UNCHANGED <<setup, vhost, world, told>>

MarkStarted ==
    /\ pc = "mark_started"
    /\ Save([mem EXCEPT !.started = TRUE], Goto("rewrite"), Goto("rollback"))
    /\ UNCHANGED <<setup, snapshot, vhost, world, told>>

\* search-replace, the two options, the caches, the table check.
Rewrite ==
    /\ pc = "rewrite"
    /\ db' = [db EXCEPT !.url = "mixed"]
    /\ Try(Goto("check"), Goto("rollback"))
    /\ UNCHANGED <<setup, disk, nginx, visits, mem, told>>

Check ==
    /\ pc = "check"
    /\ db' = [db EXCEPT !.url = "new"]
    /\ Try(Goto("mark_activating"), Goto("rollback"))
    /\ UNCHANGED <<setup, disk, nginx, visits, mem, told>>

MarkActivating == Mark("mark_activating", "activating", Goto("http"), Reply("fail"))
MarkComplete   == Mark("mark_complete", "complete", Reply("ok"), Reply("fail"))

-----------------------------------------------------------------------------
(***************************************************************************)
(* rollbackDomainChange.                                                   *)
(***************************************************************************)
AfterIntent == IF mem.started THEN "import" ELSE "mark_restoring"

RecordRollback ==
    /\ pc = "rollback"
    /\ \/ mem.state = "changing" /\
          Save([mem EXCEPT !.state = "rolling_back"], Goto(AfterIntent), Reply("fail"))
       \/ /\ mem.state # "changing" /\ UNCHANGED <<journal, mem, faults>>
          /\ Goto(IF mem.state = "rolling_back" THEN AfterIntent ELSE "http")
    /\ UNCHANGED <<setup, snapshot, vhost, world, told>>

\* The import replaces table after table; one that fails leaves some of both.
Import ==
    /\ pc = "import"
    /\ Try(snapshot # None /\ db' = snapshot /\ Goto("mark_restoring"),
           /\ db' \in {db} \cup {[d EXCEPT !.url = "broken"] : d \in {db, snapshot} \ {None}}
           /\ Reply("fail"))
    /\ UNCHANGED <<setup, disk, nginx, visits, mem, told>>

MarkRestoring == Mark("mark_restoring", "restoring_traffic", Goto("http"), Reply("fail"))
MarkRestored  == Mark("mark_restored", "restored", Reply("restored"), Reply("fail"))

-----------------------------------------------------------------------------
(***************************************************************************)
(* Around the call.                                                        *)
(***************************************************************************)
Deliver ==
    /\ pc = "answered" /\ pc' = "idle"
    /\ Try(told' = CASE reply = "ok" -> New [] reply = "restored" -> Old [] OTHER -> told,
           UNCHANGED told)
    /\ UNCHANGED <<setup, disk, world, mem, reply, began>>

\* The broker stops: what it had in memory is lost.
StopBroker ==
    /\ pc \notin {"idle", "answered"}
    /\ Try(FALSE, Goto("idle"))
    /\ UNCHANGED <<setup, disk, world, mem, told>>

\* Somebody else reloads nginx, or the host restarts it.
NginxReload ==
    /\ nginx # vhost /\ nginx' = vhost
    /\ UNCHANGED <<setup, disk, db, visits, call, told, faults>>

\* nginx lets a request in.
Visit ==
    /\ Serving # None /\ inside + accepted + late < MaxWrites
    /\ inside' = inside + 1
    /\ UNCHANGED <<setup, disk, nginx, db, accepted, late, call, told, faults>>

\* WordPress writes: for a request that was let in, however long ago, or for
\* a cron job, which does not come through nginx.  The gate stops neither.
Writer ==
    \/ inside > 0 /\ inside' = inside - 1
    \/ inside + accepted + late < MaxWrites /\ UNCHANGED inside

\* A write that meets the search-replace may be overwritten by it.
Write ==
    /\ Writer
    /\ IF Serving # None
       THEN /\ accepted' = accepted + 1 /\ UNCHANGED late
            /\ db' = [db EXCEPT !.writes = @ + 1]
       ELSE /\ late' = late + 1 /\ UNCHANGED accepted
            /\ \/ db' = [db EXCEPT !.late = @ + 1]
               \/ pc = "rewrite" /\ db' = db
    /\ UNCHANGED <<setup, disk, nginx, call, told, faults>>

CallStep ==
    \/ RefuseCall \/ AnswerAgain \/ PreflightFails \/ ResumeActivation \/ ResumeRollback
    \/ ResumeChange \/ Begin \/ WriteHTTP \/ WriteTLS \/ Reload \/ Export \/ MarkStarted
    \/ Rewrite \/ Check \/ MarkActivating \/ MarkComplete
    \/ RecordRollback \/ Import \/ MarkRestoring \/ MarkRestored \/ Deliver

Next == Call \/ CallStep \/ StopBroker \/ NginxReload \/ Visit \/ Write

Spec == Init /\ [][Next]_vars

\* A call that has been taken up goes on; nobody has to call.
FairSpec == Spec /\ WF_vars(CallStep)

-----------------------------------------------------------------------------
\* Whatever the panel may do, visitors and panel get what DomainSwitch promises.
Decision ==
    CASE journal.state \in {"activating", "complete"}         -> New
      [] journal.state \in {"restoring_traffic", "restored"}  -> Old
      [] OTHER                                                -> None
Switch == INSTANCE DomainSwitch WITH serving <- Serving, writes <- db.writes, decision <- Decision
SwitchSpec == Switch!Spec

\* Visitors never meet a database whose addresses are not those of the name
\* they came by, and it holds every write committed while they were let in
\* (the write gate, the recovery copy and the activation boundary of
\* ChangeDomain).  What running requests and cron jobs write after the gate
\* was shut has no such promise, but before the rewrite of the database is
\* journaled nothing of it is lost either.
VisitorsMeetTheirSite ==
    /\ setup.wordPress /\ Serving # None => db.url = (IF Serving = Old THEN "old" ELSE "new")
    /\ Serving # None => db.writes = accepted
    /\ ~journal.started => db.late = late

\* However a call ends, SiteLifecycle has this end among its results.
CallsMatchTheirSummary ==
    pc = "answered" =>
      Result(HostView, JournalView, reply)
        \in DomainChangeResults(began.host, began.journal, Old, New)

-----------------------------------------------------------------------------
(***************************************************************************)
(* The inductive invariant.  Paused: neither nginx nor the disk lets a     *)
(* visitor in.  It is what makes the recovery copy worth importing, from   *)
(* the moment it is taken until the change is decided, also while no call  *)
(* runs and somebody else reloads nginx.                                   *)
(***************************************************************************)
Paused == \A v \in {vhost, nginx} : v.http = "gate" /\ v.tls # "old"

Recoverable ==
    /\ setup.wordPress /\ Paused
    /\ snapshot \in [url : {"old"}, writes : {accepted}, late : 0..late]

\* What the journal on disk says of the rest of the host.
JournalTellsHost ==
    LET st == journal.state IN
    /\ db.writes = accepted /\ db.late <= late
    /\ snapshot # None => snapshot.late <= late
    /\ ~journal.started => db.late = late
    /\ ~setup.wordPress => db.url = "old" /\ ~journal.ready
    /\ \A v \in {vhost, nginx} : v.http = "new" => st \in {"activating", "complete"}
    /\ nginx.http = "new" => vhost.http = "new"
    /\ setup.tls \/ "old" \notin {vhost.tls, nginx.tls}
    /\ st = "none" => vhost = Active /\ nginx = Active /\ ~journal.ready /\ ~journal.started
    /\ st \in {"none", "restoring_traffic", "restored"} => db.url = "old"
    /\ st \in {"changing", "rolling_back"} =>
         /\ journal.ready => Recoverable
         /\ journal.started => journal.ready
         /\ ~journal.started => db.url = "old"
    /\ st \in {"activating", "complete"} =>
         /\ setup.wordPress => db.url = "new"
         /\ \A v \in {vhost, nginx} : v.http # "old" /\ v.tls # "old"
    /\ st = "complete" => vhost = Renamed /\ nginx = Renamed
    /\ st = "restored" => vhost = Active /\ nginx = Active

\* Where a call is, by what it has in memory.
CallKnowsJournal ==
    /\ pc \notin {"idle", "answered", "rollback"} => mem = journal
    /\ pc \in {"http", "tls", "reload"} =>
         mem.state \in {"changing", "activating", "restoring_traffic"}
    /\ pc = "reload" => vhost = Wanted(mem.state)
    /\ pc = "tls" => vhost.http = Wanted(mem.state).http
    /\ pc \in {"export", "mark_started", "rewrite", "check"} =>
         mem.state = "changing" /\ setup.wordPress /\ Paused
    /\ pc \in {"mark_started", "rewrite", "check"} => mem.ready
    /\ pc = "export" => ~mem.ready
    /\ pc \in {"rewrite", "check"} => mem.started
    /\ pc = "mark_activating" =>
         mem.state = "changing" /\ Paused /\ (setup.wordPress => db.url = "new")
    /\ pc = "mark_complete" => mem.state = "activating" /\ vhost = Renamed /\ nginx = Renamed
    /\ pc = "mark_restored" => mem.state = "restoring_traffic" /\ vhost = Active /\ nginx = Active
    /\ pc = "import" => mem.state = "rolling_back" /\ mem.started
    /\ pc = "mark_restoring" => mem.state = "rolling_back" /\ db.url = "old"
    /\ pc = "rollback" =>
         /\ mem.state \in {"changing", "rolling_back", "restoring_traffic"}
         /\ mem.state = journal.state /\ (mem.state # "changing" => mem = journal)
         /\ mem.state = "changing" =>
              /\ mem.ready => Recoverable
              /\ mem.started => mem.ready
              /\ journal.started => mem.started

\* What answers and the panel's knowledge rest on.
AnswersAreSettled ==
    /\ pc = "answered" => reply # "none"
    /\ pc = "answered" /\ reply = "ok" => journal.state = "complete"
    /\ pc = "answered" /\ reply = "restored" => journal.state \in {"none", "restored"}
    /\ told = New => journal.state = "complete"
    /\ told = Old => journal.state \in {"none", "restored"}
    /\ told # None => pc = "idle"

\* A call only ever moves the journal forward.
Later(n) ==
    CASE n = "none"     -> {"none", "changing", "activating", "complete", "rollback", "restored"}
      [] n = "changing" -> {"changing", "activating", "complete", "rollback", "restored"}
      [] n = "activating" -> {"activating", "complete"}
      [] n = "rollback" -> {"rollback", "restored"}
      [] OTHER -> {n}
CallsMoveForward ==
    /\ pc # "idle" => JournalView \in Later(began.journal)
    /\ began.host.files
    /\ began.journal \in {"none", "restored"} => began.host = Up(Old)
    /\ began.journal = "complete" => began.host = Up(New)

SwitchInv ==
    TypeOK /\ JournalTellsHost /\ CallKnowsJournal /\ AnswersAreSettled /\ CallsMoveForward

\* Every call ends, and with finitely many failures repeating it reaches an
\* outcome, from whatever state an earlier one was broken off in.
RetriesConverge == []<>(pc = "idle") /\ ~[]<>(pc = "start")
=============================================================================
