----------------------------- MODULE SiteContent -----------------------------
(***************************************************************************)
(* What a job may do to the content of a WordPress site and its staging    *)
(* copy: backups with retention, restores and restore tests, updates, the  *)
(* copies between production and staging, and search and replace.  Every   *)
(* one holds the broker's backupMu from its snapshot to its answer, so one *)
(* call runs at a time and the others wait; a call whose caller has gone   *)
(* runs all the same, and a job may be called again under its key.         *)
(*                                                                         *)
(* Content is a version: 0 is a missing public tree or a torn database.    *)
(* A call is a list of steps, each of which may fail; the broker or the    *)
(* host may stop before any of them.  A step that fails leaves behind what *)
(* a stop in its midst would, so steps are atomic.                         *)
(***************************************************************************)
EXTENDS Integers, Sequences

CONSTANTS Jobs,         \* numbers of jobs, in the order of their creation
          Kinds,        \* the kinds of job requested
          Stops,        \* what may stop: "broker", "host", "panel", "line"
          MaxStops,     \* how often
          MaxTries      \* calls made for one job

ContentAssumption ==
    /\ Jobs \subseteq Nat \ {0}
    /\ Kinds \subseteq {"backup", "restore", "test", "update", "deploy", "sync", "custom", "replace"}

VARIABLES jobs,         \* rows of the queue
          points,       \* rows of backup_snapshots: snapshots one can restore
          files, db,    \* the content of a site
          snaps,        \* the snapshots in the repository
          previous,     \* public trees moved aside
          copies,       \* rollback databases of updates
          work,         \* working directories with a name of their own
          results,      \* restores and restore tests recorded as done
          journal,      \* search and replace: started or completed
          replaced,     \* how often a job's search and replace was run
          begun,        \* jobs that have been carried out before, in whole or part
          calls,        \* calls waiting at the broker
          run,          \* the call that has the lock
          stops

panel   == <<jobs, points>>
content == <<files, db>>
kept    == <<previous, copies, work, results, journal, replaced>>
broker  == <<calls, run, begun>>
queue   == <<jobs, points, calls, begun, stops>>
contentVars == <<panel, content, snaps, kept, broker, stops>>

Sites  == {"production", "staging"}
Copies == {"deploy", "sync", "custom"}
All    == {"files", "db"}
Cut    == -1                                  \* a database export broken off

Target(j) == IF jobs[j].kind = "sync" THEN "staging" ELSE "production"
Source(j) == IF jobs[j].kind = "sync" THEN "production" ELSE "staging"
Content(s) == [files |-> files[s], db |-> db[s]]
Whole(c)   == c.files # 0 /\ c.db # 0
Made(j)    == 3 + j                           \* what job j makes anew

\* Directories are named after the job, or after the two sites (and tables).
Owner(j) == [kind |-> jobs[j].kind, job |-> IF jobs[j].kind \in Copies THEN 0 ELSE j,
             tables |-> "db" \in jobs[j].parts]

\* The steps of each operation in the order of the code.
BackupSite             == <<"snapshot", "forget">>
RestoreSite            == <<"snapshot", "download", "dump", "preserve", "activate", "change",
                            "discard", "record">>
TestRestore            == <<"download", "record">>
UpdateWordPress        == <<"snapshot", "recover", "dump", "build", "change", "preserve",
                            "activate">>
replaceEnvironment     == <<"dump", "build", "change", "recover", "preserve", "activate">>
DeployStaging          == <<"snapshot">> \o replaceEnvironment
CreateStaging          == replaceEnvironment
SearchReplaceWordPress == <<"journal", "snapshot", "mark", "change", "complete">>

\* Without selected tables no database is touched, without files no tree.
deploySelected(parts) ==
    LET Wanted(part, steps) == IF part \in parts THEN steps ELSE <<>>
    IN  <<"snapshot">> \o Wanted("db", <<"dump">>) \o Wanted("files", <<"build">>)
            \o Wanted("db", <<"change">>) \o Wanted("files", <<"recover", "preserve", "activate">>)

StepsOf(j) ==
    CASE jobs[j].kind = "backup"  -> BackupSite
      [] jobs[j].kind = "restore" -> RestoreSite
      [] jobs[j].kind = "test"    -> TestRestore
      [] jobs[j].kind = "update"  -> UpdateWordPress
      [] jobs[j].kind = "deploy"  -> DeployStaging
      [] jobs[j].kind = "sync"    -> CreateStaging
      [] jobs[j].kind = "custom"  -> deploySelected(jobs[j].parts)
      [] jobs[j].kind = "replace" -> SearchReplaceWordPress

NoJob == [kind |-> "none", status |-> "none", parts |-> {}, point |-> 0, tries |-> 0]
Idle  == [job |-> 0, n |-> 0, todo |-> <<"wait">>, found |-> <<>>, goal |-> <<>>, dump |-> 0,
          again |-> FALSE, made |-> FALSE, ok |-> TRUE, stuck |-> FALSE, sid |-> 0, retained |-> {}]

-----------------------------------------------------------------------------
\* The panel: what may be requested, and how a result is written down.

Pending == {j \in Jobs : jobs[j].status \in {"queued", "running"}}

InsertJob(kind, parts, point) ==
    \E j \in Jobs :
        /\ jobs[j].status = "none" /\ \A i \in Jobs : i < j => jobs[i].status # "none"
        /\ kind \in Kinds
        /\ jobs' = [jobs EXCEPT ![j] = [kind |-> kind, status |-> "queued", parts |-> parts,
                                        point |-> point, tries |-> 0]]
        /\ UNCHANGED <<points, content, snaps, kept, broker, stops>>

EnqueueSiteBackup      == InsertJob("backup", All, 0)
EnqueueSiteRestore     == \E p \in points : InsertJob("restore", All, p)
EnqueueRestoreTest     == \E p \in points : InsertJob("test", All, p)
EnqueueWordPressUpdate == InsertJob("update", All, 0)
EnqueueStagingSync     == InsertJob("sync", All, 0)
EnqueueStagingDeploy   == \/ InsertJob("deploy", All, 0)
                          \/ \E parts \in (SUBSET All) \ {{}} : InsertJob("custom", parts, 0)
\* A search and replace is accepted only while nothing else is pending.
EnqueueWordPressSearchReplace ==
    /\ \A j \in Pending : Target(j) # "production"
    /\ InsertJob("replace", All, 0)

Enqueue == \/ EnqueueSiteBackup \/ EnqueueSiteRestore \/ EnqueueRestoreTest
           \/ EnqueueWordPressUpdate \/ EnqueueStagingSync \/ EnqueueStagingDeploy
           \/ EnqueueWordPressSearchReplace

\* The only worker takes the oldest job.  A restore looks for its recorded
\* result before it waits for the lock.
ClaimNextJob ==
    /\ \A i \in Jobs : jobs[i].status # "running"
    /\ \E j \in Jobs :
        /\ jobs[j].status = "queued" /\ \A i \in Jobs : i < j => jobs[i].status # "queued"
        /\ jobs[j].tries < MaxTries
        /\ jobs' = [jobs EXCEPT ![j].status = "running", ![j].tries = @ + 1]
        /\ calls' = calls \union {[job |-> j, n |-> jobs[j].tries + 1,
                                   saved |-> jobs[j].kind \in {"restore", "test"} /\ j \in results]}
        /\ UNCHANGED <<points, content, snaps, kept, run, begun, stops>>

\* With an answer the snapshot becomes a restore point, and the points that
\* retention has forgotten go.
FinishJob(j, ok, sid, retained) ==
    /\ jobs' = [jobs EXCEPT ![j].status = IF ok THEN "succeeded" ELSE "failed"]
    /\ points' = LET new == IF \/ ok /\ jobs[j].kind \in {"backup", "update", "deploy", "custom"}
                               \/ jobs[j].kind = "replace" /\ sid # 0
                            THEN points \union {sid} ELSE points
                 IN  IF ok /\ retained # {} THEN new \intersect retained ELSE new

\* Without one, a backup and a search and replace are called again.
AnswerLost(j) ==
    jobs' = [jobs EXCEPT ![j].status =
                IF jobs[j].kind \in {"backup", "replace"} THEN "queued" ELSE "failed"]

Heard(j, n) == jobs[j].status = "running" /\ jobs[j].tries = n

\* The connection breaks, or there was none and the call never arrived.
LoseConnection(j) ==
    /\ "line" \in Stops /\ stops < MaxStops /\ stops' = stops + 1
    /\ jobs[j].status = "running" /\ AnswerLost(j)
    /\ \/ UNCHANGED calls
       \/ calls' = {c \in calls : ~(c.job = j /\ c.n = jobs[j].tries)}
    /\ UNCHANGED <<points, content, snaps, kept, run, begun>>

Requeued == [j \in Jobs |-> IF jobs[j].status = "running"
                            THEN [jobs[j] EXCEPT !.status = "queued"] ELSE jobs[j]]

RequeueInterruptedJobs ==
    /\ "panel" \in Stops /\ stops < MaxStops /\ stops' = stops + 1
    /\ jobs' = Requeued /\ jobs' # jobs
    /\ UNCHANGED <<points, content, snaps, kept, broker>>

\* What was running or waiting at the broker is gone, what it left is not.
BrokerStops ==
    /\ "broker" \in Stops /\ stops < MaxStops /\ stops' = stops + 1
    /\ run # Idle \/ calls # {}
    /\ run' = Idle /\ calls' = {}
    /\ IF \E j \in Jobs : jobs[j].status = "running"
       THEN \E j \in Jobs : jobs[j].status = "running" /\ AnswerLost(j)
       ELSE UNCHANGED jobs
    /\ UNCHANGED <<points, content, snaps, kept, begun>>

HostStops ==
    /\ "host" \in Stops /\ stops < MaxStops /\ stops' = stops + 1
    /\ run # Idle \/ calls # {}
    /\ run' = Idle /\ calls' = {} /\ jobs' = Requeued
    /\ UNCHANGED <<points, content, snaps, kept, begun>>

-----------------------------------------------------------------------------
\* The broker: one call at a time.

Job       == run.job
Kind      == jobs[run.job].kind
Site      == Target(run.job)
Mine      == Owner(run.job)
Step(s)   == run.todo # <<>> /\ Head(run.todo) = s
Answering == run.todo = <<>>

Advance     == run' = [run EXCEPT !.todo = Tail(@)]
Fail        == run' = [run EXCEPT !.todo = <<>>, !.ok = FALSE]
FailStuck   == run' = [run EXCEPT !.todo = <<>>, !.ok = FALSE, !.stuck = TRUE]
\* Mutant of RollBack: the failure is answered and nothing is put back.
AnswerFailure(stuck) == run' = [run EXCEPT !.ok = FALSE, !.stuck = stuck, !.todo = <<>>]

\* Once the database may have been changed, a failure puts the copy back.
RollBack(stuck) ==
    run' = [run EXCEPT !.ok = FALSE, !.stuck = stuck,
                       !.todo = IF Kind = "restore" THEN <<"undo", "unswitch">>
                                ELSE IF "db" \in jobs[Job].parts THEN <<"undo">> ELSE <<>>]
rollbackDatabase == RollBack(FALSE)

TakeLock(c) ==
    /\ run = Idle /\ ~c.saved
    /\ calls' = calls \ {c} /\ begun' = begun \union {c.job}
    /\ run' = [Idle EXCEPT !.job = c.job, !.n = c.n, !.again = c.job \in begun, !.todo = StepsOf(c.job),
                           !.found = Content(Target(c.job)), !.goal = Content(Target(c.job))]
    /\ UNCHANGED <<panel, content, snaps, kept, stops>>

AnswerSaved(c) ==
    /\ c.saved /\ calls' = calls \ {c}
    /\ IF Heard(c.job, c.n) THEN FinishJob(c.job, TRUE, 0, {}) ELSE UNCHANGED panel
    /\ UNCHANGED <<content, snaps, kept, run, begun, stops>>

Answer ==
    /\ Answering
    /\ work' = IF run.made THEN work \ {Mine} ELSE work
    /\ IF Heard(Job, run.n) THEN FinishJob(Job, run.ok, run.sid, run.retained) ELSE UNCHANGED panel
    /\ run' = Idle
    /\ UNCHANGED <<content, snaps, previous, copies, results, journal, replaced, calls, begun, stops>>

\* Nothing has been changed yet: the call fails and leaves it so.
Refuse ==
    /\ \/ Step("snapshot") \/ Step("forget") \/ Step("download") \/ Step("dump") \/ Step("mark")
       \/ Step("build") /\ Kind # "update"
       \/ Step("recover") /\ Kind = "update"
       \/ Step("preserve") /\ Kind = "restore"
       \/ Step("discard") \/ Step("record")
    /\ Fail /\ UNCHANGED <<queue, content, snaps, kept>>

OfJob(j) == {s \in snaps : s.key = j}

\* backupSite: the snapshot tagged with the job's key, or a new one where there is
\* none or the search has erred; the check of the repository may fail after either.
backupSite ==
    /\ Step("snapshot")
    /\ \/ \E s \in OfJob(Job) :
             /\ \A r \in OfJob(Job) : r.id <= s.id
             /\ run' = [run EXCEPT !.todo = Tail(@), !.sid = s.id]
             /\ UNCHANGED snaps
       \/ /\ files[Site] # 0
          /\ \E n \in {1} \union {s.id + 1 : s \in snaps} :
                /\ \A s \in snaps : s.id < n
                /\ snaps' = snaps \union {[id |-> n, site |-> Site, key |-> Job, files |-> files[Site],
                                           db |-> db[Site], again |-> OfJob(Job) # {}]}
                /\ \/ Fail
                   \/ run' = [run EXCEPT !.todo = Tail(@), !.sid = n]
    /\ UNCHANGED <<queue, content, kept>>

\* Mutant of Superseded: snapshots of a site are one group, whatever their tags.
SupersededBySite(s, stay) == \E r \in stay : r.site = s.site /\ r.id > s.id

\* restic forgets within a group of snapshots with the same tags, so the last
\* one of every job stays.
Superseded(s, stay) == \E r \in stay : r.site = s.site /\ r.key = s.key /\ r.id > s.id

applyBackupRetention ==
    /\ Step("forget")
    /\ \/ Advance /\ UNCHANGED snaps
       \/ \E gone \in SUBSET {s \in snaps : s.site = Site} :
             /\ \A s \in gone : Superseded(s, snaps \ gone)
             /\ snaps' = snaps \ gone
             /\ \/ Fail
                \/ run' = [run EXCEPT !.todo = Tail(@),
                                      !.retained = {s.id : s \in {r \in snaps \ gone : r.site = Site}}]
    /\ UNCHANGED <<queue, content, kept>>

downloadSnapshot ==
    /\ Step("download")
    /\ \E s \in snaps :
          /\ s.id = jobs[Job].point
          /\ run' = [run EXCEPT !.todo = Tail(@),
                                !.goal = IF Kind = "restore" THEN [files |-> s.files, db |-> s.db]
                                                             ELSE @]
    /\ UNCHANGED <<queue, content, snaps, kept>>

\* A tree moved aside by a call that was broken off: it goes when the switch was
\* made, and comes back when it was not.
recoverInterruptedFileSwitch ==
    /\ Step("recover")
    /\ \/ /\ \A p \in previous : p.of # Mine
          /\ Advance /\ UNCHANGED <<files, previous>>
       \/ \E p \in previous :
             /\ p.of = Mine
             /\ files' = [files EXCEPT ![Site] = IF @ = 0 THEN p.files ELSE @]
             /\ previous' = previous \ {p}
             /\ Advance
       \/ /\ Kind # "update" /\ \E p \in previous : p.of = Mine
          /\ rollbackDatabase /\ UNCHANGED <<files, previous>>
    /\ UNCHANGED <<queue, db, snaps, copies, work, results, journal, replaced>>

\* The update keeps its copy of the database until it has succeeded; a replay
\* imports the copy it finds, and fails on one that was broken off.
prepareUpdateRollback ==
    /\ Step("dump") /\ Kind = "update"
    /\ LET made == {c \in copies : c.job = Job}
           new  == [files |-> Made(Job), db |-> Made(Job)]
       IN  \/ \E c \in made :
                 /\ files[Site] # 0
                 /\ \/ /\ c.db # Cut /\ db' = [db EXCEPT ![Site] = c.db]
                       /\ run' = [run EXCEPT !.todo = Tail(@), !.dump = c.db, !.goal = new]
                    \/ db' = [db EXCEPT ![Site] = 0] /\ Fail
                 /\ UNCHANGED copies
           \/ /\ made = {} /\ files[Site] # 0
              /\ \/ /\ copies' = copies \union {[job |-> Job, db |-> db[Site]]}
                    /\ run' = [run EXCEPT !.todo = Tail(@), !.dump = db[Site], !.goal = new]
                 \/ copies' = copies \union {[job |-> Job, db |-> Cut]} /\ Fail
              /\ UNCHANGED db
    /\ UNCHANGED <<queue, files, snaps, previous, work, results, journal, replaced>>

\* The others make their working directories anew: one that is there already
\* refuses the call, and an export that fails leaves its directory there.
DeployGoal ==
    IF Kind = "custom"
    THEN [files |-> IF "files" \in jobs[Job].parts THEN Made(Job) ELSE files[Site],
          db    |-> IF "db" \in jobs[Job].parts THEN Made(Job) ELSE db[Site]]
    ELSE Content(Source(Job))

exportRestoreDatabase ==
    /\ Step("dump") /\ Kind # "update"
    /\ files[Site] # 0 /\ Mine \notin work
    /\ Kind = "restore" => \A p \in previous : p.of # Mine
    /\ work' = work \union {Mine}
    /\ \/ Fail
       \/ /\ Kind \in Copies => files[Source(Job)] # 0
          /\ run' = [run EXCEPT !.todo = Tail(@), !.dump = db[Site], !.made = TRUE,
                                !.goal = IF Kind = "restore" THEN @ ELSE DeployGoal]
    /\ UNCHANGED <<queue, content, snaps, previous, copies, results, journal, replaced>>

\* A sibling of the public tree is built: a copy updated later, the other
\* site's tree with this site's wp-config.php, or this tree with chosen files.
buildTree ==
    /\ Step("build")
    /\ \/ /\ Kind \in Copies => files[Source(Job)] # 0
          /\ run' = [run EXCEPT !.todo = Tail(@), !.goal = IF Kind = "custom" THEN DeployGoal ELSE @]
       \/ Kind = "update" /\ rollbackDatabase
    /\ UNCHANGED <<queue, content, snaps, kept>>

\* The live database is changed: imported, updated, searched and replaced, and
\* the result checked.  What fails may have changed all of it, a part or nothing.
changeDatabase ==
    /\ Step("change")
    /\ \/ db' = [db EXCEPT ![Site] = run.goal.db] /\ Advance
       \/ /\ \E left \in {db[Site], 0, run.goal.db} : db' = [db EXCEPT ![Site] = left]
          /\ IF Kind = "replace" THEN FailStuck ELSE rollbackDatabase
    /\ replaced' = IF Kind = "replace" THEN [replaced EXCEPT ![Job] = @ + 1] ELSE replaced
    /\ UNCHANGED <<queue, files, snaps, previous, copies, work, results, journal>>

\* The public tree is moved aside ...
preserveFiles ==
    /\ Step("preserve")
    /\ \/ /\ files[Site] # 0
          /\ previous' = previous \union {[of |-> Mine, files |-> files[Site]]}
          /\ files' = [files EXCEPT ![Site] = 0] /\ Advance
       \/ Kind # "restore" /\ rollbackDatabase /\ UNCHANGED <<files, previous>>
    /\ UNCHANGED <<queue, db, snaps, copies, work, results, journal, replaced>>

\* ... and the new one takes its place.  If it cannot, the old one is moved back,
\* and nobody asks whether that worked.  What is left is removed without asking.
activateFiles ==
    /\ Step("activate")
    /\ \E p \in previous :
          /\ p.of = Mine
          /\ \/ /\ files' = [files EXCEPT ![Site] = run.goal.files] /\ Advance
                /\ \/ UNCHANGED previous
                   \/ Kind # "restore" /\ previous' = previous \ {p}
                /\ \/ UNCHANGED copies
                   \/ copies' = {c \in copies : c.job # Job}
             \/ /\ files' = [files EXCEPT ![Site] = p.files] /\ previous' = previous \ {p}
                /\ IF Kind = "restore" THEN Fail ELSE rollbackDatabase
                /\ UNCHANGED copies
             \/ /\ IF Kind = "restore" THEN FailStuck ELSE RollBack(TRUE)
                /\ UNCHANGED <<files, previous, copies>>
    /\ UNCHANGED <<queue, db, snaps, work, results, journal, replaced>>

\* The import of the copy, by the WordPress in the tree that is live (a restore:
\* in the tree moved aside).
importRollback ==
    /\ Step("undo")
    /\ \/ /\ Kind = "restore" \/ files[Site] # 0
          /\ db' = [db EXCEPT ![Site] = run.dump] /\ Advance
       \/ /\ \E left \in {db[Site], 0} : db' = [db EXCEPT ![Site] = left]
          /\ run' = [run EXCEPT !.todo = Tail(@), !.stuck = TRUE]
    /\ UNCHANGED <<queue, files, snaps, kept>>

switchBack ==
    /\ Step("unswitch")
    /\ \E p \in previous :
          /\ p.of = Mine
          /\ \/ /\ files' = [files EXCEPT ![Site] = p.files] /\ previous' = previous \ {p}
                /\ Advance
             \/ /\ files' \in {files, [files EXCEPT ![Site] = 0]} /\ UNCHANGED previous
                /\ FailStuck
    /\ UNCHANGED <<queue, db, snaps, copies, work, results, journal, replaced>>

discardReplaced ==
    /\ Step("discard")
    /\ previous' = {p \in previous : p.of # Mine} /\ Advance
    /\ UNCHANGED <<queue, content, snaps, copies, work, results, journal, replaced>>

recordResult ==
    /\ Step("record")
    /\ results' = results \union {Job} /\ Advance
    /\ UNCHANGED <<queue, content, snaps, previous, copies, work, journal, replaced>>

\* Mutant of existingWordPressSearchReplace: only a completed one counts.
existingCompleted ==
    /\ Step("journal")
    /\ LET mine == {e \in journal : e.job = Job /\ e.status = "completed"}
       IN  \/ mine = {} /\ Advance
           \/ \E e \in mine : run' = [run EXCEPT !.todo = <<>>, !.sid = e.sid]
    /\ UNCHANGED <<queue, content, snaps, kept>>

\* The journal of a search and replace: a completed one is answered from it, a
\* started one needs recovery and is never run again.
existingWordPressSearchReplace ==
    /\ Step("journal")
    /\ LET mine == {e \in journal : e.job = Job}
       IN  \/ mine = {} /\ Advance
           \/ \E e \in mine :
                 run' = [run EXCEPT !.todo = <<>>, !.sid = e.sid, !.ok = e.status = "completed"]
    /\ UNCHANGED <<queue, content, snaps, kept>>

markStarted ==
    /\ Step("mark")
    /\ journal' = journal \union {[job |-> Job, sid |-> run.sid, status |-> "started"]}
    /\ run' = [run EXCEPT !.todo = Tail(@), !.goal = [files |-> files[Site], db |-> Made(Job)]]
    /\ UNCHANGED <<queue, content, snaps, previous, copies, work, results, replaced>>

recordCompleted ==
    /\ Step("complete")
    /\ \/ /\ journal' = {e \in journal : e.job # Job}
                        \union {[job |-> Job, sid |-> run.sid, status |-> "completed"]}
          /\ Advance
       \/ UNCHANGED journal /\ FailStuck
    /\ UNCHANGED <<queue, content, snaps, previous, copies, work, results, replaced>>

-----------------------------------------------------------------------------
\* The site has been backed up before, or never; production and staging differ.
ContentInit ==
    /\ jobs = [j \in Jobs |-> NoJob]
    /\ files = [s \in Sites |-> IF s = "production" THEN 2 ELSE 3] /\ db = files
    /\ \/ snaps = {} /\ points = {}
       \/ snaps = {[id |-> 1, site |-> "production", key |-> 0, files |-> 1, db |-> 1,
                    again |-> FALSE]}
          /\ points = {1}
    /\ previous = {} /\ copies = {} /\ work = {} /\ results = {} /\ journal = {}
    /\ replaced = [j \in Jobs |-> 0]
    /\ calls = {} /\ run = Idle /\ begun = {} /\ stops = 0

Broker == \/ \E c \in calls : TakeLock(c) \/ AnswerSaved(c)
          \/ Answer \/ Refuse \/ backupSite \/ applyBackupRetention \/ downloadSnapshot
          \/ recoverInterruptedFileSwitch \/ prepareUpdateRollback \/ exportRestoreDatabase
          \/ buildTree \/ changeDatabase \/ preserveFiles \/ activateFiles \/ importRollback
          \/ switchBack \/ discardReplaced \/ recordResult
          \/ existingWordPressSearchReplace \/ markStarted \/ recordCompleted

ContentNext == \/ Enqueue \/ ClaimNextJob \/ Broker
               \/ \E j \in Jobs : LoseConnection(j)
               \/ RequeueInterruptedJobs \/ BrokerStops \/ HostStops

ContentSpec == ContentInit /\ [][ContentNext]_contentVars

-----------------------------------------------------------------------------
ContentTypeOK ==
    /\ jobs \in [Jobs -> [kind : Kinds \union {"none"}, parts : SUBSET All, point : Nat,
                          status : {"none", "queued", "running", "succeeded", "failed"},
                          tries : 0 .. MaxTries]]
    /\ points \subseteq Nat /\ files \in [Sites -> Nat] /\ db \in [Sites -> Nat]
    /\ \A s \in snaps : s.id \in Nat /\ s.site \in Sites /\ s.key \in Jobs \union {0}
                      /\ s.again \in BOOLEAN
    /\ \A p \in previous : p.files # 0
    /\ \A c \in copies : c.job \in Jobs /\ c.db \in Nat \union {Cut}
    /\ results \subseteq Jobs /\ begun \subseteq Jobs /\ replaced \in [Jobs -> Nat]
    /\ \A c \in calls : c.job \in Jobs /\ c.n \in 1 .. MaxTries
    /\ run = Idle \/ run.job \in Jobs
    /\ stops \in 0 .. MaxStops

\* What a call answers is what it has done.  A success: the site has the content
\* that was asked for, tree and database.  A failure the first time a job is carried
\* out: the site is as it was found, unless putting it back failed as well or the
\* answer says that the change may be partial; a restore may also be complete
\* and only its record missing.
AnswersAreTrue ==
    Answering =>
        IF run.ok THEN Content(Site) = run.goal
        ELSE ~run.again /\ ~run.stuck =>
                \/ Content(Site) = run.found
                \/ Kind = "restore" /\ Content(Site) = run.goal

\* Whatever has failed or stopped, as long as production has lost its tree or has
\* a torn database there is a whole snapshot of it, which no retention forgets:
\* unless a job called again did not find its own and has taken one of the site
\* half changed, to which its retention may give way.
TakenOfHalfChanged(s) == s.again /\ ~Whole(s)

Recoverable ==
    Whole(Content("production"))
        \/ \E s \in snaps : s.site = "production" /\ (Whole(s) \/ TakenOfHalfChanged(s))

\* A job's key finds the one snapshot taken under it, so that a call made again
\* after a lost answer returns it: what the comment on BackupSite says.
BackupsAreRetrySafe == \A r, s \in snaps : r.key = s.key => r = s

\* A search and replace is not run again over its own result, whoever asks.
SearchReplaceOnce == \A j \in Jobs : replaced[j] <= 1
=============================================================================
