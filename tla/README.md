# A verification project for WPX

WPX is a server panel for WordPress and other sites. An unprivileged process
(`wpx`) serves the web interface, keeps its state in SQLite and runs a worker;
a root process (`wpx-broker`) listens on a Unix socket and changes the host:
nginx, PHP-FPM, MariaDB, accounts, files, systemd. This directory holds TLA+
modules of that system, TLC configurations that check them on small instances,
and TLAPS proofs for every instance.

Paths below are relative to `src/internal/` unless they start with another
directory of `src/`.

## 1. Inventory

### How the parts interact

    browser --HTTP--> web handlers --transactions--> SQLite <--claims, results-- worker
                          |                                                        |
                          +-------- direct calls (reads, small edits) ---+         | Unix socket,
                                                                         v         v one request each
                                                                       broker (root)
                                                                         |
                       nginx, PHP-FPM branches, MariaDB, WP-CLI, files, systemd, restic, rclone

Handlers never carry anything out. They write a row of `jobs` in the same
transaction that reserves the site (its `status`, a domain reservation). One
worker claims the oldest queued row, sends the operation to the broker, waits,
and applies the answer in a transaction again. The broker executes a request
it has read to its end even if nobody waits for the answer any more; two
mutexes of `provision.Host` serialise requests. The state that has to survive
is in three places that no transaction spans: SQLite, the recovery journals the
broker keeps per job, and the host itself.

### Components

| component | state | operations | hard behaviour | what makes it correct |
|---|---|---|---|---|
| Job queue and site lifecycle (`store/store.go`, `lifecycle.go`, `site_changes.go`, `migrations.go`) | `sites`, `deleted_sites`, `site_domain_reservations`, `jobs` | Enqueue..., Retry..., ClaimNextJob, FinishJob, Retry...Job, RequeueInterruptedJobs | handlers between two statements of the worker; overlapping processes; an answer for a row somebody else has | names disjoint; every transition has its job; a locked site is left alone; a reservation lives as long as its change |
| Worker and broker protocol (`worker/`, `broker/`) | what the worker does, requests pending at the broker | claim, call, finish, replay | lost answers, timeouts, stops of either side; requests overtaking each other at the locks | what the panel shows is what the host has; no two incompatible operations on a site at once; transitions end |
| Domain change on the host (`provision/domain_change*.go`) | journal, recovery copy, vhosts, loaded vhosts, database | ChangeDomain, rollbackDomainChange | a stop between any two steps, half written imports, nginx reloaded by others, visitors' writes | visitors meet their site, no write made while the gate is open is lost, an outcome is never revised, repetition converges |
| Site deletion on the host (`provision/delete_site*.go`) | record, vhosts, pool, launchers, account, database, files | DeleteSite | as above; PHP applies reloads late; programs start programs; branches are shared | nobody writes to what is being removed; the UID is freed last; neighbours keep PHP; done means gone |
| Provision, enable, disable, clone (`provision/host.go`, `lifecycle.go`, `php.go`, `restore_clone.go`) | accounts, vhosts, pools, result files | Provision, Disable, RestoreClone | partial failure, no journal except the clone's result file | a call ends in one of the results of `HostResults` |
| PHP versions (`store/php_version.go`, `provision/php_version.go`) | site's version and pending version; pools and branches | EnqueuePHPVersionChange, ChangePHPVersion | stop between releasing the old pool and starting the new one; branches shared by sites | one branch owns a socket; an active site has its pool; no branch that is in use stops |
| Backup, retention, restore (`provision/backup.go`, `restore_verify.go`, `store/backups.go`, `backup_history.go`, `restore_tests.go`) | snapshots, jobs that name them, rollback copies | BackupSite, RestoreSite, retention, restore tests | replay of a restore, retention beside a queued restore | a failed restore leaves the site as it was; a job's snapshot exists when it runs |
| Backup schedules (`store/backup_schedules.go`) | next run | SetBackupSchedule, EnqueueDueBackups | clock, panel down for several periods | one job per due period, never a burst |
| Staging, updates, search and replace (`provision/staging.go`, `wordpress_update.go`, `wordpress_search_replace.go`, their stores) | two trees, two databases, recovery directories | CreateStaging, DeployStaging, UpdateWordPress, search-replace | stop between two renames; replay after a finished switch | the site is one of the two versions, files and database of the same one |
| Chunked uploads (`provision/files_manager_linux.go`) | upload journal, temporary file | UploadFileChunk | replayed chunk, stop between publishing and recording | bytes once and in order, the target replaced as a whole |
| Accounts (`store/store.go`, `totp.go`, `oauth.go`) | users, sessions, challenges, codes | sign-in, enrolment, password change, disabling | reads before a transaction | a code is used once; only the latest codes count; roles and grants move together |
| Hosting, cron, site access, security, performance (`provision/` and `store/` of those names) | desired state in SQLite, applied state on the host | ...Apply jobs | replay, several files without a journal | applied = desired once settled |
| DNS (`dns/`, `store/dns.go`) | records, provider identifiers | upsert, delete | provider answers lost | a record exists at most once |
| Databases (`provision/database*.go`, `store/databases.go`) | rows and MariaDB databases | create, delete, password | partial failure | no row without a database once settled |
| Alerts (`alerts/`, `monitor/`) | samples, per-rule state, deliveries | Evaluate, send | thresholds, cooldown, retry of deliveries | one alert per incident, recovery only after an alert |
| Upgrade, installation, panel access (`upgrade/`, `install/`, `panelaccess/`) | binaries, database copy, units, vhost of the panel | Run, Configure | partial failure, no journal | old or new as a whole |
| Web interface, localisation, models, fleet, inventories | none of their own worth a model | rendering, validation, reading | none | left out |

The hazards, each at its line of code and with the properties that would catch
it going wrong, are listed in `PROJECT.json`.

## 2. Modules

| module | models |
|---|---|
| `HostResults` | what one broker call may do to a site, as a set of results per operation |
| `SiteLifecycle` | SQLite, worker and broker: one action per handler, per statement of the worker that matters, per fault |
| `SiteLifecycleMC` | the job kinds of each TLC instance |
| `SiteLifecycleProofs` | the invariants of the tables, of the host and of the queue, for any number of everything |
| `DomainChange` | `Host.ChangeDomain` step by step |
| `DomainSwitch` | what a domain change promises, without saying how; `DomainChange` implements it |
| `DomainChangeProofs` | invariant, consequences and refinement |
| `SiteDeletion` | `Host.DeleteSite` step by step |
| `SiteDeletionProofs` | invariant and consequences |
| `PHPBranches` | `Host.ChangePHPVersion` and what provisioning, enabling and disabling do to the PHP branches that sites share, with the handlers and the worker's decisions |
| `PHPBranchesProofs` | the previous pool is never lost; pools are moved, and neighbours keep their branch |
| `SiteContent` | jobs that replace a site's tree or database: backup and retention, restore, restore test, update, staging in both directions, search and replace; queue, broker and host lock around them |
| `BackupSchedules` | due backups and restore tests, two processes looking at once |
| `SiteFiles` | the file manager: chunked uploads and operations on entries |
| `SiteSettings` | scheduled commands, visitor access, WordPress defence, Node, FTP: requests, jobs, host steps, disabling and enabling |
| `ServerRecords` | databases, DNS records and the mail service against MariaDB, a provider and Postfix |
| `SiteWork` | the five above in one instance for TLC |
| `SiteRecordsProofs` | what `BackupSchedules`, `ServerRecords` and `SiteSettings` promise, as theorems of `SiteWork` |
| `SiteContentProofs` | what `SiteFiles` promises of uploads, and `SiteContent` of search and replace, of recovery and of answers, as theorems of `SiteWork` |
| `Logins` | passwords, sessions, login challenges, one-time and recovery codes, statement by statement |
| `PanelUsers` | the owner, roles, grants, renaming, and the OAuth flow |
| `SignOns` | one-time sign-ons to phpMyAdmin and WordPress, and the installation of phpMyAdmin |
| `OperatorAlerts` | one alert: hysteresis, cooldown, deliveries to channels |
| `PanelHost` | the commands `install`, `upgrade` and `access` |
| `PanelWork` | the five above in one instance for TLC |
| `PanelAccountsProofs` | what `Logins` and `PanelUsers` promise, as theorems of `PanelWork` |
| `PanelToolsProofs` | the same of `SignOns`, `OperatorAlerts` and `PanelHost` |

`SiteLifecycle` carries out a broker request as one step and takes its effect
from `HostResults`. `DomainChange` and `SiteDeletion` show the other half: every
end of every call of theirs, wherever it failed, is among those results
(`CallsMatchTheirSummary`, checked and proved). A host operation is thereby
checked in small steps against one site and in one step against the queue. The
one case the composition does not split is a stop of the broker within a call:
`SiteLifecycle` shows it as a call that got as far as it did and whose answer
was lost.

### SiteLifecycle and the code

| in the module | in the code |
|---|---|
| `site`, `tomb`, `reservation`, `job` | tables `sites`, `deleted_sites`, `site_domain_reservations`, `jobs`; a row of `job` has its number as `created_at` |
| `DomainFree`, `LifecycleLock` | the unique index and the triggers of `migrations.go` |
| `CreateSite`, `Enqueue...`, `Retry...` | the handlers' transactions of the same name; one action, since SQLite serialises them |
| `ReadSnippetSite`, `SetSiteSnippets` | a handler that reads before its transaction, in two actions |
| `SelectJob`, `ClaimJob` | the SELECT and the conditional UPDATE of `ClaimNextJob` |
| `CallAllowed` | what `Worker.execute`, the broker's dispatcher and the host check of the rows that are read just before the call |
| `CallBroker`, `DialFails`, `LoseConnection` | `broker.Client`: `ErrUnavailable` before anything was read, `ErrOutcomeUnknown` afterwards |
| `RetryJob`, `ReplayKinds` | `worker.go:551` and the retries in the store |
| `FinishTransition`, `FinishDomainChange`, `FinishSiteDelete`, `FinishOrdinary` | `FinishJob` and its branches |
| `StartWorker`, `StopWorker`, `StopBroker` | processes start and stop; `RequeueInterruptedJobs` |
| `MayRun`, `Execute`, `CloneWaits` | `Host.mu` and `Host.backupMu`; a clone takes `mu`, lets it go and waits for both |

`Ordered = TRUE` lets requests get the host's mutexes in order of arrival. A Go
mutex promises that to nobody: a waiter may be overtaken until it has waited
for a millisecond. The safety of the tables (`StoreInv`) does not depend on it:
the runs have one worker and `Ordered = TRUE`, and the theorem `StoreIsSafe` covers
any order and any number of overlapping workers, which TLC does not visit. The properties that
speak of pending requests (`NoIncompatibleRequest`, `ReleasedOnlyWhenSettled`,
`ActiveIsServed`, `DeletedStaysDeleted`) are checked and proved for `Ordered = TRUE`; with
`FALSE` an abandoned call and its replay may swap, and the hazard list says
what follows from that.

Of the ordinary job kinds two stand for all: a backup, which is replayed and
takes `backupMu`, and a configuration job (`site.config_apply`, which
`SetSiteSnippets` enqueues), whose handler checked the site before its
transaction and which is not replayed. The second stage of `site.enable`
(applying hosting state) and the certificate job that a staging clone queues
are part of those ordinary jobs.

### DomainChange and the code

`journal` is `state.json`, `mem` the record in memory; `vhost` and `nginx` are
the generated files and what nginx has loaded; `db` is the WordPress database
(the name its URLs carry, and how many writes it holds), `snapshot`
the recovery copy. A request is let in (`Visit`) and writes when it gets to it
(`Write`), perhaps long after nginx shut the site; cron jobs write without asking
nginx. Writes made while nginx lets visitors in are counted apart (`accepted`, `writes`) from
those made behind the gate (`late`), which the comment at `domain_change.go:62`
excludes from the promise: one that meets the search-replace may be overwritten, and
a recovery copy taken before it does not hold it. `pc` is the next step of the one call; `http`, `tls` and
`reload` are `writeDomainVhosts` and `reloadDomainNginx`, `export` is
`exportDomainDatabase`, `rewrite` and `check` the search-replace and its
verification, `rollback` to `mark_restored` are `rollbackDomainChange`. Every
step may fail before, or after, its effect; a journal write may fail after the
rename; an import that fails leaves a database that does not load. `NginxReload`
is any other reload of the host. Validation of names, directories and vhost
text is one refusal (`RefuseCall`).

### SiteDeletion and the code

`record` is the deletion record. `Init` is every state that `Provision` or
`Disable` may leave, finished or broken off. The stages are those of
`deleteSiteLocked`, in its order: disable the vhosts, reload nginx, remove the pool
and release its branch, wait for the listener, remove cron, units and logins,
journal `RuntimeStopped`, kill programs, drop the database, remove the tree,
the remaining files, the account, journal `Done`. `PHPApplies` is the reload
that PHP-FPM finishes after `systemctl` has returned, `ProgramStarts` whatever
cron, logins or PHP start, `NeighbourMoves` another site coming to or leaving
the branch.

### PHPBranches and the code

A PHP version is one FPM service with a pool directory; a site has one socket,
whatever branch its pool is in. `pool[s]` are the directories that have a pool
of the site, `saved[s]` those with a `.wpx-previous` copy; `listener[s]` is the
branch that listens on its socket, `running` the services that run, `asked`
those with a reload still to apply. `site` and `queue` are the panel's rows.

| in the module | in the code |
|---|---|
| `CreateSite`, `Transition`, `EnqueuePHPVersionChange` | the transactions of `CreateSite`, `enqueueSiteTransition`, `EnqueuePHPVersionChange` |
| `CallHost` | the worker takes the oldest job; for a disable it asks `OtherActiveSiteUsesPHP` first and sends the answer along |
| `Begin` ... `Succeed` | `ChangePHPVersion` in its order: look for the pool and its copy, packages, copy, remove, release the old branch, then `AptPHPRuntime.Ensure` for the new one (`WritePool`, `Enable`, `ReloadTarget`), is-active, the socket, nginx |
| `UndoRemove` ... `UndoReady` | its `rollback` |
| `UnchangedReply` | `unchangedFailure` |
| `WritePool`, `Enable`, `ReloadTarget` with a provisioning or enabling | the same `Ensure` in `Provision` |
| `DropPool`, `Halt`, `HaltFails` | the PHP part of `Disable` |
| `RetryPHPVersionChange`, `FinishJob`, `Outcome` | the store's functions of that name; `Outcome` also has the results of provisioning, enabling and disabling |

`Stop`, `Load`, `Start` and `Reload` are FPM and systemd as the code uses them: a
branch serves the pools it finds when it starts or reloads, and comes down when
another branch holds the socket of one of them. `systemctl reload` only asks: FPM
gets to it at any later moment (`Apply`). After a failed change an operator may choose
any other version, as the store lets him. `abandoned[s]`, a history variable, holds the
branches to which a change of the site has failed for good and none has succeeded since.
A command may fail without effect or with it. A lost answer
(`LoseAnswer`) is modelled when it is delivered, which is when the panel would
read it: a call that the panel gave up earlier holds `Host.mu` and the
replay waits for it, or, for the kinds that are not replayed, the next call
does. `SiteLifecycle` has the case that requests pend together.

Left out: what is in a pool file, pools an operator made himself (they keep a
branch running), the package lists, and domain changes and deletions, which have
modules of their own.

### SiteContent and the code

Content is a version number: 0 is a tree that is missing or a database that is
torn. A call of the broker is a list of steps, those of the function of the
same name in its order; every step may fail, and the broker, the host, the panel
or the connection may stop before any of them. One call has `backupMu`
(`run`), the others wait (`calls`); a job that the worker put back is called
again under its key while the first call may still wait.

| in the module | in the code |
|---|---|
| `jobs`, `points` | rows of `jobs` and `backup_snapshots` |
| `files`, `db`, `previous`, `work`, `copies` | the public tree, the database, trees moved aside, recovery directories, rollback dumps of updates |
| `snaps`, `Superseded`, `applyBackupRetention` | the repository; restic groups by tags, and each job has one of its own, so `forget` may remove only a snapshot that another of the same job replaces. A job has one, unless the search for it erred when the job was called again: then it takes a second (`again`) |
| `backupSite`, `downloadSnapshot`, `exportRestoreDatabase`, `buildTree`, `changeDatabase`, `preserveFiles`, `activateFiles` | the steps the operations share |
| `importRollback`, `switchBack`, `RollBack` | what is put back when one fails |
| `recoverInterruptedFileSwitch` | which of two trees is kept after a stop between two renames |
| `existingWordPressSearchReplace`, `markStarted`, `recordCompleted` | the journal of a search and replace |

A failing step leaves what a stop in its midst would. A step that fails while
putting something back marks the answer (`stuck`), and nothing is claimed for
it. `AnswersAreTrue` speaks of the first call of a job; what a replay of a call
that was broken off does is in the model, and `Recoverable` holds for it.
Restic's own consistency, `wp-config.php` and the URL replacement in a copied
database are part of a step.

### BackupSchedules and the code

`schedule` is a row of `backup_schedules`, `pass` the transaction of
`EnqueueDueBackups` or `EnqueueDueRestoreTests` that a process has open. A
process has one connection (`SetMaxOpenConns(1)`), so it has one transaction; two
processes overlap during a restart, and SQLite refuses the writes of a
transaction whose snapshot is stale (`Spoil`). `runs` are the jobs inserted, by
their idempotency key. `Tick` passes hours, also while nobody looks.

### SiteFiles and the code

A file is a sequence of pieces, one per chunk. `staged` and `records` are the
staging file of an upload and its journal; `Stages` says how far a call of
`UploadFileChunk` came: opened, written in part, written, journal saved,
publishing, renamed, complete. The browser (`static/files.js`) may send any chunk
at any time. `published` collects what the upload has put at its path, `told`
the uploads that were answered as complete. Operations on a selection hold the
host's mutex from `Begin` to their last entry and go through it one entry at a
time (`removeSelected`, `moveSelected`, `copySelected`, `extractSelected`).
It is assumed that nobody but the upload touches its staging file and that an
upload ID stays with one file; a restore that swaps the tree beneath an upload
is not composed with it.

### SiteSettings and the code

`row` is per kind the wanted value and the status in SQLite, `conf` the host:
what is kept on disk (`kept`), what is in force (`live`), whether WordPress
runs its own schedule (`internal`), temporary names left in `/etc/cron.d`
(`strays`). A call is a plan of steps, each with the host it leaves and the host
that the code's undoing leaves when it fails; `Ends` are all the ways it may end,
`cut` among them, which is replayed or given up as `worker.go:551` says.
`Transition` disables and enables the site, which stops and restarts commands,
Node and FTP. `SwitchFiles` stands for the several files that visitor access and
the defence write, check and reload.

### ServerRecords and the code

A row, its job and its counterpart: `base` is the database in MariaDB, `zone` the
records at the provider by identifier, `relay` the name Postfix runs with. The
worker reads the row (`Start`), calls and writes the outcome, three moments
between which requests commit. `ReadDNSRecord` and the action after it are one
handler that reads before its transaction. `Superseded` is the condition of
`finishHostingJob` that lets a later job of the same kind decide.

### Logins, PanelUsers, SignOns

A request in `Logins` is one HTTP request in the steps its handler takes between
statements: the password is checked, then a challenge or a session is made; a
challenge is resolved, a factor read, then accepted in a transaction. Hashes and
tokens are numbers. `epoch` bounds the changes of password and the disablings;
`confirmed` numbers the confirmations of a factor, and `removed` is the confirmation that was
the last when the factor was last removed, for the property only. In `PanelUsers` a handler that looks
at the session, the actor or the target before its transaction does so in a
step of its own (`asked`). `SignOns` has the token files with their ages, the
handler that claims one by renaming or removing it, the pruning, and
`Ensure` of phpMyAdmin with the links and Nginx files it switches (`Stages`,
`Undo`). The customer's own PHP may touch the files of his site
(`SiteInterferes`).

### OperatorAlerts and PanelHost

`state` and `delivery` are the rows of an alert and of its deliveries; one
evaluation is one action, since the monitor has a mutex, with a result per
channel: sent, failed, sent but not written down, or skipped by a stop. `heard` is what a
channel has delivered last, for the property only.

`PanelHost` has one command at a time, as a list of steps (`todo`) and the steps
that would undo what was done (`undo`), in the order of the code. `Fail` is a
step that fails without effect; the others fail within their action.
`Killed` leaves everything as it is, `Reboot` starts the installed services.
The database is a file and its write-ahead log, each with rows, schema and
the key its secrets are encrypted with.

### SiteWork and PanelWork

The parts share no variable and no step changes two of them, so a behaviour of the
instance is a behaviour of one part, chosen at the start; interleaving them would
multiply states and tell nothing. They are put together so that one run checks
each group with the bounds of its parts side by side. Where parts do meet in
the code, the meeting is inside a module: settings, site status and hosting in
`SiteSettings`, backups, restores, staging and the lock in `SiteContent`, and
status jobs and reservations in `SiteLifecycle`.

## 3. Runs

| run | asks | instance |
|---|---|---|
| `lifecycle_sites` | every kind of job that has a site's status, clones and configuration jobs beside them: the tables' invariant, active means served, deleted stays deleted | 2 sites, 2 domains, 3 jobs, 2 faults |
| `lifecycle_settles` | replayed kinds never have two operations on a site pending; a site is released only when the host has settled; every transition is decided | 2 sites, 3 domains, 2 jobs, 1 fault, fairness |
| `lifecycle_assumed_failure` | **violated**: a lost answer of a provisioning is taken for its failure | 1 site, 2 jobs |
| `domain_change` | visitors, summary, refinement of `DomainSwitch`; repetition reaches an outcome | 2 writes, 4 faults, fairness |
| `site_deletion` | nobody writes, account last, done is gone, neighbours, summary; repetition finishes | 4 faults, fairness |
| `php_branches` | the pool of the version shown is never lost; an active site has its pool in the branch of its version, and elsewhere only where a change failed for good; no step of a change takes a neighbour's listener; every requested change is decided | 2 sites, 3 branches, 3 jobs, 2 faults, late reloads, any branch after a failure, fairness |
| `php_failed_neighbour` | **violated**: disabling a site stops the branch of a failed neighbour's live pool | 2 sites, 2 branches, 2 jobs, 2 faults |
| `site_work` | content: answers are true, production can be recovered, a search and replace runs once; uploads arrive whole, once; settings, databases, records in force as their rows say; one run per period | 2 jobs of 8 kinds, 1 stop of 4 kinds, 2 tries; 2 uploads of up to 2 pieces, 2 directories, 2 names, 2 changes; 6 settings, 4 requests, 1 fault; 1 schedule, 2 processes, 4 hours; 4 edits, 2 losses |
| `backup_retry` | **violated**: a backup that is called again after a lost answer returns the snapshot it took | 1 job, 1 lost answer, 2 tries |
| `hosting_enable` | **violated**: enabling a site that has an FTP account is refused by the host | 4 requests |
| `file_move` | **violated**: a move with overwriting into the entry's own directory loses it | 1 change |
| `panel_work` | factors are spent, only the latest recovery codes count, and none once the factor was removed; one owner, grants follow the role, administrators are apart; a sign-on opens once, the installed phpMyAdmin is served; alerts are heard; the commands keep the panel | 2 requests; 3 tokens, 2 secrets, 1 change; 3 users, 1 site; 2 sign-ons or installations; 2 channels, 3 phases; 2 versions, 3 commands, 2 rows |

Why the bounds are enough to mean something. Two sites are needed for two
names to collide and for a clone to read what another job changes; with two
names a new site may ask for the one a change has reserved or has given up, with
three (`lifecycle_settles`) two changes may want the same new one. Three jobs are a transition, the one after it and one on the other
site, or a site disabled, enabled and deleted; in `php_branches` they let a neighbour be created beside a site that is moved twice, and three branches
let a change follow on a failed one with another version. Two faults let an
answer get lost and the replay be disturbed too. One call of
`ChangeDomain` has eleven steps and a rollback of six; four faults let a change
fail, its rollback fail, the broker stop and an answer be lost in one
behaviour. Two writes are one that was let in and meets the gate shut, or a cron job's, beside one
made with the gate open. The
proofs remove the bounds where they reach.

In `site_work` two jobs are a backup and a restore of it, or two jobs of which
the second finds what the first left; with two tries and one stop a call is
broken off, called again, and the second job runs over both. Two uploads go to one
path, one in two pieces, so that a chunk may come before, after or instead of
another and the other upload or an edit may come between; two changes of the tree
are one operation on what another has made. Four requests set, change, disable and
enable. In four hours an interval of one hour is missed several times over. In
`panel_work` two requests overlap in every step; three tokens are a challenge, a
session and one more; three users are the owner and two who are changed by one
another; three phases open, resolve and open again; three commands are an
installation, one that is broken off and the one after it. `Login`, `User` and
`SignOn` of `PanelWork`, and `Bounded` of `SiteWork`, name the bounds that hold
for what is made together.

Every property a run checks is one that a plausible mistake in the code would
break. Type invariants are stated in every module (`TypeOK` and the like) and
proved where a proof rests on them (section 5); the runs check what says more.

`CHECK_DEADLOCK FALSE` is in every configuration because the instances do stop:
when all jobs, domains and faults of the bounds are used up, or when the panel
has been told the outcome, nothing is left to do.

### Five disagreements with a run

*A lost answer taken for a failure* (`lifecycle_assumed_failure`).
`broker/client.go:22-24` asks durable callers to replay an operation whose outcome
is unknown. The worker does so for the kinds it lists (`worker.go:551`);
provisioning, enabling, disabling and cloning are not among them and are closed
as failed. The site then accepts the next operation while the broker holds the
first. With `Ordered = TRUE` the run `lifecycle_sites` shows that the table and
the host still agree whenever the panel shows a site as active: the second
request waits its turn.

*A failed neighbour* (`php_failed_neighbour`). `store/lifecycle.go:70-72` counts
partially failed sites among those with a live pool, the query below it does
not: `failed` is what a site gets whose provisioning failed after FPM had loaded
its pool, or whose answer was lost. Disabling the neighbour then stops the branch.

*An FTP account keeps a site from being enabled* (`hosting_enable`).
`docs/dispatch/hosting-services.md:63-64` has enabling replay the accounts
through `ApplyFTPUser`. That refuses a site that is not active
(`hosting_ftp.go:22`), and the worker passes the row it read, which says
`enabling`. `EnqueueFTPUserDelete` wants an active site, so no request leads out
of `enable_failed`. `RowsAreInForce` is not concerned: the row says that
enabling failed.

*A move onto itself* (`file_move`). With overwriting, `transferFiles` removes what
is at the destination and then renames. If the entry is already in that
directory it removes the entry. `docs/dispatch/files_manager.md:66-67` promises
one selection at a time; the operation reports none and one is gone.

*A retried backup* (`backup_retry`). `backup.go:270-271` calls a backup safe to
retry, as the snapshot of a job is found by its tag. The search for it is taken to
have found nothing whenever it fails (`backup.go:340` asks for `err == nil` only), so a
retry takes another snapshot under the same key. `Recoverable` says what that may cost: if a
site was half changed meanwhile, the second snapshot is of that, and retention may
keep it and forget the first.

### Others, found while modelling, without a run of their own

* *A second worker.* The comment on `ClaimNextJob` (`store.go:757-759`) counts on
  its condition for processes that overlap during a restart. It keeps a row from
  being claimed twice, but `RequeueInterruptedJobs` returns the row of a live
  worker to the queue, and a late answer is then applied to a row that is
  being carried out again. With two workers and any order of locks
  `ActiveIsServed` fails; `StoreInv` holds, and `StoreIsSafe` proves it for any
  number of workers.
* *A late reload.* `ChangePHPVersion` is meant to release the socket before it
  starts the new branch (`php_version.go:15-17`). It reloads the old branch and
  goes on, while `waitDeletionSocketStopped` waits because a reload may be
  acknowledged before it is applied. The new branch may meet the old listener, and the
  probe of the socket may be answered by a branch that is about to close it. All of
  this happens in `php_branches`; that a site shown as active is served by its own branch at
  every moment would not hold and is not claimed. What is claimed speaks of pools.
* *A third branch.* `ChangePHPVersion` looks at the directories of the version shown
  and of the selected one (`php_version.go:39-40`). When the undoing of a change
  could not remove the pool of the branch that was tried, the site is in
  `php_change_failed`, and the store accepts any other version
  (`store/php_version.go:35`). The next change then writes another
  pool beside the one left. `PoolIsMoved` says that this is the only way to a second
  pool: it allows those of `abandoned`. A branch with such a pool cannot bind
  the socket when it reloads and comes down with the pools of its other sites, whereas
  `docs/OPERATIONS.md:267` says "Other site pools keep their branch running".
  `ChangesKeepNeighbours` speaks of the steps of the change itself: what FPM makes of a
  reload it was asked for is a step of FPM. (Deletion looks through all branches.)
* *Overlapping confirmations.* The confirmation of a second factor looks at the
  pending secret before its transaction and installs whatever is pending then
  (`totp.go:84-105`). Of two that overlap, the second installs none: the account has
  no factor any more, and the codes just issued remain. In `Logins` this happens;
  `OnlyLatestRecoveryCodes` and `EveryFactorIsSpent` hold nevertheless, as they speak
  of codes and of what is spent, not of whether a factor is set.
* *A login beside a change.* A login whose password was checked (`store.go:452-466`)
  before the password is changed or the user disabled makes its session or challenge in a
  later statement, after the change has deleted those there were (`store.go:518-551`). The
  model has that step. The form says that a change of password "signs you out on all
  devices" (`web/templates/security.html`), which is true of the sessions that exist; no
  property says more.
* *DNS.* The answer of a creation that is lost leaves a record at the provider
  that no row knows, and the retry posts a second one; a deletion whose answer
  was lost is refused by the provider for ever after; a request that read the
  record before it had an identifier removes the row although the worker is
  about to create the record (`store/dns.go:219-220`). `RecordsAreInForce` speaks
  of rows that read as active, for which none of this matters.
* *Retention.* restic is told to group by tags and every job has a tag of its own
  (`backup.go:297`), so each group has one snapshot, unless a search erred, and
  retention forgets none, unlike what `web/templates/site_backups.html:179` offers. `Recoverable` is what
  is left to say.
* *Replays of content jobs.* A deployment or update that is cut after it switched
  is not recognised as done: an update imports the database it kept and runs
  again, also over a copy that was cut (`wordpress_update.go:111-113`); a failed export
  leaves its directory, which refuses later calls of the pair; the snapshot a
  restore takes first never becomes a restore point; a replay whose search for the job's
  snapshot errs may take a new one of a torn site and let the retention forget the
  first, which is the case `Recoverable` exempts (`TakenOfHalfChanged`).
* *Scheduled commands.* The temporary name beside a target is fixed and created
  exclusively (`cron.go:272`), so a stop between writing and renaming blocks
  that target until somebody removes it; `docs/dispatch/cron.md:11-12` does not
  expect this. When `wp-config.php` cannot be edited, the entry just installed
  is removed also if it replaced one that worked (`cron.go:128-131`). A backup
  restored after the site went back to its own schedule brings
  `DISABLE_WP_CRON` with it.
* *Mail.* A mail change that is cut during the installation of Postfix leaves the
  policy file that keeps its service from starting (`hosting_mail.go:29-60`),
  which `docs/dispatch/hosting-services.md:43-44` says is temporary.
* *Alerts.* A stop between a delivery and its record makes the next evaluation
  deliver again, or not at all if the condition has changed meanwhile: the
  channel keeps an opening that is never resolved.
* *Commands.* A kill before the marker is written makes a second installation
  refuse the server; a kill between removing the link of the proxy and reloading
  Nginx lets a later `access local` answer while Nginx still serves the old one
  (`Settled` excludes it).
* *Copies.* A copy with overwriting whose last rename fails has already removed
  what was there.

## 4. Fairness

* `WorkerStep(w)` is weakly fair: systemd restarts the panel, and the worker's
  loop polls and never waits for an operator.
* `BrokerStep` is weakly fair: a request that has been read is carried out, and
  every command the broker runs has a time limit.
* Operators, visitors, neighbours and faults have no fairness. `TransitionsSettle`
  needs operators not to retry failed changes for ever, since a retried row
  keeps its old place at the head of the queue; the property says so.
* `CallStep` of `PHPBranches` is weakly fair for the same two reasons; FPM's
  applying a late reload is not, since no change waits for it.
* `SiteWork` and `PanelWork` check safety only and state no fairness.
* In the other host modules the steps of a call that was taken up are weakly
  fair, and so is PHP applying a reload it has accepted. Nobody has to call; `RetriesConverge`
  says that every call ends and that only finitely many calls are needed.

Faults are bounded, so a behaviour has finitely many: without that no system
settles.

## 5. Proofs

Assumed are only the named assumptions of the modules: `None` is not a site,
domain, worker or kind; the established sites are sites; the kinds are kinds of
the code; bounds and lifetimes are naturals, and the clock may move
(`MaxClock >= 1`); intervals between two runs are at least an hour; releases of
the panel are positive numbers, as 0 stands for none; an alert triggers after at
least one sample; the two names of a change differ; jobs of content have positive
numbers, as 0 stands for none, and uploads have numbers. The
theorems of `PanelWork` and `SiteWork` speak of the whole instance: each part has a
theorem that the instance implements the part's specification
(`LoginsAreRefined`, ..., `ContentIsRefined`), and what the part promises follows
from that.

*SiteLifecycleProofs, the tables.* `StoreInv` is inductive. The properties alone are not:
that no two sites share a name after a domain change depends on the reservation
still being there when the change succeeds; that depends on a retry taking the
job that made the reservation, which is the newest failed one only if every
other domain change of the site is older (`ReservationHasItsOwner`); and that a
finished job may set the status of its site depends on no other status job
being pending for it (`TransitionsHaveTheirJob`), for any worker that may
answer (`CallersWait`, `WorkHasItsRow`). The invariant falls into the part of
the tables and the part of the working parties. Each handler, and each branch
of `FinishJob`, has a lemma for the first part, each worker, broker and fault
action one for the second; `StoreIsSafe` combines them, and its consequences
are the properties the runs check. Requests in flight may be lost, repeated and
reordered at will: `Ordered` is not used.

*SiteLifecycleProofs, the host.* `HostInv`, for one worker and requests that take
the lock in order (`OneWorker`, `Ordered`), ties tables, pending requests
and host together. A request somebody waits for is the last one; a site that
is active or deleted is on the host as the panel shows it, and no request that
may still be carried out changes that (`SettledInv`); the journal of a domain
change, of a deletion and of a clone tells what the host serves, whatever the
requests of abandoned calls did meanwhile (`ChangesInv`, `DeletesInv`,
`ClonesInv`); and an answer is still true when the worker records it
(`AnswersInv`). `ActiveIsServed` and `DeletedStaysDeleted` are its second part:
alone they are not inductive, as the row becomes active long after
the host has done what it says. Without `OneWorker` the first fails
(*A second worker*, section 3), without `Ordered` both do (section 2).
`QueueInv` adds, for kinds whose job is put back when its answer is lost
(`Replayed`), that the worker holds the oldest job of a site and that no request
outlives the answer to its call. `NoIncompatibleRequest` and
`ReleasedOnlyWhenSettled` follow; without `Replayed` the former fails, which is
the run `lifecycle_assumed_failure`.

*DomainChangeProofs.* `SwitchInv` says for every journal state what vhosts,
nginx, database and recovery copy are, whatever call comes next; for every step
of a call what it knows; and for every answer what it rests on. It is needed
because `VisitorsMeetTheirSite` speaks of nginx and the database only: that an
import never discards a write rests on both nginx *and the files on disk*
being gated ever since the copy was taken, as anybody may reload nginx. Writes that come
late, from requests let in before or from cron jobs, interleave with all of it; the
invariant bounds what of them database and copy hold.
`ImplementsSwitch` maps each step to a step of `DomainSwitch` or to a stutter.

*SiteDeletionProofs.* `DeletionInv` says what the record alone guarantees, what
a call has done when it gets to a step, and that calls only take away. The
record is what connects calls: `RuntimeStopped` means that nothing is left that
could start a program of the site, for ever after.

*PHPBranchesProofs.* `PoolInv` ties the queue to the sites and the call to the
queue: a job that has to be carried out has its site to itself and names its
version (`JobsOwnTheirSites`), the call works on the oldest one, has a copy
when it is about to remove the pool, and has written the new pool when it
answers that it is done (`CallIsTrue`). `PreviousPoolKept` is part of it; it is
not inductive alone, since the job's previous version has to be the one the
panel shows, however often the change is broken off and repeated. Nothing is
assumed of FPM there: `Load` may do what it likes to listeners, and reloads are applied
whenever. `MoveInv`, for `PoolIsMoved`, says that a pool in a third place belongs to a change
that is on its way and has taken the old one out (`StraysAreExpected`), that a row says where
a pool is unless a change is under way (`RowsTell`), and where the old
pool is at each step of one (`ChangeKnowsPools`). `PoolIsMoved` alone is not inductive: it
says nothing of a site whose change is pending. `ChangesKeepNeighbours` rests on the steps
alone: a branch is stopped only when no pool is in its directory, and a started one takes
only sockets that are free.

*PanelAccountsProofs.* `LoginsInv` adds to what is promised of
codes that the password is of no change yet to come and that no factor was removed
before it was confirmed (`removed <= confirmed`). `UsersInv` is more: the
rows only grow, any two owners are one, the owner is never disabled, and a request that was
interrupted between its statements still carries the manager it read, and does not rename
its own user (`UserRequests`); so requests may interleave as they like.

*PanelToolsProofs.* `AlertsInv`: the phases of a condition alternate and a channel
has heard none later than was recorded. `SignOnsInv`: files have names of their own, a
visitor under way holds the file it read, two claims never hold the same one,
and what was opened is spent; `InstallInv`: the link that serves phpMyAdmin
follows the vhost. `HostInv`: per command and step, what of `install`, `upgrade`
and `access` is on the host, and what a command that was broken off
anywhere has left for the next; the panel's data and its configuration are kept throughout.
`AnswersInv` carries from the first step of a command to its answer what the command
found.

*SiteRecordsProofs.* `SchedulesInv`: the next time of a task lies an interval
after its runs and after it was last set, and what an open transaction has read still
holds, since SQLite spoils it when another commits (`PassesStand`); `OneRunPerPeriod`
follows, which is about steps. `RecordsInv`: the row the worker has read is the row
as it stands, or the row is gone, unless a later job of the kind waits (`RowIsRead`), and a
database or the mail service reads as settled only when no job of it waits
(`RowsSettle`). `RecordsAreInForce` is not inductive without the first: the outcome is
written to a row which requests may have changed since it was read. `SettingsInv`:
each job has its row to itself, and one that changes the site comes first
(`SettingsWait`); every host a call may leave, by a step, a rollback or a break, fits
all rows that are settled, those of the other settings too (`Fitting`); and the
site being active or disabled tells what runs (`SiteTells`). `RowsAreInForce` alone is
not inductive: while a site is disabled or on its way it says nothing of what is
kept on disk, which is what enabling starts again. Calls are plans, so a lemma on
each plan says that it `Leads` through fitting hosts to the one its row asks for.

*SiteContentProofs.* `UploadsInv`: a staging file is the beginning of its upload's
file, or torn, and then no chunk is accepted any more; it is gone exactly when it was
put in place, and the journal of the upload knows that before it is. `UploadsAreExact`
alone is not inductive: that the file put in place is whole depends on what
every call before has left in the staging file and its journal. For the content,
`CallsGoOn` says of each step of a call what it leaves alone and where the call goes
on, so that an invariant can speak of the steps a call has left (`run.todo`).
`ReplaceInv`: what is left to a search and replace tells whether the journal has an entry of
its job (none until "mark", one before "change"), and what was run has one;
`SearchReplaceOnce` says nothing of the journal. `RecoverInv`: as
long as production was never backed up it is whole, and a call for it has only read it;
retention forgets a snapshot only for another of its job, and of two of one job the later
was taken by a call made again, so one remains that is whole or that `Recoverable` exempts.
`AnswersInv` (of `SiteContentProofs`) says, by the steps a call has left, what of the
content it found is in place, what it has put there, and what it keeps to take it back:
the dump of the database, the tree moved aside (`CallTells`). `AnswersAreTrue` speaks
of the end alone. A step needs more of what earlier calls left behind: two trees moved aside
never have the same owner, and a job that was not carried out before has left nothing
(`LeftInv`), or the first call of an update would import a copy that it did not make.
Each step of a call has a lemma that it leads from one row of `CallTells` to another; TLC
checked the invariant on the instance of `site_work` before it was proved.

Every invariant and every safety property of steps that a passing run checks is
thereby a theorem. Only model-checked are the five counterexamples (section 3) and
liveness (`TransitionsSettle`, `RetriesConverge`, `ChangesSettle`), as the prover does
not reach what is under fairness. No module uses recursive operators, so nothing is
left out for their sake.

## 6. Not modelled, and the plan

Not modelled, with the reason:

* The creation of storage targets and DNS providers, certificates beyond the job
  that stands for them, performance settings, snippets and Python applications:
  single writes or single commands behind a job kind that `SiteLifecycle` has.
* The steps of `Provision` and `RestoreClone` besides PHP, scheduled commands
  and Nginx; their results are in `HostResults`, without the account.
* Route 53, which has no record identifiers; previews and inspections; the
  test message; the sampling of resources; and whatever only reads or renders: the
  web interface, localisation, inventories, logs, fleet view, update check.
* Validation of names, paths, vhost text and archives: one refusal each.
* The order in which the disk persists writes when the power fails: a host stop
  keeps what was written. MariaDB is taken to finish an abandoned statement
  before the next call's, and a dump that was cut to fail when imported.
* Two failures at once where the second is in the undoing of the first: nothing is
  claimed of such an answer (`stuck`).

What is next: the steps of `Provision` and `RestoreClone`, to justify their results in
`HostResults` the way `DomainChange` and `SiteDeletion` do.
