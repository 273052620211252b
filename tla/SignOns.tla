------------------------------- MODULE SignOns -------------------------------
(***************************************************************************)
(* One-time sign-ons that the broker makes and somebody else's PHP spends: *)
(* a file read by phpMyAdmin, and a capability of a WordPress site.  The   *)
(* panel, the broker, which prunes while it makes new ones, and several    *)
(* PHP processes work on the same directories without a lock between them. *)
(* phpMyAdmin itself is installed by a job that may fail at any step, be   *)
(* broken off, or be carried out again after the panel gave it up.         *)
(***************************************************************************)
EXTENDS Naturals, FiniteSets, Sequences

CONSTANTS Openers, Visitors,   \* requests of the panel, PHP processes
          Lifetime, PruneAge,  \* of a sign-on, and of what a new phpMyAdmin sign-on prunes
          MaxTime, MaxSignOns, MaxInstalls   \* bounds

SignOnAssumption ==
    /\ {Lifetime, PruneAge, MaxTime, MaxSignOns, MaxInstalls} \subseteq Nat
    /\ Lifetime < PruneAge

VARIABLES opener,    \* per request of the panel: where it is
          visitor,   \* per PHP process: where it is
          files,     \* the token directories: [token, kind, name, expires]
          made,      \* sign-ons made so far
          told,      \* sign-ons whose address was sent to a browser
          opened,    \* how often each sign-on was accepted
          handler,   \* wpx-login-handler.php of the site: absent, ours or foreign
          now,
          admin,     \* database_admin: status of phpMyAdmin
          job,       \* its job: none, queued or running
          calls,     \* calls of Ensure the broker has not begun
          installs,  \* jobs made so far
          have       \* what there is of phpMyAdmin on the host

sessionVars == <<opener, visitor, files, made, told, opened, handler>>
installVars == <<admin, job, calls, installs, have>>
signOnVars  == <<sessionVars, now, installVars>>

Kinds  == {"phpmyadmin", "wordpress"}
Tokens == 1..MaxSignOns
File   == [token : Tokens, kind : Kinds, name : {"pending", "used"}, expires : Nat]
Free   == [at |-> "free"]

\* What Ensure brings about, in its order; "php" and "nginx" are what the
\* two services have loaded, the others are files.
Stages == <<"identity", "application", "configuration", "pool", "php", "vhost", "link", "nginx">>
Facts  == {Stages[i] : i \in DOMAIN Stages}

SignOnsTypeOK ==
    /\ opener \in [Openers -> {Free} \cup [at : {"asking"}, kind : Kinds]
                              \cup [at : {"answered"}, token : Tokens]]
    /\ visitor \in [Visitors -> {Free} \cup [at : {"read", "claimed", "checking"}, file : File]]
    /\ files \subseteq File /\ made \in 0..MaxSignOns
    /\ told \subseteq Tokens /\ opened \in [Tokens -> Nat]
    /\ handler \in {"absent", "ours", "foreign"} /\ now \in 0..MaxTime
    /\ admin \in {"not_installed", "queued", "active", "failed"}
    /\ job \in {"none", "queued", "running"} /\ calls \in Nat /\ installs \in 0..MaxInstalls
    /\ have \subseteq Facts

SignOnsInit ==
    /\ opener = [o \in Openers |-> Free] /\ visitor = [v \in Visitors |-> Free]
    /\ files = {} /\ made = 0 /\ told = {} /\ opened = [t \in Tokens |-> 0]
    /\ handler = "absent" /\ now = 0
    /\ admin = "not_installed" /\ job = "none" /\ calls = 0 /\ installs = 0 /\ have = {}

-----------------------------------------------------------------------------
(***************************************************************************)
(* Making a sign-on.                                                       *)
(***************************************************************************)
\* The database is active in the row the page read; so is phpMyAdmin.
OpenDatabasePage(o) ==
    /\ opener[o] = Free /\ admin = "active"
    /\ opener' = [opener EXCEPT ![o] = [at |-> "asking", kind |-> "phpmyadmin"]]
    /\ UNCHANGED <<visitor, files, made, told, opened, handler, now, installVars>>

WordPressLogin(o) ==
    /\ opener[o] = Free
    /\ opener' = [opener EXCEPT ![o] = [at |-> "asking", kind |-> "wordpress"]]
    /\ UNCHANGED <<visitor, files, made, told, opened, handler, now, installVars>>

NewFile(kind) == [token |-> made + 1, kind |-> kind, name |-> "pending", expires |-> now + Lifetime]
Make(o) ==
    /\ made < MaxSignOns /\ made' = made + 1
    /\ opener' = [opener EXCEPT ![o] = [at |-> "answered", token |-> made + 1]]

\* Whatever lies in the directory for long is pruned first.
CreateSignon(o) ==
    /\ opener[o] = [at |-> "asking", kind |-> "phpmyadmin"] /\ "identity" \in have
    /\ LET aged == {f \in files : f.kind = "phpmyadmin" /\ f.expires + PruneAge < now + Lifetime}
       IN files' = (files \ aged) \cup {NewFile("phpmyadmin")}
    /\ Make(o)
    /\ UNCHANGED <<visitor, told, opened, handler, now, installVars>>

\* The handler has to be as it was written; expired capabilities go, also those
\* that a visitor has claimed.
MagicLogin(o) ==
    /\ opener[o] = [at |-> "asking", kind |-> "wordpress"] /\ handler # "foreign"
    /\ handler' = "ours"
    /\ files' = {f \in files : f.kind = "wordpress" => now < f.expires} \cup {NewFile("wordpress")}
    /\ Make(o)
    /\ UNCHANGED <<visitor, told, opened, now, installVars>>

\* The permission for a database is looked up when the access is recorded, and
\* only then is the browser sent to phpMyAdmin.
PrepareDatabaseOpen(o) ==
    /\ opener[o].at = "answered" /\ opener' = [opener EXCEPT ![o] = Free]
    /\ told' = told \cup {opener[o].token}
    /\ UNCHANGED <<visitor, files, made, opened, handler, now, installVars>>

\* Refused, failed, or not permitted: the file may be there and nobody knows of it.
Refused(o) ==
    /\ opener[o] # Free /\ opener' = [opener EXCEPT ![o] = Free]
    /\ UNCHANGED <<visitor, files, made, told, opened, handler, now, installVars>>

-----------------------------------------------------------------------------
(***************************************************************************)
(* Spending it.  A browser may send the same address twice.                *)
(***************************************************************************)
Visit(v, step) == visitor' = [visitor EXCEPT ![v] = step]
Accept(t) == opened' = [opened EXCEPT ![t] = @ + 1]

\* wpx-signon.php: reads the file, then removes it, and goes on if it was the
\* one that removed it.
PhpMyAdminRead(v) ==
    /\ visitor[v] = Free /\ {"application", "configuration", "php", "nginx"} \subseteq have
    /\ \E f \in files : f.kind = "phpmyadmin" /\ f.token \in told /\ Visit(v, [at |-> "read", file |-> f])
    /\ UNCHANGED <<opener, files, made, told, opened, handler, now, installVars>>

\* Mutant of PhpMyAdminSignon: a file that is gone already counts as removed.
SignonAnyway(v) ==
    /\ visitor[v].at = "read" /\ Visit(v, Free)
    /\ LET f == visitor[v].file IN
       /\ files' = files \ {f}
       /\ IF now <= f.expires THEN Accept(f.token) ELSE UNCHANGED opened
    /\ UNCHANGED <<opener, made, told, handler, now, installVars>>

PhpMyAdminSignon(v) ==
    /\ visitor[v].at = "read" /\ Visit(v, Free)
    /\ LET f == visitor[v].file IN
       /\ files' = files \ {f}
       /\ IF f \in files /\ now <= f.expires THEN Accept(f.token) ELSE UNCHANGED opened
    /\ UNCHANGED <<opener, made, told, handler, now, installVars>>

\* wpx-login-handler.php: claims the file under another name, reads it, removes
\* it, then looks at its expiry.
Used(f) == [f EXCEPT !.name = "used"]
HandlerClaim(v) ==
    /\ visitor[v] = Free /\ handler = "ours"
    /\ \E f \in files : /\ f.kind = "wordpress" /\ f.name = "pending" /\ f.token \in told
                        /\ files' = (files \ {f}) \cup {Used(f)}
                        /\ Visit(v, [at |-> "claimed", file |-> Used(f)])
    /\ UNCHANGED <<opener, made, told, opened, handler, now, installVars>>

HandlerLogin(v) ==
    /\ \/ /\ visitor[v].at = "claimed" /\ UNCHANGED <<files, opened>>
          /\ Visit(v, IF visitor[v].file \in files THEN [visitor[v] EXCEPT !.at = "checking"] ELSE Free)
       \/ /\ visitor[v].at = "checking" /\ Visit(v, Free)
          /\ files' = files \ {visitor[v].file}
          /\ IF now < visitor[v].file.expires THEN Accept(visitor[v].file.token) ELSE UNCHANGED opened
    /\ UNCHANGED <<opener, made, told, handler, now, installVars>>

\* The customer changes or removes the handler, or PHP is stopped.
SiteInterferes ==
    \/ /\ handler' \in {"absent", "foreign"} \ {handler} /\ UNCHANGED visitor
       /\ UNCHANGED <<opener, files, made, told, opened, now, installVars>>
    \/ /\ \E v \in Visitors : visitor[v] # Free /\ Visit(v, Free)
       /\ UNCHANGED <<opener, files, made, told, opened, handler, now, installVars>>

Pass == now < MaxTime /\ now' = now + 1 /\ UNCHANGED <<sessionVars, installVars>>

-----------------------------------------------------------------------------
(***************************************************************************)
(* Installing phpMyAdmin.                                                  *)
(***************************************************************************)
InstallDatabaseAdmin ==
    /\ admin \in {"not_installed", "failed"} /\ installs < MaxInstalls
    /\ admin' = "queued" /\ job' = "queued" /\ installs' = installs + 1
    /\ UNCHANGED <<sessionVars, now, calls, have>>

\* The worker claims the job; after a restart of the panel it does so again,
\* while its first call is still with the broker.
ClaimInstall ==
    /\ job \in {"queued", "running"} /\ calls < MaxInstalls
    /\ job' = "running" /\ calls' = calls + 1
    /\ UNCHANGED <<sessionVars, now, admin, installs, have>>

\* The first n stages of a call; what was there before it.
Upto(n) == {Stages[i] : i \in 1..n}
Built(n) == have \cup Upto(n)

\* Mutant of Undo: what the call wrote is removed, whether it was there or not.
UndoAll(n) ==
    LET failing == Stages[n + 1] IN
    CASE failing = "php"   -> {"pool"}
      [] failing = "link"  -> {"vhost"}
      [] failing = "nginx" -> {"vhost", "link"}
      [] OTHER             -> {}

\* What a failing stage takes back: a file that was not there before.  Reloading
\* nginx without the vhost makes it forget the vhost.
Undo(n) ==
    LET failing == Stages[n + 1]
        files_  == CASE failing = "php"   -> {"pool"}
                     [] failing = "link"  -> {"vhost"}
                     [] failing = "nginx" -> {"vhost", "link"}
                     [] OTHER             -> {}
    IN files_ \ have

\* Calls are executed one at a time.  The answer reaches the job if the worker
\* still waits for it, which it does for one call at most.
Ensure ==
    /\ calls > 0 /\ calls' = calls - 1
    /\ \/ /\ have' = Facts
          /\ \/ job = "running" /\ job' = "none" /\ admin' = "active"
             \/ UNCHANGED <<job, admin>>
       \/ \E n \in 0..Len(Stages) - 1 :
             /\ have' = Built(n) \ Undo(n)
             /\ \/ job = "running" /\ job' = "none" /\ admin' = "failed"
                \/ UNCHANGED <<job, admin>>
    /\ UNCHANGED <<sessionVars, now, installs>>

\* The broker is stopped inside a call; nothing is put back, and every call is
\* lost; the worker is told that the connection broke.
BrokerStops ==
    /\ calls > 0 /\ calls' = 0
    /\ \E n \in 0..Len(Stages) : have' = Built(n)
    /\ IF job = "running" THEN job' = "none" /\ admin' = "failed" ELSE UNCHANGED <<job, admin>>
    /\ UNCHANGED <<sessionVars, now, installs>>

\* Other operations of the panel reload the two services.
OthersReload ==
    /\ \/ have' = IF "pool" \in have THEN have \cup {"php"} ELSE have \ {"php"}
       \/ have' = IF {"vhost", "link"} \subseteq have THEN have \cup {"nginx"} ELSE have \ {"nginx"}
    /\ UNCHANGED <<sessionVars, now, admin, job, calls, installs>>

-----------------------------------------------------------------------------
SignOnsNext ==
    \/ \E o \in Openers : \/ OpenDatabasePage(o) \/ WordPressLogin(o) \/ CreateSignon(o)
                          \/ MagicLogin(o) \/ PrepareDatabaseOpen(o) \/ Refused(o)
    \/ \E v \in Visitors : \/ PhpMyAdminRead(v) \/ PhpMyAdminSignon(v)
                           \/ HandlerClaim(v) \/ HandlerLogin(v)
    \/ SiteInterferes \/ Pass
    \/ InstallDatabaseAdmin \/ ClaimInstall \/ Ensure \/ BrokerStops \/ OthersReload

SignOnsSpec == SignOnsInit /\ [][SignOnsNext]_signOnVars

-----------------------------------------------------------------------------
(***************************************************************************)
(* Properties.                                                             *)
(***************************************************************************)
\* A sign-on is accepted once, though a browser may send its address to two PHP
\* processes at once while the broker prunes the directory.
OpenedOnce == \A t \in Tokens : opened[t] <= 1

\* What the panel shows as installed is there and served, whatever became of
\* calls before or after the one that succeeded; and there is never a link
\* without its file, for which nginx would refuse every later change.
InstalledIsServed ==
    /\ admin = "active" => have = Facts
    /\ "link" \in have => "vhost" \in have
=============================================================================
