------------------------------ MODULE PanelHost ------------------------------
(***************************************************************************)
(* The commands root runs on the server to put the panel there, to replace *)
(* its binary and to change where it is reached: wpx install, upgrade and  *)
(* access.  None of them keeps a journal.  An installation that is broken  *)
(* off is run again; an upgrade and a change of access undo what they did, *)
(* with a time limit of their own, so that an interrupt is a failed step.  *)
(* The command may also be killed, or the server stop.                     *)
(*                                                                         *)
(* A command is a list of steps; a step that fails is replaced by the list *)
(* of what is to be undone.                                                *)
(***************************************************************************)
EXTENDS Naturals, FiniteSets, Sequences

CONSTANTS Versions,     \* of the binary: 1 .. n
          MaxCommands,  \* commands run
          MaxRows       \* writes to the panel's database

HostAssumption == Versions \subseteq Nat \ {0}

VARIABLES marker, root, key, tls,        \* what an installation leaves
          binary, units, config,         \* on disk
          file, wal,                     \* the database and its write-ahead log
          proxy, link, nginx, route,     \* ways to the panel: Nginx, Tailscale
          broker, panel, listens,        \* what is running
          cmd, commands

disk     == <<marker, root, key, tls, binary, units, config>>
database == <<file, wal>>
access   == <<proxy, link, nginx, route>>
services == <<broker, panel, listens>>
hostVars == <<disk, database, access, services, cmd, commands>>

None == [rows |-> 0, schema |-> 0, key |-> 0]
Live == IF wal # None THEN wal ELSE file
Address == [config |-> config, proxy |-> proxy, link |-> link, nginx |-> nginx, route |-> route,
            listens |-> listens]
NoCommand == [kind |-> "none", to |-> "none", todo |-> <<>>, undo |-> <<>>, ok |-> TRUE,
              stuck |-> FALSE, before |-> <<>>, saved |-> None, at |-> None]

\* What a running panel does to its database.
Migrated(v) == IF Live = None THEN [rows |-> 0, schema |-> v, key |-> key]
               ELSE [Live EXCEPT !.schema = IF @ < v THEN v ELSE @]

StartServices == /\ broker' = binary /\ panel' = binary /\ listens' = config
                 /\ wal' = Migrated(binary) /\ UNCHANGED file
\* The last connection that is closed in order folds the log into the database.
StopServices  == /\ broker' = 0 /\ panel' = 0 /\ listens' = "none"
                 /\ \/ UNCHANGED database
                    \/ wal # None /\ file' = wal /\ wal' = None

WriteRow == /\ panel # 0 /\ Live # None /\ Live.rows < MaxRows
            /\ wal' = [Live EXCEPT !.rows = @ + 1]
            /\ UNCHANGED <<disk, file, access, services, cmd, commands>>

-----------------------------------------------------------------------------
\* Commands and their steps.

Install  == <<"mark", "packages", "binary", "certificate", "key", "config", "units", "restart",
              "finish">>
Upgrade  == <<"reconcile", "stop", "checkpoint", "save", "replace", "units", "start", "ready">>
Listener == <<"unlink", "config", "restart panel">>
Configure(to) ==
    CASE to = "tailscale" -> <<"route">> \o Listener
      [] to = "domain"    -> <<"unroute", "http", "certbot", "https", "config", "restart panel">>
      [] OTHER            -> <<"unroute">> \o Listener

Run(kind, to, steps) ==
    /\ cmd = NoCommand /\ commands < MaxCommands /\ commands' = commands + 1
    /\ cmd' = [NoCommand EXCEPT !.kind = kind, !.to = to, !.todo = steps,
                                !.before = [binary |-> binary, units |-> units, address |-> Address,
                                            installed |-> config # "none"]]
    /\ UNCHANGED <<disk, database, access, services>>

\* A server that is not fresh is refused unless an installation was begun on it, and
\* so is a database that has lost its configuration.
RunInstall == /\ marker \/ (config = "none" /\ binary = 0 /\ ~root)
              /\ config = "none" => Live = None
              /\ \E v \in Versions : v >= binary /\ Run("install", v, Install)
RunUpgrade == /\ config # "none" /\ binary \in Versions
              /\ \E v \in Versions : v > binary /\ Run("upgrade", v, Upgrade)
RunAccess  == /\ config # "none"
              /\ \E to \in {"local", "public", "tailscale", "domain"} : Run("access", to, Configure(to))

Step(s)  == cmd.todo # <<>> /\ Head(cmd.todo) = s
Kind(k)  == cmd.kind = k
Advance  == cmd' = [cmd EXCEPT !.todo = Tail(@)]
AdvanceUndoing(u) == cmd' = [cmd EXCEPT !.todo = Tail(@), !.undo = u \o @]
Undoing  == ~cmd.ok
\* What has been done is undone last first; a failure while undoing is reported.
Failing(u) == cmd' = IF Undoing THEN [cmd EXCEPT !.todo = Tail(@), !.stuck = TRUE]
                     ELSE [cmd EXCEPT !.todo = u \o cmd.undo, !.ok = FALSE]

\* Steps that may fail without having done anything.
Fail ==
    /\ cmd.todo # <<>> /\ ~Undoing
    /\ \/ Kind("install") /\ cmd' = [cmd EXCEPT !.todo = <<>>, !.ok = FALSE]
       \/ Kind("access")  /\ ~Step("http") /\ ~(Step("unlink") /\ link)
                          /\ Failing(IF Step("config") THEN <<"unconfig">> ELSE <<>>)
       \/ (Step("http") \/ (Step("unlink") /\ link))
             /\ cmd' = [cmd EXCEPT !.todo = cmd.undo \o <<"unproxy">>, !.ok = FALSE]
       \/ Kind("upgrade") /\ (Step("reconcile") \/ Step("checkpoint") \/ Step("save")
                                \/ Step("units") \/ Step("ready") \/ Step("replace"))
                          /\ Failing(IF Step("replace") THEN <<"rollback">> ELSE <<>>)
    /\ UNCHANGED <<disk, database, access, services, commands>>

-----------------------------------------------------------------------------
\* Installation: every step leaves what is already there.

beginInstall == /\ Step("mark") /\ root' = TRUE /\ marker' = TRUE /\ Advance
                /\ UNCHANGED <<key, tls, binary, units, config, database, access, services, commands>>
installPackages == Step("packages") /\ Advance
                   /\ UNCHANGED <<disk, database, access, services, commands>>
installExecutable == /\ Step("binary") /\ Advance
                     /\ binary' = cmd.to
                     /\ UNCHANGED <<marker, root, key, tls, units, config, database, access, services,
                                    commands>>
\* Certificate and key are two files; once there is a configuration neither is made.
ensurePanelCertificate ==
    /\ Step("certificate")
    /\ \/ tls = "pair" /\ UNCHANGED tls /\ Advance
       \/ tls # "pair" /\ ~cmd.before.installed
          /\ \/ tls' = "pair" /\ Advance
             \/ tls' = "certificate" /\ cmd' = [cmd EXCEPT !.todo = <<>>, !.ok = FALSE]
    /\ UNCHANGED <<marker, root, key, binary, units, config, database, access, services, commands>>
ensureSecretKey ==
    /\ Step("key")
    /\ \/ key # 0 /\ UNCHANGED key
       \/ key = 0 /\ ~cmd.before.installed /\ key' = commands
    /\ Advance
    /\ UNCHANGED <<marker, root, tls, binary, units, config, database, access, services, commands>>

saveConfig(c) == config' = c /\ UNCHANGED <<marker, root, key, tls, binary, units>>

\* A configuration that is there keeps its address.
installConfig ==
    /\ Step("config") /\ Kind("install") /\ Advance
    /\ saveConfig(IF cmd.before.installed THEN config ELSE "public")
    /\ UNCHANGED <<database, access, services, commands>>
finishInstallation ==
    /\ \/ Step("restart") /\ StartServices /\ UNCHANGED marker
       \/ Step("finish") /\ marker' = FALSE /\ UNCHANGED <<services, database>>
    /\ Advance
    /\ UNCHANGED <<root, key, tls, binary, units, config, access, commands>>

WriteUnits ==
    /\ Step("units") /\ units' = cmd.to /\ Advance
    /\ UNCHANGED <<marker, root, key, tls, binary, config, database, access, services, commands>>

-----------------------------------------------------------------------------
\* Upgrade.  Until the binary is replaced a failure starts the services again.

reconcile == Step("reconcile") /\ Advance /\ UNCHANGED <<disk, database, access, services, commands>>

stopServices ==
    /\ Step("stop")
    /\ \/ /\ StopServices
          /\ cmd' = [cmd EXCEPT !.todo = Tail(@), !.undo = <<"restart old">>, !.at = Live]
       \/ /\ \/ StopServices
             \/ UNCHANGED <<services, database>>
             \/ panel' = 0 /\ listens' = "none" /\ UNCHANGED <<broker, database>>
          /\ cmd' = [cmd EXCEPT !.todo = <<"restart old">>, !.ok = FALSE, !.at = Live]
    /\ UNCHANGED <<disk, access, commands>>

checkpointSQLite ==
    /\ Step("checkpoint") /\ panel = 0 /\ Live # None
    /\ file' = Live /\ wal' = None /\ Advance
    /\ UNCHANGED <<disk, access, services, commands>>

copyFile == /\ Step("save") /\ cmd' = [cmd EXCEPT !.todo = Tail(@), !.saved = file]
            /\ UNCHANGED <<disk, database, access, services, commands>>

replaceFile ==
    /\ Step("replace") /\ binary' = cmd.to
    /\ cmd' = [cmd EXCEPT !.todo = Tail(@), !.undo = <<"rollback">>]
    /\ UNCHANGED <<marker, root, key, tls, units, config, database, access, services, commands>>

startServices ==
    /\ Step("start")
    /\ \/ StartServices /\ (Advance \/ Failing(<<>>))
       \/ Failing(<<>>) /\ UNCHANGED <<services, database>>
    /\ UNCHANGED <<disk, access, commands>>

waitForPanel == Step("ready") /\ Advance /\ UNCHANGED <<disk, database, access, services, commands>>

restartOld ==
    /\ Step("restart old")
    /\ \/ StartServices /\ Advance
       \/ Failing(<<>>) /\ UNCHANGED <<services, database>>
    /\ UNCHANGED <<disk, access, commands>>

\* Mutant of restoreState: the log of the new version stays beside the old database.
restoreFileOnly == file' = cmd.saved /\ UNCHANGED wal

\* The database is put back only when both services have stopped, without the log
\* that the new version has written.
restoreState == wal' = None /\ file' = cmd.saved

rollback ==
    /\ Step("rollback")
    /\ \/ /\ StopServices /\ cmd' = [cmd EXCEPT !.todo = <<"restore">>]
       \/ Failing(<<>>) /\ UNCHANGED <<services, database>>
    /\ UNCHANGED <<disk, access, commands>>

restore ==
    /\ Step("restore")
    /\ binary' \in {binary, cmd.before.binary} /\ units' \in {units, cmd.before.units}
    /\ file' \in {file, cmd.saved} /\ wal' \in {wal, None}
    /\ file' # file => wal' = None
    /\ \/ /\ restoreState /\ binary' = cmd.before.binary /\ units' = cmd.before.units
          /\ cmd' = [cmd EXCEPT !.todo = <<"restart old">>]
       \/ Failing(<<>>)
    /\ UNCHANGED <<marker, root, key, tls, config, access, services, commands>>

-----------------------------------------------------------------------------
\* Access.  The undo list ends with the proxy, which is changed before the others.

\* A valid proxy is loaded; an invalid one leaves the old one in Nginx.
Loaded(p, l) == IF l THEN p ELSE "none"

removePanelTailscale ==
    /\ Step("unroute")
    /\ route' = FALSE /\ AdvanceUndoing(IF route THEN <<"reroute">> ELSE <<>>)
    /\ UNCHANGED <<disk, database, proxy, link, nginx, services, commands>>

addRoute ==
    /\ Step("route")
    /\ route' = TRUE /\ AdvanceUndoing(IF route THEN <<>> ELSE <<"remove route">>)
    /\ UNCHANGED <<disk, database, proxy, link, nginx, services, commands>>

disableProxy ==
    /\ Step("unlink")
    /\ \/ ~link /\ Advance /\ UNCHANGED <<link, nginx>>
       \/ /\ link /\ link' = FALSE
          /\ \/ /\ nginx' = "none"
                /\ cmd' = [cmd EXCEPT !.todo = Tail(@), !.undo = @ \o <<"unproxy">>]
             \/ /\ UNCHANGED nginx
                /\ cmd' = [cmd EXCEPT !.todo = cmd.undo \o <<"unproxy">>, !.ok = FALSE]
    /\ UNCHANGED <<disk, database, proxy, route, services, commands>>

writeProxy(step, content) ==
    /\ Step(step) /\ proxy' = content /\ link' = TRUE
    /\ \/ /\ nginx' = content
          /\ cmd' = [cmd EXCEPT !.todo = Tail(@),
                        !.undo = IF step = "http" THEN @ \o <<"unproxy">> ELSE @]
       \/ /\ UNCHANGED nginx
          /\ cmd' = [cmd EXCEPT !.ok = FALSE,
                        !.todo = IF step = "http" THEN cmd.undo \o <<"unproxy">> ELSE cmd.undo]
    /\ UNCHANGED <<disk, database, route, services, commands>>

configureDomain == writeProxy("http", "http") \/ writeProxy("https", "https")

certbot == Step("certbot") /\ Advance /\ UNCHANGED <<disk, database, access, services, commands>>

accessConfig == /\ Step("config") /\ Kind("access") /\ AdvanceUndoing(<<"unconfig">>)
                /\ saveConfig(IF cmd.to = "public" THEN "public" ELSE "local")
                /\ UNCHANGED <<database, access, services, commands>>

restartPanel ==
    /\ Step("restart panel")
    /\ \/ /\ panel' = binary /\ listens' = config /\ wal' = Migrated(binary)
          /\ UNCHANGED <<file, broker>>
          /\ Advance \/ Failing(<<>>)
       \/ panel' \in {0, panel} /\ UNCHANGED <<database, broker>> /\ Failing(<<>>)
          /\ listens' = IF panel' = 0 THEN "none" ELSE listens
    /\ UNCHANGED <<disk, access, commands>>

restoreConfig ==
    /\ Step("unconfig")
    /\ \/ /\ saveConfig(cmd.before.address.config)
          /\ cmd' = [cmd EXCEPT !.todo = <<"restart panel">> \o Tail(@)]
       \/ Failing(<<>>) /\ UNCHANGED disk
    /\ UNCHANGED <<database, access, services, commands>>

restoreRoute ==
    /\ Step("reroute") \/ Step("remove route")
    /\ \/ route' = Step("reroute") /\ Advance
       \/ Failing(<<>>) /\ UNCHANGED route
    /\ UNCHANGED <<disk, database, proxy, link, nginx, services, commands>>

restoreProxy ==
    /\ Step("unproxy")
    /\ proxy' \in {proxy, cmd.before.address.proxy} /\ link' \in {FALSE, cmd.before.address.link}
    /\ \/ /\ proxy' = cmd.before.address.proxy /\ link' = cmd.before.address.link
          /\ nginx' = Loaded(proxy', link') /\ Advance
       \/ Failing(<<>>) /\ UNCHANGED nginx
    /\ UNCHANGED <<disk, database, route, services, commands>>

-----------------------------------------------------------------------------
Answer == /\ cmd # NoCommand /\ cmd.todo = <<>> /\ cmd' = NoCommand
          /\ UNCHANGED <<disk, database, access, services, commands>>

Killed == /\ cmd.todo # <<>> /\ cmd' = NoCommand
          /\ UNCHANGED <<disk, database, access, services, commands>>

\* After a boot the services that are installed run, and Nginx loads what is there.
Reboot ==
    /\ cmd = NoCommand /\ units # 0 /\ config # "none" /\ panel = 0
    /\ StartServices /\ nginx' = Loaded(proxy, link)
    /\ UNCHANGED <<disk, proxy, link, route, cmd, commands>>

HostInit ==
    /\ marker = FALSE /\ root = FALSE /\ key = 0 /\ tls = "none" /\ binary = 0 /\ units = 0
    /\ config = "none" /\ file = None /\ wal = None
    /\ proxy = "none" /\ link = FALSE /\ nginx = "none" /\ route = FALSE
    /\ broker = 0 /\ panel = 0 /\ listens = "none" /\ cmd = NoCommand /\ commands = 0

InstallStep == beginInstall \/ installPackages \/ installExecutable \/ ensurePanelCertificate
               \/ ensureSecretKey \/ installConfig \/ WriteUnits \/ finishInstallation
UpgradeStep == reconcile \/ stopServices \/ checkpointSQLite \/ copyFile \/ replaceFile
               \/ startServices \/ waitForPanel \/ restartOld \/ rollback \/ restore
AccessStep  == removePanelTailscale \/ addRoute \/ disableProxy \/ configureDomain \/ certbot
               \/ accessConfig \/ restartPanel \/ restoreConfig \/ restoreRoute \/ restoreProxy

HostNext == RunInstall \/ RunUpgrade \/ RunAccess \/ InstallStep \/ UpgradeStep \/ AccessStep
            \/ Fail \/ Answer \/ Killed \/ Reboot \/ WriteRow
HostSpec == HostInit /\ [][HostNext]_hostVars

-----------------------------------------------------------------------------
Reached(to) ==
    CASE to = "local"     -> listens = "local" /\ nginx = "none" /\ ~route
      [] to = "public"    -> listens = "public" /\ nginx = "none" /\ ~route
      [] to = "tailscale" -> listens = "local" /\ nginx = "none" /\ route
      [] to = "domain"    -> listens = "local" /\ nginx = "https" /\ ~route

\* What runs is what is on disk: no command was killed on the way.  A proxy whose link
\* is gone already is not taken out of Nginx by the next command.
Settled(a) == a.nginx = Loaded(a.proxy, a.link) /\ a.listens = a.config

\* The key that secrets are encrypted with is never replaced, and an installation
\* that was begun can always be resumed.
SecretsReadable == Live # None => key = Live.key /\ key # 0
Resumable       == /\ config # "none" => tls = "pair" /\ key # 0
                   /\ config = "none" => Live = None
                   /\ config # "none" /\ (~marker) => broker # 0 \/ units # 0

\* What a command answers holds: done, the new version runs on a database that has
\* lost nothing, or the panel is reached as asked and in no other way; failed, and
\* without a failure to undo, all is as it was before.
AnswersHold ==
    cmd # NoCommand /\ cmd.todo = <<>> /\ ~cmd.stuck =>
        CASE Kind("install") /\ cmd.ok -> ~marker /\ panel = binary /\ broker = binary
          [] Kind("upgrade") /\ cmd.ok ->
                /\ binary = cmd.to /\ units = cmd.to /\ panel = cmd.to /\ broker = cmd.to
                /\ Live.rows >= cmd.at.rows
          [] Kind("upgrade") /\ ~cmd.ok ->
                /\ binary = cmd.before.binary /\ units = cmd.before.units
                /\ cmd.at # None => Live.schema \in {cmd.at.schema, binary}
                /\ cmd.at # None => Live.rows >= cmd.at.rows
          [] Kind("access") /\ Settled(cmd.before.address) ->
                IF cmd.ok THEN Reached(cmd.to) ELSE Address = cmd.before.address
          [] OTHER -> TRUE

\* The three together: nothing the commands of root do, in whatever order and
\* however they end, loses the panel, its data or its secrets.
CommandsKeepThePanel == SecretsReadable /\ Resumable /\ AnswersHold
=============================================================================
