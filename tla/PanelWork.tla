------------------------------ MODULE PanelWork ------------------------------
(***************************************************************************)
(* The panel itself, in one instance for TLC: who gets into it, into a     *)
(* database or a site, what it tells its operator, and the commands that   *)
(* install, upgrade and expose it.  Each part keeps its state in variables *)
(* of its own and no step changes that of two, so how their steps          *)
(* interleave tells nothing: a behaviour is a behaviour of one part,       *)
(* chosen at the start, and the others stay put.                           *)
(***************************************************************************)
EXTENDS Naturals, FiniteSets, Sequences, TLC

CONSTANTS Requests, SessionTTL, ChallengeTTL, MaxClock, MaxTokens, MaxSecrets, MaxEpochs,
          CodesPerSet, Names, Sites, MaxUsers, MaxFlows,
          Openers, Lifetime, PruneAge, MaxTime, MaxSignOns, MaxInstalls,
          Channels, Trigger, Cooldown, MaxPhases,
          Versions, MaxCommands, MaxRows

VARIABLES part,
          password, disabled, secret, pending, last, codes, sessions, challenges, req, clock,
          tokens, secrets, epoch, confirmed, removed,
          users, grants, sites, asked, flows, started, targets,
          opener, visitor, files, made, told, opened, handler, now, admin, job, calls,
          installs, have,
          kind, on, sample, state, delivery, heard, outcome,
          marker, root, key, tls, binary, units, config, file, wal, proxy, link, nginx, route,
          broker, panel, listens, cmd, commands

logins  == <<password, disabled, secret, pending, last, codes, sessions, challenges, req, clock,
             tokens, secrets, epoch, confirmed, removed>>
people  == <<users, grants, sites, asked, flows, started, targets>>
signons == <<opener, visitor, files, made, told, opened, handler, now, admin, job, calls,
             installs, have>>
alerts  == <<kind, on, sample, state, delivery, heard, outcome>>
host    == <<marker, root, key, tls, binary, units, config, file, wal, proxy, link, nginx, route,
             broker, panel, listens, cmd, commands>>
vars    == <<part, logins, people, signons, alerts, host>>

L == INSTANCE Logins
U == INSTANCE PanelUsers WITH UserRequests <- Requests
S == INSTANCE SignOns WITH Visitors <- Requests
A == INSTANCE OperatorAlerts
H == INSTANCE PanelHost

ASSUME LoginAssumption      == L!LoginAssumption
ASSUME PanelUsersAssumption == U!PanelUsersAssumption
ASSUME SignOnAssumption     == S!SignOnAssumption
ASSUME AlertAssumption      == A!AlertAssumption
ASSUME HostAssumption       == H!HostAssumption

\* Of the alerts' initial states one will do for the other parts.
Init == /\ part \in {"logins", "users", "signons", "alerts", "host"}
        /\ L!LoginsInit /\ U!UsersInit /\ S!SignOnsInit /\ A!AlertsInit /\ H!HostInit
        /\ part # "alerts" => kind = "event" /\ on = {}

\* What is made along a behaviour is bounded together as well: three tokens with
\* one secret or two with two, three users or two and an authorization, two
\* sign-ons or two installations.  Names are numbers here: a user bears the name
\* of its id or the one name to spare.
Login  == /\ part = "logins"  /\ L!LoginsNext
          /\ UNCHANGED <<part, people, signons, alerts, host>>
          /\ tokens' + secrets' <= 4
User   == /\ part = "users"   /\ U!UsersNext
          /\ UNCHANGED <<part, logins, signons, alerts, host>>
          /\ Len(users') + started' <= 3
          /\ \A u \in DOMAIN users' : users'[u].name \in {u, MaxUsers + 1}
SignOn == /\ part = "signons" /\ S!SignOnsNext
          /\ UNCHANGED <<part, logins, people, alerts, host>>
          /\ made' > 1 => installs' < 2
Alert  == /\ part = "alerts"  /\ A!AlertsNext
          /\ UNCHANGED <<part, logins, people, signons, host>>
Host   == /\ part = "host"    /\ H!HostNext
          /\ UNCHANGED <<part, logins, people, signons, alerts>>

Next == Login \/ User \/ SignOn \/ Alert \/ Host
Spec == Init /\ [][Next]_vars

\* Requests are interchangeable.
Symmetry == Permutations(Requests)

\* The properties of the parts, stated and explained in their modules: who is
\* signed in,
EveryFactorIsSpent       == L!EveryFactorIsSpent
OnlyLatestRecoveryCodes  == L!OnlyLatestRecoveryCodes
\* what a user may do,
OneOwner                 == U!OneOwner
GrantsFollowRole         == U!GrantsFollowRole
AdministratorsAreApart   == U!AdministratorsAreApart
\* what opens a database or a site,
OpenedOnce               == S!OpenedOnce
InstalledIsServed        == S!InstalledIsServed
\* what its operator hears, and what is done to the panel.
AlertsAreHeard           == A!AlertsAreHeard
CommandsKeepThePanel     == H!CommandsKeepThePanel
=============================================================================
