----------------------------- MODULE PanelUsers -----------------------------
(***************************************************************************)
(* The users of the panel: the one owner, roles, the sites a collaborator  *)
(* or customer is given, and what a request may do.  A request carries the *)
(* user row its session resolved to; by the time it writes, the row of its *)
(* user or of its target may be another one.  An authorization for Google  *)
(* Drive leaves the panel and comes back as a request without a session.   *)
(***************************************************************************)
EXTENDS Naturals, FiniteSets, Sequences

CONSTANTS Names, Sites, UserRequests,
          MaxUsers, MaxFlows   \* bounds: users made, authorizations started

PanelUsersAssumption == MaxUsers \in Nat /\ MaxFlows \in Nat

VARIABLES users,    \* the table of users: [name, role, disabled], at the user's id
          grants,   \* site_grants: per user and site the capabilities given
          sites,    \* the sites there are
          asked,    \* per request: where it is, and the user row it carries
          flows,    \* oauth_flows: the authorizations under way, by number
          started,  \* how many were started
          targets   \* backup targets on Google Drive, by the authorization that made them

userVars == <<users, grants, sites, asked, flows, started, targets>>

-----------------------------------------------------------------------------
Roles == {"owner", "administrator", "collaborator", "customer"}
Shared == {"site.view", "site.backups", "site.logs", "site.wordpress_login"}
Hands  == Shared \cup {"site.deploy", "site.databases", "site.files", "site.dns", "site.tls",
                       "site.wordpress_manage"}
Server == Hands \cup {"server.manage", "users.manage", "sites.manage_all"}

Capabilities(role) ==
    CASE role = "owner"         -> Server \cup {"ownership.manage"}
      [] role = "administrator" -> Server
      [] role = "collaborator"  -> Hands
      [] OTHER                  -> Shared

Managers == {"owner", "administrator"}
Users    == 1..MaxUsers   \* their ids, given out in order and never again
Row      == [name : Names, role : Roles, disabled : BOOLEAN]
Actor    == [id : Users, name : Names, role : Roles]
Idle     == [at |-> "idle"]
Asking ==
    {Idle, [at |-> "setup"]} \cup [at : {"managing", "visiting"}, actor : Actor]
    \cup [at : {"renaming"}, actor : Actor, target : Users]
    \cup [at : {"exchanging"}, actor : Actor, flow : 1..MaxFlows]

UsersTypeOK ==
    /\ \A u \in DOMAIN users : users[u] \in Row
    /\ \A u \in Users : \A s \in Sites : grants[u][s] \subseteq Capabilities("owner")
    /\ sites \subseteq Sites
    /\ asked \in [UserRequests -> Asking]
    /\ flows \subseteq [number : 1..MaxFlows, user : Users]
    /\ started \in 0..MaxFlows /\ targets \subseteq 1..MaxFlows

Is(u)        == u \in DOMAIN users
RoleOf(u)    == users[u].role
OwnerExists  == \E u \in Users : Is(u) /\ RoleOf(u) = "owner"
NameFree(n, u) == \A v \in Users \ {u} : Is(v) => users[v].name # n

NoGrants == [s \in Sites |-> {}]
Granted(role, given) == [s \in Sites |-> IF s \in given THEN Capabilities(role) ELSE {}]

UsersInit ==
    /\ users = <<>>
    /\ grants = [u \in Users |-> NoGrants]
    /\ sites = Sites
    /\ asked = [r \in UserRequests |-> Idle]
    /\ flows = {} /\ started = 0 /\ targets = {}

InsertUser(role) ==
    /\ Len(users) < MaxUsers
    /\ \E n \in Names : /\ NameFree(n, 0)
                        /\ users' = Append(users, [name |-> n, role |-> role, disabled |-> FALSE])

Goto(r, step) == asked' = [asked EXCEPT ![r] = step]

-----------------------------------------------------------------------------
(***************************************************************************)
(* Setup.                                                                  *)
(***************************************************************************)
SetupSubmit(r) ==
    /\ asked[r] = Idle /\ ~OwnerExists /\ Goto(r, [at |-> "setup"])
    /\ UNCHANGED <<users, grants, sites, flows, started, targets>>

\* Mutant of CreateOwner: the transaction relies on the check before it.
CreateOwnerUnchecked(r) ==
    /\ asked[r].at = "setup" /\ Goto(r, Idle)
    /\ InsertUser("owner")
    /\ UNCHANGED <<grants, sites, flows, started, targets>>

CreateOwner(r) ==
    /\ asked[r].at = "setup" /\ Goto(r, Idle)
    /\ ~OwnerExists
    /\ InsertUser("owner")
    /\ UNCHANGED <<grants, sites, flows, started, targets>>

-----------------------------------------------------------------------------
(***************************************************************************)
(* Requests of a session: the row is read once, when the session resolves. *)
(***************************************************************************)
RequireSession(r) ==
    /\ asked[r] = Idle
    /\ \E u \in Users : /\ Is(u) /\ ~users[u].disabled
                        /\ \E at \in {"managing", "visiting"} :
                              /\ at = "managing" => RoleOf(u) \in Managers
                              /\ Goto(r, [at |-> at, actor |-> [id |-> u, name |-> users[u].name,
                                                                role |-> RoleOf(u)]])
    /\ UNCHANGED <<users, grants, sites, flows, started, targets>>

CreateUser(r) ==
    /\ asked[r].at = "managing" /\ Goto(r, Idle)
    /\ \E role \in Roles \ {"owner"}, given \in SUBSET Sites :
          /\ ~(asked[r].actor.role = "administrator" /\ role = "administrator")
          /\ role \in {"collaborator", "customer"} => given \subseteq sites
          /\ InsertUser(role)
          /\ grants' = [grants EXCEPT ![Len(users) + 1] = IF role \in {"collaborator", "customer"}
                                                       THEN Granted(role, given) ELSE NoGrants]
    /\ UNCHANGED <<sites, flows, started, targets>>

\* What the transaction asks of the row it is about to change.
MayChange(actor, u, role) ==
    /\ Is(u) /\ u # actor.id /\ RoleOf(u) # "owner"
    /\ actor.role = "administrator" => RoleOf(u) # "administrator" /\ role # "administrator"

\* Mutant of UpdateUserAccess: sites the user already has are not granted anew.
UpdateKeepsGrants(r) ==
    /\ asked[r].at = "managing" /\ Goto(r, Idle)
    /\ \E u \in Users, role \in Roles \ {"owner"}, given \in SUBSET Sites :
          /\ MayChange(asked[r].actor, u, role)
          /\ role = "administrator" \/ given \subseteq sites
          /\ users' = [users EXCEPT ![u].role = role]
          /\ grants' = [grants EXCEPT ![u] =
                [s \in Sites |-> IF s \in given /\ grants[u][s] # {} THEN grants[u][s]
                                 ELSE Granted(role, given)[s]]]
    /\ UNCHANGED <<sites, flows, started, targets>>

UpdateUserAccess(r) ==
    /\ asked[r].at = "managing" /\ Goto(r, Idle)
    /\ \E u \in Users, role \in Roles \ {"owner"}, given \in SUBSET Sites :
          /\ MayChange(asked[r].actor, u, role)
          /\ role = "administrator" \/ given \subseteq sites
          /\ users' = [users EXCEPT ![u].role = role]
          /\ grants' = [grants EXCEPT ![u] = IF role = "administrator" THEN NoGrants
                                             ELSE Granted(role, given)]
    /\ UNCHANGED <<sites, flows, started, targets>>

SetUserDisabled(r) ==
    /\ asked[r].at = "managing" /\ Goto(r, Idle)
    /\ \E u \in Users, disabled \in BOOLEAN :
          /\ MayChange(asked[r].actor, u, "customer")
          /\ users' = [users EXCEPT ![u].disabled = disabled]
    /\ UNCHANGED <<grants, sites, flows, started, targets>>

\* The page looks at the target and at the actor's password first.
RenameUser(r) ==
    /\ asked[r].at = "managing"
    /\ LET a == asked[r].actor IN
       \E u \in Users :
          /\ MayChange(a, u, "customer")
          /\ Is(a.id) /\ users[a.id].name = a.name /\ ~users[a.id].disabled
          /\ Goto(r, [at |-> "renaming", actor |-> a, target |-> u])
    /\ UNCHANGED <<users, grants, sites, flows, started, targets>>

\* Mutant of ChangeUsername: the target is not looked at again.
ChangeUsernameUnchecked(r) ==
    /\ asked[r].at = "renaming" /\ Goto(r, Idle)
    /\ \E n \in Names : /\ NameFree(n, asked[r].target)
                        /\ users' = [users EXCEPT ![asked[r].target].name = n]
    /\ UNCHANGED <<grants, sites, flows, started, targets>>

ChangeUsername(r) ==
    /\ \/ asked[r].at = "renaming"
       \/ asked[r].at = "visiting" /\ users[asked[r].actor.id].name = asked[r].actor.name
    /\ Goto(r, Idle)
    /\ LET a == asked[r].actor
           u == IF asked[r].at = "renaming" THEN asked[r].target ELSE a.id IN
       \E n \in Names :
          /\ u = a.id \/ MayChange(a, u, "customer")
          /\ NameFree(n, u) /\ users' = [users EXCEPT ![u].name = n]
    /\ UNCHANGED <<grants, sites, flows, started, targets>>

UserCanSite(actor, s, c) ==
    /\ c \in Capabilities(actor.role)
    /\ "sites.manage_all" \in Capabilities(actor.role) \/ c \in grants[actor.id][s]

AuthorizedSite(r) ==
    /\ asked[r].at = "visiting" /\ Goto(r, Idle)
    /\ \E s \in sites, c \in Hands : UserCanSite(asked[r].actor, s, c)
    /\ UNCHANGED <<users, grants, sites, flows, started, targets>>

\* A deleted site takes its grants along.
RemoveSite ==
    /\ \E s \in sites :
          /\ sites' = sites \ {s}
          /\ grants' = [u \in Users |-> [grants[u] EXCEPT ![s] = {}]]
    /\ UNCHANGED <<users, asked, flows, started, targets>>

-----------------------------------------------------------------------------
(***************************************************************************)
(* Google Drive.                                                           *)
(***************************************************************************)
CreateGoogleDriveOAuthFlow(r) ==
    /\ asked[r].at = "managing" /\ started < MaxFlows /\ Goto(r, Idle)
    /\ started' = started + 1
    /\ flows' = flows \cup {[number |-> started + 1, user |-> asked[r].actor.id]}
    /\ UNCHANGED <<users, grants, sites, targets>>

\* The state is spent whatever comes of it; the user's row is read again.
ConsumeGoogleDriveOAuthFlow(r) ==
    /\ asked[r] = Idle
    /\ \E f \in flows :
          /\ flows' = flows \ {f}
          /\ IF Is(f.user) /\ ~users[f.user].disabled /\ RoleOf(f.user) \in Managers
             THEN Goto(r, [at |-> "exchanging", flow |-> f.number,
                           actor |-> [id |-> f.user, name |-> users[f.user].name,
                                      role |-> RoleOf(f.user)]])
             ELSE UNCHANGED asked
    /\ UNCHANGED <<users, grants, sites, started, targets>>

GoogleDriveOAuthCallback(r) ==
    /\ asked[r].at = "exchanging" /\ Goto(r, Idle)
    /\ targets' = targets \cup {asked[r].flow}
    /\ UNCHANGED <<users, grants, sites, flows, started>>

ForgetFlow ==
    /\ \E f \in flows : flows' = flows \ {f}
    /\ UNCHANGED <<users, grants, sites, asked, started, targets>>

\* A refusal, an error, or the end of the request.
Refuse(r) ==
    /\ asked[r] # Idle /\ Goto(r, Idle)
    /\ UNCHANGED <<users, grants, sites, flows, started, targets>>

UsersNext ==
    \/ \E r \in UserRequests :
          \/ SetupSubmit(r) \/ CreateOwner(r) \/ RequireSession(r) \/ CreateUser(r)
          \/ UpdateUserAccess(r) \/ SetUserDisabled(r) \/ RenameUser(r) \/ ChangeUsername(r)
          \/ AuthorizedSite(r) \/ CreateGoogleDriveOAuthFlow(r)
          \/ ConsumeGoogleDriveOAuthFlow(r) \/ GoogleDriveOAuthCallback(r) \/ Refuse(r)
    \/ RemoveSite \/ ForgetFlow

UsersSpec == UsersInit /\ [][UsersNext]_userVars

-----------------------------------------------------------------------------
(***************************************************************************)
(* Properties.                                                             *)
(***************************************************************************)
\* Two setup pages submitted together make one owner, and nobody changes the
\* owner's role or disables the owner afterwards.
OneOwner ==
    /\ Cardinality({u \in Users : Is(u) /\ RoleOf(u) = "owner"}) <= 1
    /\ \A u \in Users : Is(u) /\ RoleOf(u) = "owner" => ~users[u].disabled

\* What a user was given follows the role through every change of it: on each
\* site all the capabilities of the present role or none, never what a role
\* before left behind, and none on a site that is gone.
GrantsFollowRole ==
    \A u \in Users, s \in Sites :
        grants[u][s] # {} => /\ s \in sites /\ Is(u) /\ RoleOf(u) \notin Managers
                             /\ grants[u][s] = Capabilities(RoleOf(u))

\* An administrator changes no owner and no other administrator, whatever
\* became of the target after the page was shown or of the administrator.
AdministratorsAreApart ==
    [][\A r \in UserRequests, u \in Users :
          /\ asked[r].at \in {"managing", "renaming"} /\ asked'[r] # asked[r]
          /\ Is(u) /\ users'[u] # users[u]
          => \/ asked[r].actor.role = "owner" /\ RoleOf(u) # "owner"
             \/ RoleOf(u) \notin Managers]_userVars
=============================================================================
