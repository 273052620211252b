------------------------------- MODULE Logins -------------------------------
(***************************************************************************)
(* Signing in to the panel with one account: passwords, the second factor, *)
(* recovery codes, login challenges and sessions.  Every store call is one *)
(* transaction on the single connection to SQLite; a request makes several *)
(* of them, and what it read in one it uses in the next while other        *)
(* requests of the same account run.                                       *)
(***************************************************************************)
EXTENDS Naturals, FiniteSets

CONSTANTS Requests,     \* requests that may be under way at once
          SessionTTL, ChallengeTTL,  \* lifetimes, in periods of the authenticator
          MaxClock, MaxTokens, MaxSecrets, MaxEpochs,  \* bounds
          CodesPerSet   \* recovery codes issued by one confirmation

LoginAssumption ==
    /\ {SessionTTL, ChallengeTTL, MaxClock, MaxTokens, MaxSecrets, MaxEpochs, CodesPerSet} \subseteq Nat
    /\ MaxClock >= 1   \* the clock starts at 1
    /\ IsFiniteSet(Requests)

VARIABLES
    password, disabled,      \* the account's row: its password's number, whether it is disabled,
    secret, pending, last,   \* the secrets (0 for none) and one more than the last period accepted
    codes,                   \* recovery codes not yet used: <<confirmation, number>>
    sessions, challenges,    \* the tables, as sets of records
    req,                     \* per request: where it is and what it read
    clock, tokens, secrets,  \* time, and how many tokens and secrets were made
    epoch,                   \* password changes and disablings so far
    confirmed, removed       \* history: confirmations so far, and how many of them there were
                             \* when the factor was last removed

account == <<password, disabled, secret, pending, last, codes>>
made    == <<clock, tokens, secrets, epoch, confirmed, removed>>
loginVars == <<account, sessions, challenges, req, made>>

Token == [id : 1..MaxTokens, expires : Nat]
Ops   == {"password", "begin", "confirm", "disable"}
Idle  == [at |-> "idle"]
\* What the authenticator or the list of recovery codes answers.
Codes == [kind : {"totp"}, secret : 1..MaxSecrets, period : 1..MaxClock + 2]
         \cup [kind : {"recovery"}, code : (1..MaxSecrets) \X (1..CodesPerSet)]
Request ==
    {Idle} \cup [at : {"authenticated"}, factor : BOOLEAN]
    \cup [at : {"challenged", "passed"}, token : 1..MaxTokens]
    \cup [at : {"verifying"}, token : 1..MaxTokens, secret : 1..MaxSecrets, last : 0..MaxClock + 2]
    \cup [at : {"dropped", "beginning"}]
    \cup [at : {"resolved"}, op : Ops, password : 0..MaxEpochs]
    \cup [at : {"authorised"}, op : {"password", "disable"}]
    \cup [at : {"checked"}, secret : 1..MaxSecrets]

LoginsTypeOK ==
    /\ password \in 0..MaxEpochs /\ disabled \in BOOLEAN
    /\ secret \in 0..MaxSecrets /\ pending \in 0..MaxSecrets /\ last \in 0..MaxClock + 2
    /\ codes \subseteq (1..MaxSecrets) \X (1..CodesPerSet)
    /\ sessions \subseteq Token /\ challenges \subseteq Token
    /\ req \in [Requests -> Request]
    /\ clock \in 1..MaxClock /\ tokens \in 0..MaxTokens /\ secrets \in 0..MaxSecrets
    /\ epoch \in 0..MaxEpochs /\ confirmed \in Nat /\ removed \in Nat

LoginsInit ==
    /\ password = 0 /\ disabled = FALSE /\ secret = 0 /\ pending = 0 /\ last = 0 /\ codes = {}
    /\ sessions = {} /\ challenges = {} /\ req = [r \in Requests |-> Idle]
    /\ clock = 1 /\ tokens = 0 /\ secrets = 0 /\ epoch = 0 /\ confirmed = 0 /\ removed = 0

-----------------------------------------------------------------------------
(***************************************************************************)
(* The calls of the store.                                                 *)
(***************************************************************************)
Goto(r, step) == req' = [req EXCEPT ![r] = step]

Authenticates(p) == ~disabled /\ p = password

NewToken(ttl) == [id |-> tokens + 1, expires |-> clock + ttl]
CreateSession ==
    /\ tokens < MaxTokens /\ tokens' = tokens + 1
    /\ sessions' = sessions \cup {NewToken(SessionTTL)}
CreateLoginChallenge ==
    /\ tokens < MaxTokens /\ tokens' = tokens + 1
    /\ challenges' = challenges \cup {NewToken(ChallengeTTL)}

SessionResolves(s)   == ~disabled /\ clock < s.expires
ChallengeResolves(c) == ~disabled /\ secret # 0 /\ clock < c.expires

\* validTOTPCounter: the code of this period or of one beside it.
ValidCode(k, s) == k.kind = "totp" /\ k.secret = s /\ k.period \in clock..clock + 2

\* Mutant of AcceptPeriod: the update does not look at the row again.
AcceptStalePeriod(r, k) ==
    /\ ValidCode(k, req[r].secret) /\ req[r].last < k.period
    /\ last' = k.period /\ UNCHANGED codes

\* The code's period has to be later than the last one, when it is read and
\* again when it is written.  A period n is kept as n + 1, so that 0 is before all.
AcceptPeriod(r, k) ==
    /\ ValidCode(k, req[r].secret) /\ req[r].last < k.period /\ last < k.period
    /\ last' = k.period /\ UNCHANGED codes

ConsumeRecoveryCode(k) ==
    /\ k.kind = "recovery" /\ k.code \in codes
    /\ codes' = codes \ {k.code} /\ UNCHANGED last

-----------------------------------------------------------------------------
(***************************************************************************)
(* Signing in.                                                             *)
(***************************************************************************)
Submit(r) ==
    /\ req[r] = Idle /\ \E p \in 0..password : Authenticates(p)
    /\ Goto(r, [at |-> "authenticated", factor |-> secret # 0])
    /\ UNCHANGED <<account, sessions, challenges, made>>

LoginSubmit(r) ==
    /\ req[r].at = "authenticated" /\ Goto(r, Idle)
    /\ \/ req[r].factor /\ CreateLoginChallenge /\ UNCHANGED sessions
       \/ ~req[r].factor /\ CreateSession /\ UNCHANGED challenges
    /\ UNCHANGED <<account, clock, secrets, epoch, confirmed, removed>>

ResolveLoginChallenge(r) ==
    /\ req[r] = Idle
    /\ \E c \in challenges :
          \/ ChallengeResolves(c) /\ Goto(r, [at |-> "challenged", token |-> c.id])
             /\ UNCHANGED challenges
          \/ ~disabled /\ secret # 0 /\ clock >= c.expires
             /\ challenges' = challenges \ {c} /\ UNCHANGED req
    /\ UNCHANGED <<account, sessions, made>>

ReadFactor(r) ==
    /\ req[r].at = "challenged"
    /\ IF secret = 0 THEN Goto(r, Idle)
       ELSE Goto(r, [at |-> "verifying", token |-> req[r].token, secret |-> secret, last |-> last])
    /\ UNCHANGED <<account, sessions, challenges, made>>

VerifySecondFactor(r) ==
    /\ req[r].at = "verifying"
    /\ \E k \in Codes :
          /\ AcceptPeriod(r, k) \/ ConsumeRecoveryCode(k)
          /\ Goto(r, [at |-> "passed", token |-> req[r].token])
    /\ UNCHANGED <<password, disabled, secret, pending, sessions, challenges, made>>

LoginTOTPSubmit(r) ==
    \/ /\ req[r].at = "passed" /\ Goto(r, [at |-> "dropped"])
       /\ challenges' = {c \in challenges : c.id # req[r].token}
       /\ UNCHANGED <<account, sessions, made>>
    \/ /\ req[r].at = "dropped" /\ Goto(r, Idle) /\ CreateSession
       /\ UNCHANGED <<account, challenges, clock, secrets, epoch, confirmed, removed>>

-----------------------------------------------------------------------------
(***************************************************************************)
(* Requests of a session.                                                  *)
(***************************************************************************)
ResolveSession(r) ==
    /\ req[r] = Idle
    /\ \E s \in sessions :
          \/ /\ SessionResolves(s) /\ UNCHANGED sessions
             /\ \E op \in Ops : Goto(r, [at |-> "resolved", op |-> op, password |-> password])
          \/ ~disabled /\ clock >= s.expires /\ sessions' = sessions \ {s} /\ UNCHANGED req
    /\ UNCHANGED <<account, challenges, made>>

\* Leaving does not ask whether the session is still good.
Logout(r) ==
    /\ req[r] = Idle
    /\ \E s \in sessions : sessions' = sessions \ {s}
    /\ UNCHANGED <<account, challenges, req, made>>

\* The forms that ask for the current password again.
AskPassword(r) ==
    /\ req[r].at = "resolved" /\ req[r].op \in {"password", "disable"}
    /\ Goto(r, IF Authenticates(req[r].password)
               THEN [at |-> "authorised", op |-> req[r].op] ELSE Idle)
    /\ UNCHANGED <<account, sessions, challenges, made>>

ChangePassword(r) ==
    /\ req[r].at = "authorised" /\ req[r].op = "password" /\ Goto(r, Idle)
    /\ ~disabled /\ epoch < MaxEpochs
    /\ password' = password + 1 /\ epoch' = epoch + 1
    /\ sessions' = {} /\ challenges' = {}
    /\ UNCHANGED <<disabled, secret, pending, last, codes, clock, tokens, secrets, confirmed, removed>>

BeginTOTPEnrollment(r) ==
    \/ /\ req[r].at = "resolved" /\ req[r].op = "begin"
       /\ Goto(r, IF secret = 0 THEN [at |-> "beginning"] ELSE Idle)
       /\ UNCHANGED <<account, sessions, challenges, made>>
    \/ /\ req[r].at = "beginning" /\ Goto(r, Idle)
       /\ secrets < MaxSecrets /\ secrets' = secrets + 1 /\ pending' = secrets + 1
       /\ UNCHANGED <<password, disabled, secret, last, codes, sessions, challenges,
                      clock, tokens, epoch, confirmed, removed>>

\* Mutant of ConfirmTOTPEnrollment: the codes of an earlier factor stay.
ConfirmKeepsCodes(r) ==
    \/ /\ req[r].at = "resolved" /\ req[r].op = "confirm"
       /\ Goto(r, IF pending = 0 THEN Idle ELSE [at |-> "checked", secret |-> pending])
       /\ UNCHANGED <<account, sessions, challenges, made>>
    \/ /\ req[r].at = "checked" /\ confirmed < MaxSecrets /\ Goto(r, Idle)
       /\ secret' = pending /\ pending' = 0 /\ last' = 0
       /\ confirmed' = confirmed + 1 /\ codes' = codes \cup ({confirmed + 1} \X (1..CodesPerSet))
       /\ UNCHANGED <<password, disabled, sessions, challenges, clock, tokens, secrets, epoch, removed>>

\* The code of a secret that is pending when it is read; what is pending when
\* it is written becomes the secret, and new recovery codes replace the old.
ConfirmTOTPEnrollment(r) ==
    \/ /\ req[r].at = "resolved" /\ req[r].op = "confirm"
       /\ Goto(r, IF pending = 0 THEN Idle ELSE [at |-> "checked", secret |-> pending])
       /\ UNCHANGED <<account, sessions, challenges, made>>
    \/ /\ req[r].at = "checked" /\ confirmed < MaxSecrets /\ Goto(r, Idle)
       /\ secret' = pending /\ pending' = 0 /\ last' = 0
       /\ confirmed' = confirmed + 1 /\ codes' = {confirmed + 1} \X (1..CodesPerSet)
       /\ UNCHANGED <<password, disabled, sessions, challenges, clock, tokens, secrets, epoch, removed>>

DisableTOTP(r) ==
    /\ req[r].at = "authorised" /\ req[r].op = "disable" /\ Goto(r, Idle)
    /\ secret # 0 /\ secret' = 0 /\ pending' = 0 /\ last' = 0
    /\ codes' = {} /\ challenges' = {} /\ removed' = confirmed
    /\ UNCHANGED <<password, disabled, sessions, clock, tokens, secrets, epoch, confirmed>>

\* Another user disables or enables the account.
SetUserDisabled ==
    \/ /\ disabled' = TRUE /\ epoch < MaxEpochs /\ epoch' = epoch + 1
       /\ sessions' = {} /\ challenges' = {}
       /\ UNCHANGED <<password, secret, pending, last, codes, req, clock, tokens, secrets, confirmed, removed>>
    \/ /\ disabled /\ disabled' = FALSE
       /\ UNCHANGED <<password, secret, pending, last, codes, sessions, challenges, req, made>>

\* The store refused, the browser left, or the panel was stopped.
GiveUp(r) ==
    /\ req[r] # Idle /\ Goto(r, Idle)
    /\ UNCHANGED <<account, sessions, challenges, made>>

Tick ==
    /\ clock < MaxClock /\ clock' = clock + 1
    /\ UNCHANGED <<account, sessions, challenges, req, tokens, secrets, epoch, confirmed, removed>>

LoginsNext ==
    \/ \E r \in Requests :
          \/ Submit(r) \/ LoginSubmit(r) \/ ResolveLoginChallenge(r) \/ ReadFactor(r)
          \/ VerifySecondFactor(r) \/ LoginTOTPSubmit(r) \/ ResolveSession(r) \/ Logout(r)
          \/ AskPassword(r) \/ ChangePassword(r) \/ BeginTOTPEnrollment(r)
          \/ ConfirmTOTPEnrollment(r) \/ DisableTOTP(r) \/ GiveUp(r)
    \/ SetUserDisabled \/ Tick

LoginsSpec == LoginsInit /\ [][LoginsNext]_loginVars

-----------------------------------------------------------------------------
(***************************************************************************)
(* Properties.                                                             *)
(***************************************************************************)
\* A login that passes the second factor has spent a period later than any
\* before it or a recovery code that was unused: two logins that verify at
\* the same moment do not pass with the same one.
EveryFactorIsSpent ==
    [][\A r \in Requests :
          req[r].at = "verifying" /\ req'[r].at = "passed" =>
             last' > last \/ Cardinality(codes') < Cardinality(codes)]_loginVars

\* Only the recovery codes shown at the last confirmation are accepted, and once
\* the factor was removed none until it is confirmed again, in whatever order
\* requests end.
OnlyLatestRecoveryCodes ==
    /\ codes \subseteq {confirmed} \X (1..CodesPerSet)
    /\ codes # {} => confirmed > removed
=============================================================================
