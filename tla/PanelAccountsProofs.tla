------------------------- MODULE PanelAccountsProofs -------------------------
(***************************************************************************)
(* Who gets into the panel and what a user may do there, for any number of *)
(* requests, users, sites, tokens and secrets: the safety properties of    *)
(* Logins and PanelUsers, as theorems of the panel's specification.        *)
(***************************************************************************)
EXTENDS PanelWork, TLAPS, FiniteSetTheorems

\* A step of the panel is a step of its logins, or leaves them alone.
LEMMA LoginsStep ==
  ASSUME [Next]_vars
  PROVE  [L!LoginsNext]_L!loginVars
  <1>1. CASE Login
    BY <1>1 DEF Login
  <1>2. CASE User \/ SignOn \/ Alert \/ Host \/ UNCHANGED vars
    BY <1>2 DEF User, SignOn, Alert, Host, vars, logins, L!loginVars, L!account, L!made
  <1> QED BY <1>1, <1>2 DEF Next

\* The panel's specification implements that of its logins.
THEOREM LoginsAreRefined == Spec => L!LoginsSpec
  <1>1. Init => L!LoginsInit
    BY DEF Init
  <1>2. [Next]_vars => [L!LoginsNext]_L!loginVars
    BY LoginsStep
  <1> QED BY <1>1, <1>2, PTL DEF Spec, L!LoginsSpec

-----------------------------------------------------------------------------
(***************************************************************************)
(* Logins.  A password's number never passes that of the changes made, so  *)
(* the types are kept; the codes are inductive beside them.                *)
(***************************************************************************)
LoginsInv ==
    /\ L!LoginsTypeOK
    /\ password <= epoch
    /\ removed <= confirmed
    /\ OnlyLatestRecoveryCodes

\* The bounds, one by one, and what is in range to begin with.
LEMMA LoginBounds ==
  /\ SessionTTL \in Nat /\ ChallengeTTL \in Nat /\ MaxClock \in Nat /\ MaxTokens \in Nat
  /\ MaxSecrets \in Nat /\ MaxEpochs \in Nat /\ CodesPerSet \in Nat
  /\ 1 \in 1..MaxClock
  /\ 0 \in 0..MaxEpochs /\ 0 \in 0..MaxSecrets /\ 0 \in 0..MaxTokens /\ 0 \in 0..MaxClock + 2
  <1>1. {SessionTTL, ChallengeTTL, MaxClock, MaxTokens, MaxSecrets, MaxEpochs, CodesPerSet} \subseteq Nat
        /\ MaxClock >= 1
    BY LoginAssumption DEF L!LoginAssumption
  <1> QED BY <1>1

LEMMA LoginsBegin == ASSUME L!LoginsInit PROVE LoginsInv
  <1> USE LoginBounds DEF L!LoginsInit
  <1>1. req \in [Requests -> L!Request]
    BY DEF L!Request, L!Idle
  <1>2. L!LoginsTypeOK
    BY <1>1 DEF L!LoginsTypeOK
  <1>3. OnlyLatestRecoveryCodes /\ password <= epoch /\ removed <= confirmed
    BY DEF OnlyLatestRecoveryCodes, L!OnlyLatestRecoveryCodes
  <1> QED BY <1>2, <1>3 DEF LoginsInv

\* A request that goes on to where requests go keeps the table of requests.
LEMMA GotoTyped ==
  ASSUME req \in [Requests -> L!Request], NEW r \in Requests, NEW step \in L!Request,
         L!Goto(r, step)
  PROVE  req' \in [Requests -> L!Request]
  BY DEF L!Goto

\* Every place a request may be at.
LEMMA RequestPlaces ==
  /\ L!Idle \in L!Request
  /\ \A f \in BOOLEAN : [at |-> "authenticated", factor |-> f] \in L!Request
  /\ \A t \in 1..MaxTokens : /\ [at |-> "challenged", token |-> t] \in L!Request
                             /\ [at |-> "passed", token |-> t] \in L!Request
  /\ \A t \in 1..MaxTokens, z \in 1..MaxSecrets, n \in 0..MaxClock + 2 :
        [at |-> "verifying", token |-> t, secret |-> z, last |-> n] \in L!Request
  /\ [at |-> "dropped"] \in L!Request /\ [at |-> "beginning"] \in L!Request
  /\ \A o \in L!Ops, n \in 0..MaxEpochs :
        [at |-> "resolved", op |-> o, password |-> n] \in L!Request
  /\ \A o \in {"password", "disable"} : [at |-> "authorised", op |-> o] \in L!Request
  /\ \A z \in 1..MaxSecrets : [at |-> "checked", secret |-> z] \in L!Request
  BY DEF L!Request, L!Idle

\* What a request carries where it is.
LEMMA RequestCarries ==
  ASSUME NEW q \in L!Request
  PROVE  /\ q.at = "authenticated" => q.factor \in BOOLEAN
         /\ q.at \in {"challenged", "passed", "verifying"} => q.token \in 1..MaxTokens
         /\ q.at = "verifying" => q.secret \in 1..MaxSecrets /\ q.last \in 0..MaxClock + 2
         /\ q.at = "resolved" => q.op \in L!Ops /\ q.password \in 0..MaxEpochs
         /\ q.at = "authorised" => q.op \in {"password", "disable"}
         /\ q.at = "checked" => q.secret \in 1..MaxSecrets
  BY DEF L!Request, L!Idle

\* Every step keeps the types, and no password is numbered beyond the changes.
LEMMA LoginTypesKept ==
  ASSUME L!LoginsTypeOK, password <= epoch, [L!LoginsNext]_L!loginVars
  PROVE  L!LoginsTypeOK' /\ password' <= epoch'
  <1> USE LoginBounds
  <1> DEFINE TableOK == req' \in [Requests -> L!Request]
             RowsOK  == /\ password' \in 0..MaxEpochs /\ disabled' \in BOOLEAN
                        /\ secret' \in 0..MaxSecrets /\ pending' \in 0..MaxSecrets
                        /\ last' \in 0..MaxClock + 2
                        /\ codes' \subseteq (1..MaxSecrets) \X (1..CodesPerSet)
             MadeOK  == /\ clock' \in 1..MaxClock /\ tokens' \in 0..MaxTokens
                        /\ secrets' \in 0..MaxSecrets /\ epoch' \in 0..MaxEpochs
                        /\ confirmed' \in Nat /\ removed' \in Nat /\ password' <= epoch'
             KeptOK  == sessions' \subseteq L!Token /\ challenges' \subseteq L!Token
  <1> SUFFICES TableOK /\ RowsOK /\ MadeOK /\ KeptOK
    BY DEF L!LoginsTypeOK
  <1>0. ASSUME NEW ttl \in {SessionTTL, ChallengeTTL}, tokens < MaxTokens
        PROVE  /\ L!NewToken(ttl) \in L!Token /\ tokens + 1 \in 0..MaxTokens
    BY <1>0 DEF L!NewToken, L!Token, L!LoginsTypeOK
  <1>1. ASSUME NEW r \in Requests, L!Submit(r) PROVE TableOK /\ RowsOK /\ MadeOK /\ KeptOK
    <2>1. TableOK
      BY <1>1, GotoTyped, RequestPlaces DEF L!Submit, L!LoginsTypeOK
    <2> HIDE DEF TableOK
    <2> QED BY <1>1, <2>1 DEF L!Submit, L!LoginsTypeOK, L!account, L!made
  <1>2. ASSUME NEW r \in Requests, L!LoginSubmit(r) PROVE TableOK /\ RowsOK /\ MadeOK /\ KeptOK
    <2>1. TableOK
      BY <1>2, GotoTyped, RequestPlaces DEF L!LoginSubmit, L!LoginsTypeOK
    <2> HIDE DEF TableOK
    <2> QED BY <1>0, <1>2, <2>1 DEF L!LoginSubmit, L!CreateSession, L!CreateLoginChallenge,
                                    L!LoginsTypeOK, L!account
  <1>3. ASSUME NEW r \in Requests, L!ResolveLoginChallenge(r) PROVE TableOK /\ RowsOK /\ MadeOK /\ KeptOK
    <2>1. TableOK
      BY <1>3, GotoTyped, RequestPlaces DEF L!ResolveLoginChallenge, L!Token, L!LoginsTypeOK
    <2> HIDE DEF TableOK
    <2> QED BY <1>3, <2>1 DEF L!ResolveLoginChallenge, L!LoginsTypeOK, L!account, L!made
  <1>4. ASSUME NEW r \in Requests, L!ReadFactor(r) PROVE TableOK /\ RowsOK /\ MadeOK /\ KeptOK
    <2>1. TableOK
      BY <1>4, GotoTyped, RequestPlaces, RequestCarries DEF L!ReadFactor, L!LoginsTypeOK
    <2> HIDE DEF TableOK
    <2> QED BY <1>4, <2>1 DEF L!ReadFactor, L!LoginsTypeOK, L!account, L!made
  <1>5. ASSUME NEW r \in Requests, L!VerifySecondFactor(r) PROVE TableOK /\ RowsOK /\ MadeOK /\ KeptOK
    <2>1. TableOK
      BY <1>5, GotoTyped, RequestPlaces, RequestCarries DEF L!VerifySecondFactor, L!LoginsTypeOK
    <2> HIDE DEF TableOK
    <2> QED BY <1>5, <2>1 DEF L!VerifySecondFactor, L!AcceptPeriod, L!ConsumeRecoveryCode, L!ValidCode, L!LoginsTypeOK, L!account, L!made
  <1>6. ASSUME NEW r \in Requests, L!LoginTOTPSubmit(r) PROVE TableOK /\ RowsOK /\ MadeOK /\ KeptOK
    <2>1. TableOK
      BY <1>6, GotoTyped, RequestPlaces DEF L!LoginTOTPSubmit, L!LoginsTypeOK
    <2> HIDE DEF TableOK
    <2> QED BY <1>0, <1>6, <2>1 DEF L!LoginTOTPSubmit, L!CreateSession, L!LoginsTypeOK, L!account, L!made
  <1>7. ASSUME NEW r \in Requests, L!ResolveSession(r) PROVE TableOK /\ RowsOK /\ MadeOK /\ KeptOK
    <2>1. TableOK
      BY <1>7, GotoTyped, RequestPlaces DEF L!ResolveSession, L!LoginsTypeOK
    <2> HIDE DEF TableOK
    <2> QED BY <1>7, <2>1 DEF L!ResolveSession, L!LoginsTypeOK, L!account, L!made
  <1>8. ASSUME NEW r \in Requests, L!Logout(r) PROVE TableOK /\ RowsOK /\ MadeOK /\ KeptOK
    <2>1. TableOK
      BY <1>8, GotoTyped, RequestPlaces DEF L!Logout, L!LoginsTypeOK
    <2> HIDE DEF TableOK
    <2> QED BY <1>8, <2>1 DEF L!Logout, L!LoginsTypeOK, L!account, L!made
  <1>9. ASSUME NEW r \in Requests, L!AskPassword(r) PROVE TableOK /\ RowsOK /\ MadeOK /\ KeptOK
    <2>1. TableOK
      BY <1>9, GotoTyped, RequestPlaces, RequestCarries DEF L!AskPassword, L!LoginsTypeOK
    <2> HIDE DEF TableOK
    <2> QED BY <1>9, <2>1 DEF L!AskPassword, L!LoginsTypeOK, L!account, L!made
  <1>10. ASSUME NEW r \in Requests, L!ChangePassword(r) PROVE TableOK /\ RowsOK /\ MadeOK /\ KeptOK
    <2>1. TableOK
      BY <1>10, GotoTyped, RequestPlaces DEF L!ChangePassword, L!LoginsTypeOK
    <2> HIDE DEF TableOK
    <2> QED BY <1>10, <2>1 DEF L!ChangePassword, L!LoginsTypeOK, L!account, L!made
  <1>11. ASSUME NEW r \in Requests, L!BeginTOTPEnrollment(r) PROVE TableOK /\ RowsOK /\ MadeOK /\ KeptOK
    <2>1. TableOK
      BY <1>11, GotoTyped, RequestPlaces DEF L!BeginTOTPEnrollment, L!LoginsTypeOK
    <2> HIDE DEF TableOK
    <2> QED BY <1>11, <2>1 DEF L!BeginTOTPEnrollment, L!LoginsTypeOK, L!account, L!made
  <1>12. ASSUME NEW r \in Requests, L!ConfirmTOTPEnrollment(r) PROVE TableOK /\ RowsOK /\ MadeOK /\ KeptOK
    <2>1. TableOK
      BY <1>12, GotoTyped, RequestPlaces, RequestCarries DEF L!ConfirmTOTPEnrollment, L!LoginsTypeOK
    <2> HIDE DEF TableOK
    <2> QED BY <1>12, <2>1 DEF L!ConfirmTOTPEnrollment, L!LoginsTypeOK, L!account, L!made
  <1>13. ASSUME NEW r \in Requests, L!DisableTOTP(r) PROVE TableOK /\ RowsOK /\ MadeOK /\ KeptOK
    <2>1. TableOK
      BY <1>13, GotoTyped, RequestPlaces DEF L!DisableTOTP, L!LoginsTypeOK
    <2> HIDE DEF TableOK
    <2> QED BY <1>13, <2>1 DEF L!DisableTOTP, L!LoginsTypeOK, L!account, L!made
  <1>14. ASSUME NEW r \in Requests, L!GiveUp(r) PROVE TableOK /\ RowsOK /\ MadeOK /\ KeptOK
    <2>1. TableOK
      BY <1>14, GotoTyped, RequestPlaces DEF L!GiveUp, L!LoginsTypeOK
    <2> HIDE DEF TableOK
    <2> QED BY <1>14, <2>1 DEF L!GiveUp, L!LoginsTypeOK, L!account, L!made
  <1>15. CASE L!SetUserDisabled
    <2>1. disabled' \in BOOLEAN
      BY <1>15, Zenon DEF L!SetUserDisabled
    <2>2. /\ epoch' \in 0..MaxEpochs /\ password' <= epoch' /\ UNCHANGED <<req, password>>
          /\ sessions' \subseteq L!Token /\ challenges' \subseteq L!Token
          /\ UNCHANGED <<secret, pending, last, codes, clock, tokens, secrets, confirmed, removed>>
      BY <1>15 DEF L!SetUserDisabled, L!LoginsTypeOK, L!made
    <2> QED BY <2>1, <2>2 DEF L!LoginsTypeOK
  <1>16. CASE L!Tick
    BY <1>16 DEF L!Tick, L!LoginsTypeOK, L!account
  <1>17. CASE UNCHANGED L!loginVars
    BY <1>17 DEF L!loginVars, L!LoginsTypeOK, L!account, L!made
  <1> HIDE DEF TableOK, RowsOK, MadeOK, KeptOK
  <1> QED BY <1>1, <1>2, <1>3, <1>4, <1>5, <1>6, <1>7, <1>8, <1>9, <1>10, <1>11, <1>12, <1>13, <1>14,
             <1>15, <1>16, <1>17 DEF L!LoginsNext

\* Codes are only those of the last confirmation, or fewer.
LEMMA LoginSafetyKept ==
  ASSUME LoginsInv, [L!LoginsNext]_L!loginVars
  PROVE  OnlyLatestRecoveryCodes' /\ removed' <= confirmed'
  <1> USE DEF LoginsInv, OnlyLatestRecoveryCodes, L!OnlyLatestRecoveryCodes, L!LoginsTypeOK
  <1>1. ASSUME NEW r \in Requests,
               \/ L!Submit(r) \/ L!ResolveLoginChallenge(r) \/ L!ReadFactor(r) \/ L!ResolveSession(r)
               \/ L!Logout(r) \/ L!AskPassword(r) \/ L!BeginTOTPEnrollment(r) \/ L!GiveUp(r)
        PROVE  OnlyLatestRecoveryCodes' /\ removed' <= confirmed'
    BY <1>1 DEF L!Submit, L!ResolveLoginChallenge, L!ReadFactor, L!ResolveSession, L!Logout,
                L!AskPassword, L!BeginTOTPEnrollment, L!GiveUp, L!account, L!made
  <1>2. ASSUME NEW r \in Requests, L!LoginSubmit(r) \/ L!LoginTOTPSubmit(r)
        PROVE  OnlyLatestRecoveryCodes' /\ removed' <= confirmed'
    BY <1>2 DEF L!LoginSubmit, L!LoginTOTPSubmit, L!CreateSession, L!CreateLoginChallenge,
                L!NewToken, L!account, L!made
  <1>3. ASSUME NEW r \in Requests, L!VerifySecondFactor(r)
        PROVE  OnlyLatestRecoveryCodes' /\ removed' <= confirmed'
    BY <1>3 DEF L!VerifySecondFactor, L!AcceptPeriod, L!ConsumeRecoveryCode, L!made
  <1>4. ASSUME NEW r \in Requests, L!ChangePassword(r) \/ L!DisableTOTP(r)
        PROVE  OnlyLatestRecoveryCodes' /\ removed' <= confirmed'
    BY <1>4 DEF L!ChangePassword, L!DisableTOTP
  <1>5. ASSUME NEW r \in Requests, L!ConfirmTOTPEnrollment(r)
        PROVE  OnlyLatestRecoveryCodes' /\ removed' <= confirmed'
    BY <1>5 DEF L!ConfirmTOTPEnrollment, L!account, L!made
  <1>6. CASE L!SetUserDisabled \/ L!Tick \/ UNCHANGED L!loginVars
    BY <1>6 DEF L!SetUserDisabled, L!Tick, L!loginVars, L!account, L!made
  <1> QED BY <1>1, <1>2, <1>3, <1>4, <1>5, <1>6 DEF L!LoginsNext

\* The invariant of the logins holds throughout.
LEMMA LoginsAreTracked == Spec => []LoginsInv
  <1>1. Init => LoginsInv
    BY LoginsBegin DEF Init
  <1>2. LoginsInv /\ [Next]_vars => LoginsInv'
    BY LoginsStep, LoginTypesKept, LoginSafetyKept DEF LoginsInv
  <1> QED BY <1>1, <1>2, PTL DEF Spec

\* The columns and records of the login tables keep their types.
THEOREM LoginTypesCorrect == Spec => []L!LoginsTypeOK
  <1>1. LoginsInv => L!LoginsTypeOK
    BY DEF LoginsInv
  <1> QED BY LoginsAreTracked, <1>1, PTL

\* Only the recovery codes of the last confirmation are ever accepted, and once the
\* factor was removed none until it is confirmed again (Store.ConfirmTOTPEnrollment,
\* Store.DisableTOTP, consumeRecoveryCode).
THEOREM OnlyTheLatestCodesWork == Spec => []OnlyLatestRecoveryCodes
  <1>1. LoginsInv => OnlyLatestRecoveryCodes
    BY DEF LoginsInv
  <1> QED BY LoginsAreTracked, <1>1, PTL

\* A step that lets a request past the second factor is its own verification.
LEMMA OnlyVerifiedPass ==
  ASSUME LoginsInv, [L!LoginsNext]_L!loginVars, NEW r \in Requests,
         req[r].at = "verifying", req'[r].at = "passed"
  PROVE  L!VerifySecondFactor(r)
  <1>1. req \in [Requests -> L!Request]
    BY DEF LoginsInv, L!LoginsTypeOK
  <1>2. ASSUME NEW q \in Requests, NEW step, L!Goto(q, step) PROVE q = r /\ step.at = "passed"
    BY <1>1, <1>2 DEF L!Goto
  <1>3. ASSUME NEW q \in Requests,
               \/ L!Submit(q) \/ L!LoginSubmit(q) \/ L!ReadFactor(q) \/ L!LoginTOTPSubmit(q)
               \/ L!AskPassword(q) \/ L!ChangePassword(q) \/ L!BeginTOTPEnrollment(q)
               \/ L!ConfirmTOTPEnrollment(q) \/ L!DisableTOTP(q) \/ L!GiveUp(q)
        PROVE  FALSE
    BY <1>2, <1>3 DEF L!Submit, L!LoginSubmit, L!ReadFactor, L!LoginTOTPSubmit, L!AskPassword,
         L!ChangePassword, L!BeginTOTPEnrollment, L!ConfirmTOTPEnrollment, L!DisableTOTP,
         L!GiveUp, L!Idle
  <1>4. ASSUME NEW q \in Requests, L!ResolveLoginChallenge(q) \/ L!ResolveSession(q) \/ L!Logout(q)
        PROVE  FALSE
    <2>1. req' # req
      OBVIOUS
    <2>2. CASE L!ResolveLoginChallenge(q)
      <3>1. PICK c \in challenges : L!Goto(q, [at |-> "challenged", token |-> c.id])
        BY <2>1, <2>2 DEF L!ResolveLoginChallenge
      <3> QED BY <1>2, <3>1
    <2>3. CASE L!ResolveSession(q)
      <3>1. PICK op \in L!Ops : L!Goto(q, [at |-> "resolved", op |-> op, password |-> password])
        BY <2>1, <2>3 DEF L!ResolveSession
      <3> QED BY <1>2, <3>1
    <2>4. CASE L!Logout(q)
      BY <2>1, <2>4 DEF L!Logout
    <2> QED BY <1>4, <2>2, <2>3, <2>4
  <1>5. CASE L!SetUserDisabled \/ L!Tick \/ UNCHANGED L!loginVars
    BY <1>5 DEF L!SetUserDisabled, L!Tick, L!loginVars
  <1>6. ASSUME NEW q \in Requests, L!VerifySecondFactor(q) PROVE q = r
    BY <1>2, <1>6 DEF L!VerifySecondFactor
  <1> QED BY <1>3, <1>4, <1>5, <1>6 DEF L!LoginsNext

\* The module of the logins counts as this one does.
LEMMA SameCardinality == \A T : L!Cardinality(T) = Cardinality(T)
  BY DEF L!Cardinality, Cardinality

\* A login that passes the second factor has spent a later period than any before
\* it, or an unused recovery code: of two that verify at once with the same one,
\* one fails (Store.VerifySecondFactor, consumeRecoveryCode).
THEOREM EveryFactorIsReallySpent == Spec => EveryFactorIsSpent
  <1> DEFINE Spent == \A r \in Requests :
                 req[r].at = "verifying" /\ req'[r].at = "passed" =>
                    last' > last \/ L!Cardinality(codes') < L!Cardinality(codes)
  <1>1. LoginsInv /\ [Next]_vars => [Spent]_L!loginVars
    <2> SUFFICES ASSUME LoginsInv, [Next]_vars, NEW r \in Requests,
                        req[r].at = "verifying", req'[r].at = "passed"
                 PROVE  last' > last \/ Cardinality(codes') < Cardinality(codes)
      BY SameCardinality
    <2>1. L!VerifySecondFactor(r)
      BY LoginsStep, OnlyVerifiedPass
    <2>2. PICK k \in L!Codes : L!AcceptPeriod(r, k) \/ L!ConsumeRecoveryCode(k)
      BY <2>1 DEF L!VerifySecondFactor
    <2>3. CASE L!AcceptPeriod(r, k)
      <3>1. k.kind = "totp" /\ last < k.period /\ last' = k.period
        BY <2>3 DEF L!AcceptPeriod, L!ValidCode
      <3>2. k.period \in Int /\ last \in Int
        BY <2>2, <3>1, LoginBounds DEF L!Codes, LoginsInv, L!LoginsTypeOK
      <3> QED BY <3>1, <3>2
    <2>4. CASE L!ConsumeRecoveryCode(k)
      <3>1. k.code \in codes /\ codes' = codes \ {k.code}
        BY <2>4 DEF L!ConsumeRecoveryCode
      <3>2. IsFiniteSet(codes)
        <4>1. IsFiniteSet({confirmed} \X (1..CodesPerSet))
          <5>1. IsFiniteSet({confirmed})
            BY FS_Singleton
          <5>2. IsFiniteSet(1..CodesPerSet)
            <6>1. 1 \in Int /\ CodesPerSet \in Int
              BY LoginBounds
            <6> QED BY <6>1, FS_Interval
          <5> QED BY <5>1, <5>2, FS_Product
        <4>2. codes \subseteq {confirmed} \X (1..CodesPerSet)
          BY DEF LoginsInv, OnlyLatestRecoveryCodes, L!OnlyLatestRecoveryCodes
        <4> QED BY <4>1, <4>2, FS_Subset
      <3>3. Cardinality(codes') = Cardinality(codes) - 1 /\ Cardinality(codes) \in Nat
        <4>1. Cardinality(codes \ {k.code}) = Cardinality(codes) - 1
          BY <3>1, <3>2, FS_RemoveElement
        <4> QED BY <3>1, <3>2, <4>1, FS_CardinalityType
      <3> QED BY <3>3
    <2> QED BY <2>2, <2>3, <2>4
  <1> QED BY LoginsAreTracked, <1>1, PTL DEF Spec, EveryFactorIsSpent, L!EveryFactorIsSpent

-----------------------------------------------------------------------------
(***************************************************************************)
(* Users.  The rows are a sequence that only grows; a request that manages *)
(* carries a manager, and one that renames a user does not rename its own. *)
(***************************************************************************)
GrantTable == [U!Users -> [Sites -> SUBSET U!Capabilities("owner")]]
IsOwner(u) == u \in U!Users /\ U!Is(u) /\ U!RoleOf(u) = "owner"

UserRows     == /\ users \in Seq(U!Row) /\ Len(users) <= MaxUsers
                /\ grants \in GrantTable /\ sites \subseteq Sites
UserRequests == \A r \in Requests :
    LET q == asked[r] IN
    /\ q.at \in {"managing", "renaming"} => q.actor.role \in U!Managers
    /\ q.at = "renaming" => q.target # q.actor.id
OwnersAgree  == \A u, v \in U!Users : IsOwner(u) /\ IsOwner(v) => u = v
OwnersEnter  == \A u \in U!Users : IsOwner(u) => ~users[u].disabled

UsersInv == /\ U!UsersTypeOK /\ UserRows /\ UserRequests
            /\ OwnersAgree /\ OwnersEnter /\ GrantsFollowRole

\* A step of the panel is a step of its users, or leaves them alone.
LEMMA UsersStep ==
  ASSUME [Next]_vars
  PROVE  [U!UsersNext]_U!userVars
  <1>1. CASE User
    BY <1>1 DEF User
  <1>2. CASE Login \/ SignOn \/ Alert \/ Host \/ UNCHANGED vars
    BY <1>2 DEF Login, SignOn, Alert, Host, vars, people, U!userVars
  <1> QED BY <1>1, <1>2 DEF Next

\* The panel's specification implements that of its users.
THEOREM UsersAreRefined == Spec => U!UsersSpec
  <1>1. Init => U!UsersInit
    BY DEF Init
  <1>2. [Next]_vars => [U!UsersNext]_U!userVars
    BY UsersStep
  <1> QED BY <1>1, <1>2, PTL DEF Spec, U!UsersSpec

\* The ids and the capabilities there are.
LEMMA UserBasics ==
  /\ MaxUsers \in Nat /\ MaxFlows \in Nat
  /\ U!Users = 1..MaxUsers
  /\ \A role \in U!Roles : U!Capabilities(role) \subseteq U!Capabilities("owner")
  /\ U!Managers \subseteq U!Roles
  BY PanelUsersAssumption DEF U!PanelUsersAssumption, U!Users, U!Roles, U!Capabilities,
     U!Server, U!Hands, U!Shared, U!Managers

LEMMA UsersBegin == ASSUME U!UsersInit PROVE UsersInv
  <1> USE UserBasics DEF U!UsersInit
  <1>1. asked \in [Requests -> U!Asking]
    BY DEF U!Asking, U!Idle
  <1>2. UserRows
    BY DEF UserRows, GrantTable, U!NoGrants
  <1>3. U!UsersTypeOK
    BY <1>1 DEF U!UsersTypeOK, U!NoGrants
  <1>4. UserRequests /\ OwnersAgree /\ OwnersEnter
    BY DEF UserRequests, OwnersAgree, OwnersEnter, IsOwner, U!Is, U!Idle
  <1>5. GrantsFollowRole
    BY DEF GrantsFollowRole, U!GrantsFollowRole, U!NoGrants
  <1> QED BY <1>2, <1>3, <1>4, <1>5 DEF UsersInv

\* What a new row changes: there is one more, and the others are as they were.
LEMMA RowInserted ==
  ASSUME UserRows, NEW role \in U!Roles, U!InsertUser(role)
  PROVE  /\ users' \in Seq(U!Row) /\ Len(users') <= MaxUsers /\ Len(users) + 1 \in U!Users
         /\ \A u \in U!Users : U!Is(u) => U!Is(u)' /\ users'[u] = users[u]
         /\ \A u \in U!Users : U!Is(u)' /\ ~U!Is(u) => u = Len(users) + 1
         /\ users'[Len(users) + 1].role = role /\ users'[Len(users) + 1].disabled = FALSE
         /\ ~U!Is(Len(users) + 1)
  <1>1. PICK n \in Names : users' = Append(users, [name |-> n, role |-> role, disabled |-> FALSE])
    BY DEF U!InsertUser
  <1>2. [name |-> n, role |-> role, disabled |-> FALSE] \in U!Row
    BY DEF U!Row
  <1>3. Len(users) < MaxUsers /\ Len(users) \in Nat /\ DOMAIN users = 1..Len(users)
    BY DEF U!InsertUser, UserRows
  <1>4. /\ users' \in Seq(U!Row) /\ Len(users') = Len(users) + 1 /\ DOMAIN users' = 1..Len(users) + 1
        /\ \A u \in 1..Len(users) : users'[u] = users[u]
        /\ users'[Len(users) + 1] = [name |-> n, role |-> role, disabled |-> FALSE]
    BY <1>1, <1>2, <1>3 DEF UserRows
  <1> QED BY <1>3, <1>4, UserBasics DEF U!Is

\* What a changed row changes: only itself, and only the column.
LEMMA RowChanged ==
  ASSUME UserRows, NEW u \in U!Users, NEW row \in U!Row,
         users' = IF U!Is(u) THEN [users EXCEPT ![u] = row] ELSE users
  PROVE  /\ users' \in Seq(U!Row) /\ Len(users') <= MaxUsers
         /\ \A v \in U!Users : U!Is(v)' <=> U!Is(v)
         /\ \A v \in U!Users : v # u /\ U!Is(v) => users'[v] = users[v]
         /\ U!Is(u) => users'[u] = row
  <1>1. CASE U!Is(u)
    BY <1>1 DEF UserRows, U!Is
  <1>2. CASE ~U!Is(u)
    BY <1>2 DEF UserRows, U!Is
  <1> QED BY <1>1, <1>2

\* The three columns that are changed.
LEMMA ColumnsChanged ==
  ASSUME UserRows, NEW u \in U!Users, NEW n \in Names, NEW role \in U!Roles, NEW d \in BOOLEAN
  PROVE  /\ [users EXCEPT ![u].name = n] =
               IF U!Is(u) THEN [users EXCEPT ![u] = [users[u] EXCEPT !.name = n]] ELSE users
         /\ [users EXCEPT ![u].role = role] =
               IF U!Is(u) THEN [users EXCEPT ![u] = [users[u] EXCEPT !.role = role]] ELSE users
         /\ [users EXCEPT ![u].disabled = d] =
               IF U!Is(u) THEN [users EXCEPT ![u] = [users[u] EXCEPT !.disabled = d]] ELSE users
         /\ U!Is(u) => /\ [users[u] EXCEPT !.name = n] \in U!Row
                       /\ [users[u] EXCEPT !.role = role] \in U!Row
                       /\ [users[u] EXCEPT !.disabled = d] \in U!Row
                       /\ users[u] \in U!Row
  <1>1. users = [v \in 1..Len(users) |-> users[v]] /\ DOMAIN users = 1..Len(users)
        /\ \A v \in DOMAIN users : users[v] \in U!Row
    BY DEF UserRows
  <1>2. CASE ~U!Is(u)
    <2>1. ASSUME NEW row PROVE [users EXCEPT ![u] = row] = users
      BY <1>1, <1>2 DEF U!Is
    <2> QED BY <1>2, <2>1
  <1>3. CASE U!Is(u)
    <2>1. users[u] \in U!Row
      BY <1>1, <1>3 DEF U!Is
    <2>2. /\ [users[u] EXCEPT !.name = n] \in U!Row
          /\ [users[u] EXCEPT !.role = role] \in U!Row
          /\ [users[u] EXCEPT !.disabled = d] \in U!Row
      BY <2>1 DEF U!Row
    <2> QED BY <1>3, <2>1, <2>2
  <1> QED BY <1>2, <1>3

LEMMA AskingTyped ==
  ASSUME asked \in [Requests -> U!Asking], NEW r \in Requests, NEW step \in U!Asking,
         U!Goto(r, step)
  PROVE  asked' \in [Requests -> U!Asking] /\ asked' = [asked EXCEPT ![r] = step]
  BY DEF U!Goto

\* Every place a request of a user may be at, and what it carries there.
LEMMA AskingPlaces ==
  /\ U!Idle \in U!Asking /\ [at |-> "setup"] \in U!Asking
  /\ \A at \in {"managing", "visiting"}, a \in U!Actor : [at |-> at, actor |-> a] \in U!Asking
  /\ \A a \in U!Actor, u \in U!Users : [at |-> "renaming", actor |-> a, target |-> u] \in U!Asking
  /\ \A a \in U!Actor, f \in 1..MaxFlows : [at |-> "exchanging", flow |-> f, actor |-> a] \in U!Asking
  BY DEF U!Asking, U!Idle

LEMMA AskingCarries ==
  ASSUME NEW q \in U!Asking
  PROVE  /\ q.at \in {"managing", "visiting", "renaming", "exchanging"} => q.actor \in U!Actor
         /\ q.at = "renaming" => q.target \in U!Users
         /\ q.at = "exchanging" => q.flow \in 1..MaxFlows
  BY DEF U!Asking, U!Idle

UserTables == UserRows /\ OwnersAgree /\ OwnersEnter /\ GrantsFollowRole

\* The steps that leave the tables of users, grants and sites alone.
LEMMA OtherUserSteps ==
  ASSUME NEW r \in Requests,
         \/ U!SetupSubmit(r) \/ U!RequireSession(r) \/ U!RenameUser(r) \/ U!AuthorizedSite(r)
         \/ U!CreateGoogleDriveOAuthFlow(r) \/ U!ConsumeGoogleDriveOAuthFlow(r)
         \/ U!GoogleDriveOAuthCallback(r) \/ U!Refuse(r)
  PROVE  UNCHANGED <<users, grants, sites>>
  BY DEF U!SetupSubmit, U!RequireSession, U!RenameUser, U!AuthorizedSite,
         U!CreateGoogleDriveOAuthFlow, U!ConsumeGoogleDriveOAuthFlow,
         U!GoogleDriveOAuthCallback, U!Refuse

LEMMA UserTablesUnchanged ==
  ASSUME UserTables, UNCHANGED <<users, grants, sites>> PROVE UserTables'
  BY DEF UserTables, UserRows, OwnersAgree, OwnersEnter, IsOwner, GrantsFollowRole,
         U!GrantsFollowRole, U!Is, U!RoleOf

\* The capabilities granted with a role are its own, on the sites given.
LEMMA GrantedTyped ==
  ASSUME NEW role \in U!Roles, NEW given \in SUBSET Sites
  PROVE  /\ U!Granted(role, given) \in [Sites -> SUBSET U!Capabilities("owner")]
         /\ U!NoGrants \in [Sites -> SUBSET U!Capabilities("owner")]
         /\ \A s \in Sites : U!Granted(role, given)[s] # {} =>
                s \in given /\ U!Granted(role, given)[s] = U!Capabilities(role)
         /\ \A s \in Sites : U!NoGrants[s] = {}
  BY UserBasics DEF U!Granted, U!NoGrants

\* A user made with a role other than the owner's, or the first owner.
LEMMA UserTablesInserted ==
  ASSUME UserTables, NEW role \in U!Roles, U!InsertUser(role), UNCHANGED sites,
         role = "owner" => ~U!OwnerExists,
         NEW g \in [Sites -> SUBSET U!Capabilities("owner")],
         \A s \in Sites : g[s] # {} => s \in sites /\ role \notin U!Managers /\ g[s] = U!Capabilities(role),
         grants' = [grants EXCEPT ![Len(users) + 1] = g]
  PROVE  UserTables'
  <1> USE DEF UserTables
  <1>1. /\ users' \in Seq(U!Row) /\ Len(users') <= MaxUsers /\ Len(users) + 1 \in U!Users
        /\ \A u \in U!Users : U!Is(u) => U!Is(u)' /\ users'[u] = users[u]
        /\ \A u \in U!Users : U!Is(u)' /\ ~U!Is(u) => u = Len(users) + 1
        /\ users'[Len(users) + 1].role = role /\ users'[Len(users) + 1].disabled = FALSE
        /\ ~U!Is(Len(users) + 1)
    BY RowInserted
  <1>2. grants' \in GrantTable
    BY <1>1 DEF UserRows, GrantTable
  <1>3. UserRows'
    BY <1>1, <1>2 DEF UserRows
  <1>4. ASSUME NEW u \in U!Users, IsOwner(u)'
        PROVE  \/ IsOwner(u) /\ users'[u] = users[u]
               \/ u = Len(users) + 1 /\ role = "owner"
    <2>1. U!Is(u)' /\ users'[u].role = "owner"
      BY <1>4 DEF IsOwner, U!RoleOf
    <2>2. CASE U!Is(u)
      BY <1>1, <2>1, <2>2 DEF IsOwner, U!RoleOf
    <2>3. CASE ~U!Is(u)
      BY <1>1, <2>1, <2>3
    <2> QED BY <2>2, <2>3
  <1>5. role = "owner" => \A u \in U!Users : ~IsOwner(u)
    BY DEF U!OwnerExists, IsOwner
  <1>6. OwnersAgree' /\ OwnersEnter'
    BY <1>1, <1>4, <1>5 DEF OwnersAgree, OwnersEnter
  <1>7. GrantsFollowRole'
    <2> SUFFICES ASSUME NEW u \in U!Users, NEW s \in Sites, grants'[u][s] # {}
                 PROVE  /\ s \in sites' /\ U!Is(u)' /\ U!RoleOf(u)' \notin U!Managers
                        /\ grants'[u][s] = U!Capabilities(U!RoleOf(u)')
      BY DEF GrantsFollowRole, U!GrantsFollowRole
    <2>1. CASE u = Len(users) + 1
      <3>1. grants'[u] = g
        BY <2>1 DEF UserRows, GrantTable
      <3>2. U!Is(u)'
        BY <2>1, RowInserted DEF U!Is, U!InsertUser, UserRows
      <3> QED BY <1>1, <2>1, <3>1, <3>2 DEF U!RoleOf
    <2>2. CASE u # Len(users) + 1
      <3>1. grants'[u][s] = grants[u][s]
        BY <2>2 DEF UserRows, GrantTable
      <3> QED BY <1>1, <3>1 DEF GrantsFollowRole, U!GrantsFollowRole, U!RoleOf
    <2> QED BY <2>1, <2>2
  <1> QED BY <1>3, <1>6, <1>7

\* A row that is changed stays the owner's or stays somebody else's, and what its
\* user is granted goes with the role it has then.
LEMMA UserTablesChanged ==
  ASSUME UserTables, NEW u \in U!Users, NEW row \in U!Row, U!Is(u),
         users' = [users EXCEPT ![u] = row], UNCHANGED sites,
         row.role = "owner" <=> users[u].role = "owner",
         row.role = "owner" => row.disabled = users[u].disabled,
         NEW g \in [Sites -> SUBSET U!Capabilities("owner")],
         \A s \in Sites : g[s] # {} =>
             s \in sites /\ row.role \notin U!Managers /\ g[s] = U!Capabilities(row.role),
         grants' = [grants EXCEPT ![u] = g]
  PROVE  UserTables'
  <1> USE DEF UserTables
  <1>1. /\ users' \in Seq(U!Row) /\ Len(users') <= MaxUsers
        /\ \A v \in U!Users : U!Is(v)' <=> U!Is(v)
        /\ \A v \in U!Users : v # u /\ U!Is(v) => users'[v] = users[v]
        /\ users'[u] = row
    BY RowChanged
  <1>2. grants' \in GrantTable /\ grants'[u] = g /\ \A v \in U!Users : v # u => grants'[v] = grants[v]
    BY DEF UserRows, GrantTable
  <1>3. UserRows'
    BY <1>1, <1>2 DEF UserRows
  <1>4. ASSUME NEW v \in U!Users, IsOwner(v)'
        PROVE  IsOwner(v) /\ users'[v].disabled = users[v].disabled
    <2>1. U!Is(v)' /\ users'[v].role = "owner"
      BY <1>4 DEF IsOwner, U!RoleOf
    <2>2. U!Is(v)
      BY <1>1, <2>1
    <2>3. CASE v = u
      BY <1>1, <2>1, <2>2, <2>3 DEF IsOwner, U!RoleOf
    <2>4. CASE v # u
      BY <1>1, <2>1, <2>2, <2>4 DEF IsOwner, U!RoleOf
    <2> QED BY <2>3, <2>4
  <1>5. OwnersAgree' /\ OwnersEnter'
    BY <1>4 DEF OwnersAgree, OwnersEnter
  <1>6. GrantsFollowRole'
    <2> SUFFICES ASSUME NEW v \in U!Users, NEW s \in Sites, grants'[v][s] # {}
                 PROVE  /\ s \in sites' /\ U!Is(v)' /\ users'[v].role \notin U!Managers
                        /\ grants'[v][s] = U!Capabilities(users'[v].role)
      BY DEF GrantsFollowRole, U!GrantsFollowRole, U!RoleOf
    <2>1. CASE v = u
      BY <1>1, <1>2, <2>1
    <2>2. CASE v # u
      <3>1. /\ s \in sites /\ U!Is(v) /\ users[v].role \notin U!Managers
            /\ grants[v][s] = U!Capabilities(users[v].role)
        BY <1>2, <2>2 DEF GrantsFollowRole, U!GrantsFollowRole, U!RoleOf
      <3> QED BY <1>1, <1>2, <2>2, <3>1
    <2> QED BY <2>1, <2>2
  <1> QED BY <1>3, <1>5, <1>6

\* The same for a change that leaves role and grants alone.
LEMMA UserTablesKeptRole ==
  ASSUME UserTables, NEW u \in U!Users, NEW row \in U!Row, U!Is(u),
         users' = [users EXCEPT ![u] = row], UNCHANGED <<grants, sites>>,
         row.role = users[u].role, row.role = "owner" => row.disabled = users[u].disabled
  PROVE  UserTables'
  <1>1. grants[u] \in [Sites -> SUBSET U!Capabilities("owner")] /\ grants = [grants EXCEPT ![u] = grants[u]]
    BY DEF UserTables, UserRows, GrantTable
  <1>2. \A s \in Sites : grants[u][s] # {} =>
            s \in sites /\ row.role \notin U!Managers /\ grants[u][s] = U!Capabilities(row.role)
    BY DEF UserTables, GrantsFollowRole, U!GrantsFollowRole, U!RoleOf
  <1> QED BY <1>1, <1>2, UserTablesChanged

\* Every step keeps what is true of the tables.
LEMMA UserTablesKept ==
  ASSUME UsersInv, [U!UsersNext]_U!userVars PROVE UserTables'
  <1>0. UserTables /\ asked \in [Requests -> U!Asking]
    BY DEF UsersInv, UserTables, U!UsersTypeOK
  <1>1. ASSUME NEW r \in Requests, U!CreateOwner(r) PROVE UserTables'
    <2>1. U!NoGrants \in [Sites -> SUBSET U!Capabilities("owner")] /\ \A s \in Sites : U!NoGrants[s] = {}
      BY DEF U!NoGrants
    <2>2. "owner" \in U!Roles
      BY DEF U!Roles
    <2>3. U!InsertUser("owner") /\ ~U!OwnerExists /\ UNCHANGED <<grants, sites>>
      BY <1>1 DEF U!CreateOwner
    <2>4. Len(users) + 1 \in U!Users /\ ~U!Is(Len(users) + 1)
      BY <1>0, <2>2, <2>3, RowInserted DEF UserTables
    <2>5. grants[Len(users) + 1] = U!NoGrants
      <3>1. \A s \in Sites : grants[Len(users) + 1][s] = {}
        BY <1>0, <2>4 DEF UserTables, GrantsFollowRole, U!GrantsFollowRole
      <3> QED BY <1>0, <2>4, <3>1 DEF UserTables, UserRows, GrantTable, U!NoGrants
    <2>6. grants' = [grants EXCEPT ![Len(users) + 1] = U!NoGrants]
      BY <1>0, <2>3, <2>4, <2>5 DEF UserTables, UserRows, GrantTable
    <2> QED BY <1>0, <2>1, <2>2, <2>3, <2>6, UserTablesInserted
  <1>2. ASSUME NEW r \in Requests, U!CreateUser(r) PROVE UserTables'
    <2>1. PICK role \in U!Roles \ {"owner"}, given \in SUBSET Sites :
             /\ role \in {"collaborator", "customer"} => given \subseteq sites
             /\ U!InsertUser(role)
             /\ grants' = [grants EXCEPT ![Len(users) + 1] =
                              IF role \in {"collaborator", "customer"} THEN U!Granted(role, given) ELSE U!NoGrants]
      BY <1>2 DEF U!CreateUser
    <2> DEFINE g == IF role \in {"collaborator", "customer"} THEN U!Granted(role, given) ELSE U!NoGrants
    <2>2. /\ g \in [Sites -> SUBSET U!Capabilities("owner")]
          /\ \A s \in Sites : g[s] # {} =>
                 s \in sites /\ role \notin U!Managers /\ g[s] = U!Capabilities(role)
      BY <2>1, GrantedTyped DEF U!Managers
    <2>3. UNCHANGED sites
      BY <1>2 DEF U!CreateUser
    <2> QED BY <1>0, <2>1, <2>2, <2>3, UserTablesInserted
  <1>3. ASSUME NEW r \in Requests, U!UpdateUserAccess(r) PROVE UserTables'
    <2>1. PICK u \in U!Users, role \in U!Roles \ {"owner"}, given \in SUBSET Sites :
             /\ U!MayChange(asked[r].actor, u, role)
             /\ role = "administrator" \/ given \subseteq sites
             /\ users' = [users EXCEPT ![u].role = role]
             /\ grants' = [grants EXCEPT ![u] = IF role = "administrator" THEN U!NoGrants
                                                ELSE U!Granted(role, given)]
      BY <1>3 DEF U!UpdateUserAccess
    <2> DEFINE row == [users[u] EXCEPT !.role = role]
               g   == IF role = "administrator" THEN U!NoGrants ELSE U!Granted(role, given)
    <2>2. U!Is(u) /\ users[u].role # "owner"
      BY <2>1 DEF U!MayChange, U!RoleOf
    <2>3. users[u] \in U!Row
      BY <1>0, <2>2 DEF UserTables, UserRows, U!Is
    <2>4. row \in U!Row /\ row.role = role /\ users' = [users EXCEPT ![u] = row]
      BY <2>1, <2>3 DEF U!Row
    <2>5. /\ g \in [Sites -> SUBSET U!Capabilities("owner")]
          /\ \A s \in Sites : g[s] # {} =>
                 s \in sites /\ role \notin U!Managers /\ g[s] = U!Capabilities(role)
      BY <2>1, GrantedTyped DEF U!Managers, U!Roles
    <2>6. UNCHANGED sites /\ role # "owner"
      BY <1>3, <2>1 DEF U!UpdateUserAccess
    <2>7. grants' = [grants EXCEPT ![u] = g]
      BY <2>1
    <2> HIDE DEF row, g
    <2> QED BY <1>0, <2>2, <2>4, <2>5, <2>6, <2>7, UserTablesChanged
  <1>4. ASSUME NEW r \in Requests, U!SetUserDisabled(r) PROVE UserTables'
    <2>1. PICK u \in U!Users, d \in BOOLEAN : /\ U!MayChange(asked[r].actor, u, "customer")
                                            /\ users' = [users EXCEPT ![u].disabled = d]
      BY <1>4 DEF U!SetUserDisabled
    <2> DEFINE row == [users[u] EXCEPT !.disabled = d]
    <2>2. U!Is(u) /\ users[u].role # "owner"
      BY <2>1 DEF U!MayChange, U!RoleOf
    <2>3. users[u] \in U!Row
      BY <1>0, <2>2 DEF UserTables, UserRows, U!Is
    <2>4. row \in U!Row /\ row.role = users[u].role /\ users' = [users EXCEPT ![u] = row]
      BY <2>1, <2>3 DEF U!Row
    <2>5. UNCHANGED <<grants, sites>>
      BY <1>4 DEF U!SetUserDisabled
    <2> HIDE DEF row
    <2> QED BY <1>0, <2>2, <2>4, <2>5, UserTablesKeptRole
  <1>5. ASSUME NEW r \in Requests, U!ChangeUsername(r) PROVE UserTables'
    <2>1. PICK n \in Names : users' = [users EXCEPT ![IF asked[r].at = "renaming" THEN asked[r].target
                                                     ELSE asked[r].actor.id].name = n]
      BY <1>5 DEF U!ChangeUsername
    <2> DEFINE u == IF asked[r].at = "renaming" THEN asked[r].target ELSE asked[r].actor.id
               row == [users[u] EXCEPT !.name = n]
    <2>2. u \in U!Users
      BY <1>0, <1>5, AskingCarries DEF U!ChangeUsername, U!Actor
    <2>3. UNCHANGED <<grants, sites>>
      BY <1>5 DEF U!ChangeUsername
    <2>4. CASE U!Is(u)
      <3>1. users[u] \in U!Row
        BY <1>0, <2>4 DEF UserTables, UserRows, U!Is
      <3>2. row \in U!Row /\ row.role = users[u].role /\ row.disabled = users[u].disabled
            /\ users' = [users EXCEPT ![u] = row]
        BY <2>1, <3>1 DEF U!Row
      <3> HIDE DEF row, u
      <3> QED BY <1>0, <2>2, <2>3, <2>4, <3>2, UserTablesKeptRole
    <2>5. CASE ~U!Is(u)
      <3>1. users' = users
        BY <1>0, <2>1, <2>5 DEF UserTables, UserRows, U!Is
      <3> QED BY <1>0, <2>3, <3>1, UserTablesUnchanged
    <2> QED BY <2>4, <2>5
  <1>6. CASE U!RemoveSite
    <2>1. PICK s \in sites : /\ sites' = sites \ {s}
                             /\ grants' = [u \in U!Users |-> [grants[u] EXCEPT ![s] = {}]]
                             /\ UNCHANGED users
      BY <1>6 DEF U!RemoveSite
    <2>2. \A u \in U!Users : \A t \in Sites : grants'[u][t] = IF t = s THEN {} ELSE grants[u][t]
      BY <1>0, <2>1 DEF UserTables, UserRows, GrantTable
    <2>3. UserRows'
      BY <1>0, <2>1 DEF UserTables, UserRows, GrantTable
    <2>4. GrantsFollowRole'
      BY <1>0, <2>1, <2>2 DEF UserTables, GrantsFollowRole, U!GrantsFollowRole, U!Is, U!RoleOf
    <2>5. OwnersAgree' /\ OwnersEnter'
      BY <1>0, <2>1 DEF UserTables, OwnersAgree, OwnersEnter, IsOwner, U!Is, U!RoleOf
    <2> QED BY <2>3, <2>4, <2>5 DEF UserTables
  <1>7. CASE U!ForgetFlow \/ UNCHANGED U!userVars
    BY <1>0, <1>7, UserTablesUnchanged DEF U!ForgetFlow, U!userVars
  <1> QED BY <1>0, <1>1, <1>2, <1>3, <1>4, <1>5, <1>6, <1>7, OtherUserSteps, UserTablesUnchanged DEF U!UsersNext

\* Every step keeps the requests where requests may be, with what they carry.
LEMMA UserRequestsKept ==
  ASSUME UsersInv, [U!UsersNext]_U!userVars
  PROVE  asked' \in [Requests -> U!Asking] /\ UserRequests'
  <1> DEFINE GoesTo(r, step) ==
          /\ step \in U!Asking /\ U!Goto(r, step)
          /\ step.at \in {"managing", "renaming"} => step.actor.role \in U!Managers
          /\ step.at = "renaming" => step.target # step.actor.id
  <1>0. asked \in [Requests -> U!Asking] /\ UserRequests
    BY DEF UsersInv, U!UsersTypeOK
  <1>1. ASSUME NEW r \in Requests, NEW step, GoesTo(r, step)
        PROVE  asked' \in [Requests -> U!Asking] /\ UserRequests'
    BY <1>0, <1>1, AskingTyped DEF UserRequests
  <1>2. ASSUME UNCHANGED asked PROVE asked' \in [Requests -> U!Asking] /\ UserRequests'
    BY <1>0, <1>2 DEF UserRequests
  <1>3. ASSUME NEW u \in U!Users, U!Is(u)
        PROVE  [id |-> u, name |-> users[u].name, role |-> U!RoleOf(u)] \in U!Actor
    <2>1. users[u] \in U!Row
      BY <1>3 DEF UsersInv, UserRows, U!Is
    <2> QED BY <2>1 DEF U!Row, U!Actor, U!RoleOf
  <1>4. ASSUME NEW r \in Requests,
               \/ U!CreateOwner(r) \/ U!CreateUser(r) \/ U!UpdateUserAccess(r) \/ U!SetUserDisabled(r)
               \/ U!ChangeUsername(r) \/ U!AuthorizedSite(r) \/ U!CreateGoogleDriveOAuthFlow(r)
               \/ U!GoogleDriveOAuthCallback(r) \/ U!Refuse(r)
        PROVE  GoesTo(r, U!Idle)
    BY <1>4, AskingPlaces DEF U!CreateOwner, U!CreateUser, U!UpdateUserAccess, U!SetUserDisabled,
         U!ChangeUsername, U!AuthorizedSite, U!CreateGoogleDriveOAuthFlow,
         U!GoogleDriveOAuthCallback, U!Refuse, U!Idle
  <1>5. ASSUME NEW r \in Requests, U!SetupSubmit(r) PROVE GoesTo(r, [at |-> "setup"])
    BY <1>5, AskingPlaces DEF U!SetupSubmit
  <1>6. ASSUME NEW r \in Requests, U!RequireSession(r) PROVE \E step : GoesTo(r, step)
    <2>1. PICK u \in U!Users, at \in {"managing", "visiting"} :
             /\ U!Is(u)
             /\ at = "managing" => U!RoleOf(u) \in U!Managers
             /\ U!Goto(r, [at |-> at, actor |-> [id |-> u, name |-> users[u].name, role |-> U!RoleOf(u)]])
      BY <1>6 DEF U!RequireSession
    <2> DEFINE a == [id |-> u, name |-> users[u].name, role |-> U!RoleOf(u)]
    <2>2. a \in U!Actor /\ a.role = U!RoleOf(u)
      BY <1>3, <2>1
    <2>3. U!Goto(r, [at |-> at, actor |-> a])
      BY <2>1
    <2> HIDE DEF a
    <2>4. [at |-> at, actor |-> a] \in U!Asking
      BY <2>2, AskingPlaces
    <2>5. GoesTo(r, [at |-> at, actor |-> a])
      BY <2>1, <2>2, <2>3, <2>4
    <2> QED BY <2>5
  <1>7. ASSUME NEW r \in Requests, U!RenameUser(r) PROVE \E step : GoesTo(r, step)
    <2>1. PICK u \in U!Users :
             /\ U!MayChange(asked[r].actor, u, "customer")
             /\ U!Goto(r, [at |-> "renaming", actor |-> asked[r].actor, target |-> u])
      BY <1>7 DEF U!RenameUser
    <2>2. asked[r] \in U!Asking /\ asked[r].at = "managing"
      BY <1>0, <1>7 DEF U!RenameUser
    <2>3. asked[r].actor \in U!Actor /\ asked[r].actor.role \in U!Managers
      BY <1>0, <2>2, AskingCarries DEF UserRequests
    <2>4. [at |-> "renaming", actor |-> asked[r].actor, target |-> u] \in U!Asking
      BY <2>3, AskingPlaces
    <2>5. GoesTo(r, [at |-> "renaming", actor |-> asked[r].actor, target |-> u])
      BY <2>1, <2>3, <2>4 DEF U!MayChange
    <2> QED BY <2>5
  <1>8. ASSUME NEW r \in Requests, U!ConsumeGoogleDriveOAuthFlow(r)
        PROVE  UNCHANGED asked \/ \E step : GoesTo(r, step)
    <2>1. PICK f \in flows :
             IF U!Is(f.user) /\ ~users[f.user].disabled /\ U!RoleOf(f.user) \in U!Managers
             THEN U!Goto(r, [at |-> "exchanging", flow |-> f.number,
                             actor |-> [id |-> f.user, name |-> users[f.user].name,
                                        role |-> U!RoleOf(f.user)]])
             ELSE UNCHANGED asked
      BY <1>8 DEF U!ConsumeGoogleDriveOAuthFlow
    <2>2. f.number \in 1..MaxFlows /\ f.user \in U!Users
      BY DEF UsersInv, U!UsersTypeOK
    <2> DEFINE a == [id |-> f.user, name |-> users[f.user].name, role |-> U!RoleOf(f.user)]
    <2>3. CASE U!Is(f.user) /\ ~users[f.user].disabled /\ U!RoleOf(f.user) \in U!Managers
      <3>1. a \in U!Actor
        BY <1>3, <2>2, <2>3
      <3>2. U!Goto(r, [at |-> "exchanging", flow |-> f.number, actor |-> a])
        BY <2>1, <2>3
      <3> HIDE DEF a
      <3>3. [at |-> "exchanging", flow |-> f.number, actor |-> a] \in U!Asking
        BY <2>2, <3>1, AskingPlaces
      <3>4. GoesTo(r, [at |-> "exchanging", flow |-> f.number, actor |-> a])
        BY <3>2, <3>3
      <3> QED BY <3>4
    <2>4. CASE ~(U!Is(f.user) /\ ~users[f.user].disabled /\ U!RoleOf(f.user) \in U!Managers)
      BY <2>1, <2>4
    <2> QED BY <2>3, <2>4
  <1>9. CASE U!RemoveSite \/ U!ForgetFlow \/ UNCHANGED U!userVars
    BY <1>2, <1>9 DEF U!RemoveSite, U!ForgetFlow, U!userVars
  <1> HIDE DEF GoesTo
  <1> QED BY <1>1, <1>2, <1>4, <1>5, <1>6, <1>7, <1>8, <1>9 DEF U!UsersNext

\* Every step keeps the authorizations within their bound and with a user.
LEMMA FlowsKept ==
  ASSUME UsersInv, [U!UsersNext]_U!userVars
  PROVE  /\ flows' \subseteq [number : 1..MaxFlows, user : U!Users]
         /\ started' \in 0..MaxFlows /\ targets' \subseteq 1..MaxFlows
  <1> USE UserBasics
  <1>0. /\ asked \in [Requests -> U!Asking] /\ flows \subseteq [number : 1..MaxFlows, user : U!Users]
        /\ started \in 0..MaxFlows /\ targets \subseteq 1..MaxFlows
    BY DEF UsersInv, U!UsersTypeOK
  <1>1. ASSUME NEW r \in Requests,
               \/ U!CreateOwner(r) \/ U!CreateUser(r) \/ U!UpdateUserAccess(r) \/ U!SetUserDisabled(r)
               \/ U!ChangeUsername(r) \/ U!AuthorizedSite(r) \/ U!SetupSubmit(r) \/ U!RequireSession(r)
               \/ U!RenameUser(r) \/ U!Refuse(r)
        PROVE  UNCHANGED <<flows, started, targets>>
    BY <1>1 DEF U!CreateOwner, U!CreateUser, U!UpdateUserAccess, U!SetUserDisabled, U!ChangeUsername,
                U!AuthorizedSite, U!SetupSubmit, U!RequireSession, U!RenameUser, U!Refuse
  <1>2. CASE U!RemoveSite \/ U!ForgetFlow \/ UNCHANGED U!userVars
    BY <1>0, <1>2 DEF U!RemoveSite, U!ForgetFlow, U!userVars
  <1>3. ASSUME NEW r \in Requests, U!CreateGoogleDriveOAuthFlow(r)
        PROVE  /\ flows' \subseteq [number : 1..MaxFlows, user : U!Users]
               /\ started' \in 0..MaxFlows /\ UNCHANGED targets
    <2>1. asked[r].actor \in U!Actor
      BY <1>0, <1>3, AskingCarries DEF U!CreateGoogleDriveOAuthFlow
    <2>2. [number |-> started + 1, user |-> asked[r].actor.id] \in [number : 1..MaxFlows, user : U!Users]
      BY <1>0, <1>3, <2>1 DEF U!CreateGoogleDriveOAuthFlow, U!Actor
    <2> QED BY <1>0, <1>3, <2>2 DEF U!CreateGoogleDriveOAuthFlow
  <1>4. ASSUME NEW r \in Requests, U!ConsumeGoogleDriveOAuthFlow(r)
        PROVE  flows' \subseteq flows /\ UNCHANGED <<started, targets>>
    BY <1>4 DEF U!ConsumeGoogleDriveOAuthFlow
  <1>5. ASSUME NEW r \in Requests, U!GoogleDriveOAuthCallback(r)
        PROVE  targets' \subseteq 1..MaxFlows /\ UNCHANGED <<flows, started>>
    BY <1>0, <1>5, AskingCarries DEF U!GoogleDriveOAuthCallback
  <1> QED BY <1>0, <1>1, <1>2, <1>3, <1>4, <1>5 DEF U!UsersNext

\* The invariant of the users holds throughout.
LEMMA UsersAreTracked == Spec => []UsersInv
  <1>1. Init => UsersInv
    BY UsersBegin DEF Init
  <1>2. UsersInv /\ [Next]_vars => UsersInv'
    <2> SUFFICES ASSUME UsersInv, [U!UsersNext]_U!userVars PROVE UsersInv'
      BY UsersStep
    <2>1. UserTables'
      BY UserTablesKept
    <2>2. asked' \in [Requests -> U!Asking] /\ UserRequests'
      BY UserRequestsKept
    <2>3. /\ \A u \in DOMAIN users' : users'[u] \in U!Row
          /\ \A u \in U!Users : \A s \in Sites : grants'[u][s] \subseteq U!Capabilities("owner")
      BY <2>1 DEF UserTables, UserRows, GrantTable
    <2>4. U!UsersTypeOK'
      BY <2>1, <2>2, <2>3, FlowsKept DEF U!UsersTypeOK, UserTables, UserRows
    <2> QED BY <2>1, <2>2, <2>4 DEF UsersInv, UserTables
  <1> QED BY <1>1, <1>2, PTL DEF Spec

\* The columns of the user tables and what requests carry keep their types.
THEOREM UserTypesCorrect == Spec => []U!UsersTypeOK
  <1>1. UsersInv => U!UsersTypeOK
    BY DEF UsersInv
  <1> QED BY UsersAreTracked, <1>1, PTL

\* The module of the users counts as this one does.
LEMMA SameUserCardinality == \A T : U!Cardinality(T) = Cardinality(T)
  BY DEF U!Cardinality, Cardinality

\* However many setup pages are submitted together, there is one owner at most, and
\* the owner is never disabled (Store.CreateOwner, Store.SetUserDisabled).
THEOREM AlwaysOneOwner == Spec => []OneOwner
  <1> DEFINE Owners == {u \in U!Users : U!Is(u) /\ U!RoleOf(u) = "owner"}
  <1>1. UsersInv => Cardinality(Owners) <= 1
    <2> SUFFICES ASSUME UsersInv PROVE Cardinality(Owners) <= 1
      OBVIOUS
    <2>1. \A u, v \in Owners : u = v
      BY DEF UsersInv, OwnersAgree, IsOwner
    <2>2. CASE Owners = {}
      BY <2>2, FS_EmptySet
    <2>3. CASE Owners # {}
      <3>1. PICK u \in Owners : Owners = {u}
        BY <2>1, <2>3
      <3> QED BY <3>1, FS_Singleton
    <2> QED BY <2>2, <2>3
  <1>2. UsersInv => OneOwner
    BY <1>1, SameUserCardinality DEF OneOwner, U!OneOwner, UsersInv, OwnersEnter, IsOwner
  <1> QED BY UsersAreTracked, <1>2, PTL

\* What a user was given follows the role through every change of it, and goes with
\* the site (Store.UpdateUserAccess, Store.CreateUser).
THEOREM GrantsAlwaysFollowRole == Spec => []GrantsFollowRole
  <1>1. UsersInv => GrantsFollowRole
    BY DEF UsersInv
  <1> QED BY UsersAreTracked, <1>1, PTL

\* An administrator never changes an owner or another administrator, though the
\* target was looked at in an earlier transaction (Server.renameUser).
THEOREM AdministratorsStayApart == Spec => AdministratorsAreApart
  <1> DEFINE Apart == \A r \in Requests, u \in U!Users :
          /\ asked[r].at \in {"managing", "renaming"} /\ asked'[r] # asked[r]
          /\ U!Is(u) /\ users'[u] # users[u]
          => \/ asked[r].actor.role = "owner" /\ U!RoleOf(u) # "owner"
             \/ U!RoleOf(u) \notin U!Managers
  <1>1. UsersInv /\ [Next]_vars => [Apart]_U!userVars
    <2> SUFFICES ASSUME UsersInv, [U!UsersNext]_U!userVars, NEW r \in Requests, NEW u \in U!Users,
                        asked[r].at \in {"managing", "renaming"}, asked'[r] # asked[r],
                        U!Is(u), users'[u] # users[u]
                 PROVE  \/ asked[r].actor.role = "owner" /\ U!RoleOf(u) # "owner"
                        \/ U!RoleOf(u) \notin U!Managers
      BY UsersStep
    <2>0. /\ asked \in [Requests -> U!Asking] /\ UserRows /\ UserRequests
          /\ users \in Seq(U!Row) /\ DOMAIN users = 1..Len(users)
      BY DEF UsersInv, U!UsersTypeOK, UserRows
    <2>1. ASSUME NEW q \in Requests, NEW step, U!Goto(q, step) PROVE q = r
      BY <2>0, <2>1 DEF U!Goto
    <2>2. ASSUME NEW role, U!MayChange(asked[r].actor, u, role)
          PROVE  \/ asked[r].actor.role = "owner" /\ U!RoleOf(u) # "owner"
                 \/ U!RoleOf(u) \notin U!Managers
      BY <2>0, <2>2 DEF U!MayChange, UserRequests, U!Managers
    <2>3. ASSUME NEW v, NEW f, [users EXCEPT ![v] = f][u] # users[u] PROVE v = u
      BY <2>0, <2>3 DEF U!Is
    <2>4. ASSUME NEW q \in Requests, U!CreateOwner(q) \/ U!CreateUser(q) PROVE FALSE
      <3>1. PICK role \in U!Roles : U!InsertUser(role)
        BY <2>4 DEF U!CreateOwner, U!CreateUser, U!Roles
      <3> QED BY <2>0, <3>1, RowInserted
    <2>5. ASSUME NEW q \in Requests, U!UpdateUserAccess(q)
          PROVE  \E role : U!MayChange(asked[r].actor, u, role)
      <3>1. q = r
        BY <2>1, <2>5 DEF U!UpdateUserAccess
      <3>2. PICK v \in U!Users, role \in U!Roles : /\ U!MayChange(asked[r].actor, v, role)
                                                 /\ users' = [users EXCEPT ![v].role = role]
        BY <2>5, <3>1 DEF U!UpdateUserAccess
      <3>3. v = u
        BY <2>3, <3>2
      <3> QED BY <3>2, <3>3
    <2>6. ASSUME NEW q \in Requests, U!SetUserDisabled(q)
          PROVE  \E role : U!MayChange(asked[r].actor, u, role)
      <3>1. q = r
        BY <2>1, <2>6 DEF U!SetUserDisabled
      <3>2. PICK v \in U!Users, d \in BOOLEAN : /\ U!MayChange(asked[r].actor, v, "customer")
                                              /\ users' = [users EXCEPT ![v].disabled = d]
        BY <2>6, <3>1 DEF U!SetUserDisabled
      <3>3. v = u
        BY <2>3, <3>2
      <3> QED BY <3>2, <3>3
    <2>7. ASSUME NEW q \in Requests, U!ChangeUsername(q)
          PROVE  \E role : U!MayChange(asked[r].actor, u, role)
      <3>1. q = r
        BY <2>1, <2>7 DEF U!ChangeUsername
      <3>2. asked[r].at = "renaming" /\ asked[r].target # asked[r].actor.id
        BY <2>0, <2>7, <3>1 DEF U!ChangeUsername, UserRequests
      <3>3. PICK n \in Names : /\ U!MayChange(asked[r].actor, asked[r].target, "customer")
                               /\ users' = [users EXCEPT ![asked[r].target].name = n]
        BY <2>7, <3>1, <3>2 DEF U!ChangeUsername
      <3>4. asked[r].target = u
        BY <2>3, <3>3
      <3> QED BY <3>3, <3>4
    <2>8. CASE UNCHANGED users
      BY <2>8
    <2>9. CASE U!RemoveSite \/ U!ForgetFlow \/ UNCHANGED U!userVars
      BY <2>9 DEF U!RemoveSite, U!ForgetFlow, U!userVars
    <2> QED BY <2>2, <2>4, <2>5, <2>6, <2>7, <2>8, <2>9, OtherUserSteps DEF U!UsersNext
  <1> QED BY UsersAreTracked, <1>1, PTL DEF Spec, AdministratorsAreApart, U!AdministratorsAreApart
=============================================================================
