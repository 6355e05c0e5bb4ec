--------------------------- MODULE SessionsProofs ---------------------------
(***************************************************************************)
(* Proofs about Sessions.  Signing in and authenticating change nothing of *)
(* Accounts, so that what is proved of Accounts holds beside sessions too. *)
(***************************************************************************)
EXTENDS Sessions, AccountsProofs, SequenceTheorems

Visit == [step : {"idle", "verify", "authenticated"}, user : 0 .. MaxUsers,
          given : SUBSET Passwords, stored : SUBSET Passwords,
          replacedAt : 0 .. MaxTime, token : 0 .. MaxJwts]

\* A token lives at most JWTExpiry from now, and from the time its account's
\* password was replaced if it had been issued by then.
ExpiriesBounded == \A t \in DOMAIN jwts :
    /\ jwts[t].exp <= clock + JWTExpiry
    /\ jwts[t].replacedAt # 0 /\ jwts[t].overtakenAt = 0 =>
          jwts[t].exp <= jwts[t].replacedAt + JWTExpiry

SessionsInv ==
    /\ SessionsTypeOK
    /\ jwts \in Seq(Jwt)
    /\ \A c \in Clients : visit[c].step = "authenticated" => visit[c].token \in DOMAIN jwts
    /\ ExpiriesBounded

-----------------------------------------------------------------------------
\* Every behaviour of Sessions is one of Accounts.
LEMMA SessionsImplementsAccounts == SSpec => Spec
<1>1. SInit => Init
  BY DEF SInit
<1>2. [SNext]_allVars => [Next]_vars
  BY DEF SNext, AccountsStep, SignIn, IssueToken, RefuseSignIn, RequireAuth, Answer,
         allVars, vars, sessions
<1> QED BY <1>1, <1>2, PTL DEF SSpec, Spec

\* Accounts have ids that a session may carry.
LEMMA AccountIds == ASSUME Bookkeeping PROVE DOMAIN users \subseteq 1 .. MaxUsers
BY BoundsAssumption DEF Bookkeeping, IdsInOrder

\* Accounts are not deleted and the clock does not go back.
LEMMA AccountsOnlyGrow ==
    ASSUME Bookkeeping, [Next]_vars
    PROVE  /\ DOMAIN users \subseteq DOMAIN users'
           /\ clock \in 1 .. MaxTime /\ clock' \in 1 .. MaxTime /\ clock <= clock'
<1>1. clock \in 1 .. MaxTime
  BY DEF Bookkeeping, TypeOK
<1>2. ASSUME DOMAIN users \subseteq DOMAIN users', UNCHANGED clock
      PROVE  /\ DOMAIN users \subseteq DOMAIN users'
             /\ clock \in 1 .. MaxTime /\ clock' \in 1 .. MaxTime /\ clock <= clock'
  BY <1>1, <1>2, BoundsAssumption
<1>3. CASE UNCHANGED <<users, clock>>
  BY <1>2, <1>3
<1>4. ASSUME NEW a \in Addresses, NEW p \in Passwords, RegisterUser(a, p)
      PROVE  DOMAIN users \subseteq DOMAIN users' /\ UNCHANGED clock
  BY <1>4 DEF RegisterUser
<1>5. ASSUME NEW h \in Handlers, StoreToken(h) \/ ConsumeToken(h)
      PROVE  DOMAIN users \subseteq DOMAIN users' /\ UNCHANGED clock
  BY <1>5 DEF StoreToken, ConsumeToken
<1>6. CASE Tick
  BY <1>1, <1>6, BoundsAssumption DEF Tick
<1>7. ASSUME NEW h \in Handlers,
             \/ \E a \in Addresses : CreatePasswordReset(h, a)
             \/ \E t \in 1 .. MaxTokens, p \in Passwords : UpdatePasswordReset(h, t, p)
             \/ GenerateResetToken(h) \/ Fail(h)
      PROVE  UNCHANGED <<users, clock>>
  BY <1>7 DEF CreatePasswordReset, UpdatePasswordReset, GenerateResetToken, Fail
<1>8. CASE UNCHANGED vars
  BY <1>3, <1>8 DEF vars
<1> QED BY <1>2, <1>3, <1>4, <1>5, <1>6, <1>7, <1>8 DEF Next

\* The server starts with no session.
LEMMA SessionsInit == SInit /\ Bookkeeping => SessionsInv
<1> SUFFICES ASSUME SInit, Bookkeeping PROVE SessionsInv
  OBVIOUS
<1>1. jwts = <<>> /\ jwts \in Seq(Jwt) /\ Len(jwts) = 0 /\ DOMAIN jwts = {}
  BY DEF SInit
<1>2. visit \in [Clients -> Visit] /\ \A c \in Clients : visit[c].step = "idle"
  BY BoundsAssumption, MaxJwtsAssumption DEF SInit, NoVisit, Visit
<1> QED BY <1>1, <1>2, MaxJwtsAssumption
        DEF SessionsInv, SessionsTypeOK, ExpiriesBounded, Visit, Bookkeeping

\* A token's time is bounded when it is issued, and the clock only goes on.
LEMMA SessionsStep ==
    Bookkeeping /\ Bookkeeping' /\ SessionsInv /\ [SNext]_allVars => SessionsInv'
<1> SUFFICES ASSUME Bookkeeping, Bookkeeping', SessionsInv, [SNext]_allVars
             PROVE  SessionsInv'
  OBVIOUS
<1> USE BoundsAssumption, MaxJwtsAssumption, JWTExpiryAssumption
<1>0. /\ DOMAIN jwts = 1 .. Len(jwts) /\ Len(jwts) \in 0 .. MaxJwts
      /\ visit \in [Clients -> Visit] /\ TypeOK'
  BY DEF SessionsInv, SessionsTypeOK, Visit, Bookkeeping
<1>1. CASE AccountsStep
  <2>1. /\ DOMAIN users \subseteq DOMAIN users'
        /\ clock \in 1 .. MaxTime /\ clock' \in 1 .. MaxTime /\ clock <= clock'
    BY <1>1, AccountsOnlyGrow DEF AccountsStep
  <2>2. ASSUME NEW t \in DOMAIN jwts
        PROVE  \/ jwts'[t] = jwts[t]
               \/ jwts[t].replacedAt = 0 /\ jwts'[t] = [jwts[t] EXCEPT !.replacedAt = clock]
    <3>1. jwts'[t] = IF jwts[t].replacedAt = 0 /\ Replaces(jwts[t].user)
                     THEN [jwts[t] EXCEPT !.replacedAt = clock] ELSE jwts[t]
      BY <1>1 DEF AccountsStep, Marked, Replaces
    <3>2. CASE jwts[t].replacedAt = 0 /\ Replaces(jwts[t].user)
      BY <3>1, <3>2 DEF Replaces
    <3>3. CASE ~(jwts[t].replacedAt = 0 /\ Replaces(jwts[t].user))
      BY <3>1, <3>3 DEF Replaces
    <3> QED BY <3>2, <3>3
  <2>3. DOMAIN jwts' = DOMAIN jwts
    BY <1>1 DEF AccountsStep
  <2>4. ASSUME NEW t \in DOMAIN jwts
        PROVE  /\ jwts'[t] \in Jwt /\ jwts'[t].user = jwts[t].user
               /\ jwts'[t].exp = jwts[t].exp /\ jwts'[t].overtakenAt = jwts[t].overtakenAt
               /\ jwts'[t].replacedAt = jwts[t].replacedAt \/ jwts'[t].replacedAt = clock
    <3>1. jwts[t] \in Jwt
      BY DEF SessionsInv, SessionsTypeOK
    <3>2. CASE jwts'[t] = jwts[t]
      BY <3>1, <3>2
    <3>3. CASE jwts'[t] = [jwts[t] EXCEPT !.replacedAt = clock]
      BY <2>1, <3>1, <3>3 DEF Jwt
    <3> QED BY <2>2, <3>2, <3>3
  <2>5. jwts' = [t \in 1 .. Len(jwts) |-> jwts'[t]]
    BY <1>0, <1>1 DEF AccountsStep
  <2>6. jwts' \in Seq(Jwt) /\ Len(jwts') = Len(jwts)
    BY <1>0, <2>4, <2>5
  <2>7. ASSUME NEW c \in Clients
        PROVE  visit'[c] = visit[c] \/ visit'[c] = [visit[c] EXCEPT !.replacedAt = clock]
    <3>1. CASE visit[c].step # "verify"
      BY <1>1, <3>1 DEF AccountsStep
    <3>2. CASE visit[c].step = "verify" /\ visit[c].replacedAt = 0 /\ Replaces(visit[c].user)
      BY <1>1, <3>2 DEF AccountsStep, Marked, Replaces
    <3>3. CASE visit[c].step = "verify" /\
               ~(visit[c].replacedAt = 0 /\ Replaces(visit[c].user))
      BY <1>1, <3>3 DEF AccountsStep, Marked, Replaces
    <3> QED BY <3>1, <3>2, <3>3
  <2>8. ASSUME NEW c \in Clients
        PROVE  /\ visit'[c] \in Visit /\ visit'[c].step = visit[c].step
               /\ visit'[c].user = visit[c].user /\ visit'[c].token = visit[c].token
    <3>1. visit[c] \in Visit
      BY <1>0
    <3>2. [visit[c] EXCEPT !.replacedAt = clock] \in Visit
      BY <2>1, <3>1 DEF Visit
    <3>3. CASE visit'[c] = visit[c]
      BY <3>1, <3>3
    <3>4. CASE visit'[c] = [visit[c] EXCEPT !.replacedAt = clock]
      BY <3>1, <3>2, <3>4 DEF Visit
    <3> QED BY <2>7, <3>3, <3>4
  <2>9. visit' \in [Clients -> Visit]
    BY <1>1, <2>8 DEF AccountsStep
  <2>10. ExpiriesBounded'
    <3> SUFFICES ASSUME NEW t \in DOMAIN jwts
                 PROVE  /\ jwts'[t].exp <= clock' + JWTExpiry
                        /\ jwts'[t].replacedAt # 0 /\ jwts'[t].overtakenAt = 0 =>
                              jwts'[t].exp <= jwts'[t].replacedAt + JWTExpiry
      BY <2>3 DEF ExpiriesBounded
    <3>1. jwts[t].exp <= clock + JWTExpiry /\ jwts[t].exp \in Nat
      BY DEF SessionsInv, SessionsTypeOK, ExpiriesBounded, Jwt
    <3>2. jwts[t].replacedAt # 0 /\ jwts[t].overtakenAt = 0 =>
              jwts[t].exp <= jwts[t].replacedAt + JWTExpiry
      BY DEF SessionsInv, ExpiriesBounded
    <3> QED BY <2>1, <2>4, <3>1, <3>2
  <2>11. SessionsTypeOK'
    BY <1>0, <2>1, <2>3, <2>4, <2>6, <2>8, <2>9 DEF SessionsInv, SessionsTypeOK, Visit
  <2> QED BY <2>3, <2>6, <2>8, <2>10, <2>11 DEF SessionsInv
<1>2. ASSUME UNCHANGED <<vars, jwts>>, NEW c \in Clients, NEW v \in Visit,
             visit' = [visit EXCEPT ![c] = v], v.step # "idle" => v.user \in DOMAIN users,
             v.step = "authenticated" => v.token \in DOMAIN jwts /\ jwts[v.token].user = v.user
      PROVE  SessionsInv'
  <2>1. visit' \in [Clients -> Visit] /\ visit'[c] = v
        /\ \A d \in Clients \ {c} : visit'[d] = visit[d]
    BY <1>0, <1>2
  <2>2. UNCHANGED <<users, clock, jwts>>
    BY <1>2 DEF vars
  <2>3. SessionsTypeOK'
    BY <1>0, <1>2, <2>1, <2>2 DEF SessionsInv, SessionsTypeOK, Visit
  <2> QED BY <1>2, <2>1, <2>2, <2>3 DEF SessionsInv, ExpiriesBounded
<1>3. NoVisit \in Visit /\ NoVisit.step = "idle"
  BY DEF NoVisit, Visit
<1>4. ASSUME NEW c \in Clients, NEW a \in Addresses, NEW p \in Passwords, SignIn(c, a, p)
      PROVE  SessionsInv'
  <2>1. PICK u \in DOMAIN users : visit' = [visit EXCEPT ![c] =
            [step |-> "verify", user |-> u, given |-> {p}, stored |-> {users[u].password},
             replacedAt |-> 0, token |-> 0]]
    BY <1>4 DEF SignIn, WithEmail
  <2>2. u \in 0 .. MaxUsers /\ users[u].password \in Passwords
    <3>1. users[u] \in User
      BY DEF Bookkeeping, TypeOK
    <3> QED BY <3>1, AccountIds DEF User
  <2>3. [step |-> "verify", user |-> u, given |-> {p}, stored |-> {users[u].password},
         replacedAt |-> 0, token |-> 0] \in Visit
    BY <2>2 DEF Visit
  <2> QED BY <1>2, <1>4, <2>1, <2>3 DEF SignIn
<1>5. ASSUME NEW c \in Clients, IssueToken(c) PROVE SessionsInv'
  <2> DEFINE j == [user |-> visit[c].user, exp |-> clock + JWTExpiry,
                   replacedAt |-> visit[c].replacedAt, overtakenAt |-> visit[c].replacedAt]
  <2>1. /\ visit[c].step = "verify" /\ Len(jwts) < MaxJwts /\ jwts' = Append(jwts, j)
        /\ visit' = [visit EXCEPT ![c] = NoVisit] /\ UNCHANGED <<users, clock>>
    BY <1>5 DEF IssueToken, vars
  <2>2. visit[c] \in Visit /\ visit[c].user \in DOMAIN users
    BY <1>0, <2>1 DEF SessionsInv, SessionsTypeOK
  <2>3. clock \in 1 .. MaxTime
    BY DEF Bookkeeping, TypeOK
  <2>4. j \in Jwt
    BY <2>2, <2>3, AccountIds DEF Jwt, Visit
  <2>5. /\ j.exp = clock + JWTExpiry /\ j.user \in DOMAIN users
        /\ j.overtakenAt = j.replacedAt
    BY <2>2
  <2> HIDE DEF j
  <2>6. /\ jwts' \in Seq(Jwt) /\ Len(jwts') = Len(jwts) + 1 /\ jwts'[Len(jwts) + 1] = j
        /\ \A t \in 1 .. Len(jwts) : jwts'[t] = jwts[t]
    BY <2>1, <2>4 DEF SessionsInv
  <2>7. /\ DOMAIN jwts' = 1 .. Len(jwts) + 1 /\ Len(jwts') \in 0 .. MaxJwts
        /\ jwts' \in [1 .. Len(jwts') -> Jwt]
    <3>1. Len(jwts') \in 0 .. MaxJwts
      BY <1>0, <2>1, <2>6
    <3>2. DOMAIN jwts' = 1 .. Len(jwts') /\ jwts' \in [1 .. Len(jwts') -> Jwt]
      BY <2>6, LenProperties
    <3> QED BY <2>6, <3>1, <3>2
  <2>8. ExpiriesBounded'
    <3>1. \A t \in DOMAIN jwts :
             /\ jwts'[t].exp <= clock' + JWTExpiry
             /\ jwts'[t].replacedAt # 0 /\ jwts'[t].overtakenAt = 0 =>
                   jwts'[t].exp <= jwts'[t].replacedAt + JWTExpiry
      BY <1>0, <2>1, <2>6 DEF SessionsInv, ExpiriesBounded
    <3>2. /\ jwts'[Len(jwts) + 1].exp <= clock' + JWTExpiry
          /\ jwts'[Len(jwts) + 1].replacedAt # 0 => jwts'[Len(jwts) + 1].overtakenAt # 0
      <4>1. jwts'[Len(jwts) + 1] = j /\ clock' = clock
        BY <2>1, <2>6
      <4>2. j.exp <= clock + JWTExpiry
        BY <2>3, <2>5
      <4>3. j.replacedAt # 0 => j.overtakenAt # 0
        BY <2>5
      <4>4. jwts'[Len(jwts) + 1].exp <= clock' + JWTExpiry
        BY <4>1, <4>2
      <4>5. jwts'[Len(jwts) + 1].replacedAt # 0 => jwts'[Len(jwts) + 1].overtakenAt # 0
        BY <4>1, <4>3
      <4> QED BY <4>4, <4>5
    <3>3. \A t \in DOMAIN jwts' : t \in DOMAIN jwts \/ t = Len(jwts) + 1
      BY <1>0, <2>7
    <3> SUFFICES ASSUME NEW t \in DOMAIN jwts'
                 PROVE  /\ jwts'[t].exp <= clock' + JWTExpiry
                        /\ jwts'[t].replacedAt # 0 /\ jwts'[t].overtakenAt = 0 =>
                              jwts'[t].exp <= jwts'[t].replacedAt + JWTExpiry
      BY DEF ExpiriesBounded
    <3>4. CASE t \in DOMAIN jwts
      BY <3>1, <3>4
    <3>5. CASE t = Len(jwts) + 1
      BY <3>2, <3>5
    <3> QED BY <3>3, <3>4, <3>5
  <2>9. visit' \in [Clients -> Visit] /\ visit'[c].step = "idle"
        /\ \A d \in Clients \ {c} : visit'[d] = visit[d]
    BY <1>0, <1>3, <2>1
  <2>10. SessionsTypeOK'
    BY <1>0, <2>1, <2>5, <2>6, <2>7, <2>9, SMTT(30) DEF SessionsInv, SessionsTypeOK, Visit
  <2> QED BY <1>0, <2>6, <2>7, <2>8, <2>9, <2>10 DEF SessionsInv
<1>6. ASSUME NEW c \in Clients, RefuseSignIn(c) \/ Answer(c) PROVE SessionsInv'
  BY <1>2, <1>3, <1>6 DEF RefuseSignIn, Answer
<1>7. ASSUME NEW c \in Clients, NEW t \in 1 .. MaxJwts, RequireAuth(c, t)
      PROVE  SessionsInv'
  <2> DEFINE v == [step |-> "authenticated", user |-> jwts[t].user, given |-> {},
                   stored |-> {}, replacedAt |-> 0, token |-> t]
  <2>1. t \in DOMAIN jwts /\ jwts[t].user \in DOMAIN users
    BY <1>7 DEF RequireAuth, ParseToken
  <2>2. v \in Visit
    BY <2>1, AccountIds DEF Visit
  <2> QED BY <1>2, <1>7, <2>1, <2>2 DEF RequireAuth
<1>8. CASE UNCHANGED allVars
  <2>1. UNCHANGED <<users, clock, jwts, visit>>
    BY <1>8 DEF allVars, sessions, vars
  <2> QED BY <1>0, <2>1 DEF SessionsInv, SessionsTypeOK, ExpiriesBounded
<1> QED BY <1>1, <1>4, <1>5, <1>6, <1>7, <1>8 DEF SNext

\* ParseToken accepts no expired token, and the time a token expires at is bounded.
LEMMA AcceptanceStep ==
    SessionsInv /\ Bookkeeping /\ [SNext]_allVars =>
        [\A c \in Clients :
            visit[c].step = "idle" /\ visit'[c].step = "authenticated" =>
                LET j == jwts[visit'[c].token] IN
                j.replacedAt = 0 \/ j.overtakenAt # 0 \/ clock < j.replacedAt + JWTExpiry]_allVars
<1> SUFFICES ASSUME SessionsInv, Bookkeeping, [SNext]_allVars, NEW c \in Clients,
                    visit[c].step = "idle", visit'[c].step = "authenticated",
                    jwts[visit'[c].token].replacedAt # 0, jwts[visit'[c].token].overtakenAt = 0
             PROVE  clock < jwts[visit'[c].token].replacedAt + JWTExpiry
  OBVIOUS
<1>1. PICK t \in 1 .. MaxJwts : RequireAuth(c, t)
  <2>1. visit \in [Clients -> Visit]
    BY DEF SessionsInv, SessionsTypeOK, Visit
  <2>2. ~AccountsStep
    BY <2>1 DEF AccountsStep, Marked, Replaces, Visit
  <2>3. \A d \in Clients :
            /\ \A a \in Addresses, p \in Passwords : ~SignIn(d, a, p)
            /\ ~IssueToken(d) /\ ~RefuseSignIn(d) /\ ~Answer(d)
    BY <2>1 DEF SignIn, IssueToken, RefuseSignIn, Answer, NoVisit
  <2>4. \A d \in Clients, t \in 1 .. MaxJwts : RequireAuth(d, t) => d = c
    BY <2>1 DEF RequireAuth
  <2> QED BY <2>2, <2>3, <2>4 DEF SNext, allVars, sessions
<1>2. visit'[c].token = t /\ t \in DOMAIN jwts /\ clock < jwts[t].exp
  BY <1>1 DEF RequireAuth, ParseToken, SessionsInv, SessionsTypeOK
<1>3. jwts[t] \in Jwt /\ clock \in Nat
  <2>1. clock \in Nat
    BY DEF Bookkeeping, TypeOK
  <2>2. jwts \in [DOMAIN jwts -> Jwt]
    BY DEF SessionsInv, SessionsTypeOK
  <2> QED BY <1>2, <2>1, <2>2
<1>4. jwts[t].exp <= jwts[t].replacedAt + JWTExpiry
  BY <1>2 DEF SessionsInv, ExpiriesBounded
<1>5. jwts[t].exp \in Nat /\ jwts[t].replacedAt \in Nat
  BY <1>3, BoundsAssumption DEF Jwt
<1> QED BY <1>2, <1>3, <1>4, <1>5, JWTExpiryAssumption

-----------------------------------------------------------------------------
\* The inductive invariant, beside that of Accounts.
LEMMA SessionsInvHolds == SSpec => [](Bookkeeping /\ SessionsInv)
<1>1. SSpec => []Bookkeeping
  BY SessionsImplementsAccounts, BookkeepingHolds, PTL
<1> QED BY <1>1, SessionsInit, SessionsStep, PTL DEF SSpec

\* Every token names an account, and every request under way one it was issued to.
THEOREM SessionsTypeCorrect == SSpec => []SessionsTypeOK
<1>1. SessionsInv => SessionsTypeOK
  BY DEF SessionsInv
<1> QED BY <1>1, SessionsInvHolds, PTL

\* RequireAuth accepts no token issued before a password reset for longer than
\* JWTExpiry after it, but those whose sign-in the reset overtook.
THEOREM OldSessionsDoEnd == SSpec => OldSessionsEnd
BY SessionsInvHolds, AcceptanceStep, PTL DEF SSpec, OldSessionsEnd

\* What holds of the accounts alone holds while requests sign in and authenticate.
THEOREM AccountsKept ==
    SSpec => /\ [](OneAccountPerMailbox /\ TokenAndTimeTogether)
             /\ AcceptedUnused /\ AcceptedInTime /\ ErasedOnlyInRaces
BY SessionsImplementsAccounts, OneAccountEach, TokensKeepTheirTime, TokensAcceptedUnused,
   TokensAcceptedInTime, TokensErasedOnlyInRaces, PTL

=============================================================================
