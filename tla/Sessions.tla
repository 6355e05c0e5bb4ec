------------------------------ MODULE Sessions ------------------------------
(***************************************************************************)
(* Signing in, and what a sign-in is worth afterwards, on top of Accounts. *)
(* A session is a JWT: the server keeps nothing, sign-out does nothing,    *)
(* and a token opens its account until it expires, whatever happens to the *)
(* password.  Sign-in reads the account, compares the password it was      *)
(* given with the digest it read (bcrypt, which takes its time), and then  *)
(* issues the token; password resets run in between.                       *)
(***************************************************************************)
EXTENDS Accounts, Sequences

CONSTANTS
    Clients,     \* requests that sign in or carry a token, at once (a bound in TLC)
    JWTExpiry,   \* how long a token is valid
    MaxJwts      \* bound on the tokens issued

ASSUME JWTExpiryAssumption == JWTExpiry \in Nat
ASSUME MaxJwtsAssumption == MaxJwts \in Nat

VARIABLES
    jwts,        \* the tokens issued, by number
    visit        \* the request of each client

sessions == <<jwts, visit>>
allVars == <<vars, sessions>>

\* What a token says, and history: the first time after its sign-in had read the
\* account that the account's password was replaced (0: never), and the same if
\* the token was issued only after that.
Jwt == [user : 1 .. MaxUsers, exp : Nat, replacedAt : 0 .. MaxTime,
        overtakenAt : 0 .. MaxTime]

NoVisit == [step |-> "idle", user |-> 0, given |-> {}, stored |-> {},
            replacedAt |-> 0, token |-> 0]

\* Mutant: the exp claim is not looked at.
ParseAnyToken(t) == t \in DOMAIN jwts

\* A token is valid strictly before its exp claim.
ParseToken(t) == t \in DOMAIN jwts /\ clock < jwts[t].exp

SInit ==
    /\ Init
    /\ jwts = <<>>
    /\ visit = [c \in Clients |-> NoVisit]

\* History: a step of Accounts replaces the password of account u.
Replaces(u) == u \in DOMAIN users /\ users'[u].password # users[u].password

Marked(x) == IF x.replacedAt = 0 /\ Replaces(x.user)
             THEN [x EXCEPT !.replacedAt = clock] ELSE x

\* A step of Accounts.  What it does to tokens and visits is history.
AccountsStep ==
    /\ Next
    /\ jwts' = [t \in DOMAIN jwts |-> Marked(jwts[t])]
    /\ visit' = [c \in Clients |->
            IF visit[c].step = "verify" THEN Marked(visit[c]) ELSE visit[c]]

\* signIn's SELECT.  An unknown address is refused.
SignIn(c, a, p) ==
    /\ visit[c].step = "idle"
    /\ \E u \in WithEmail(normalizeEmail(a)) :
        visit' = [visit EXCEPT ![c] = [step |-> "verify", user |-> u, given |-> {p},
            stored |-> {users[u].password}, replacedAt |-> 0, token |-> 0]]
    /\ UNCHANGED <<vars, jwts>>

\* VerifyPassword, with the digest that was read.
VerifyPassword(c) == visit[c].given = visit[c].stored

IssueToken(c) ==
    LET v == visit[c] IN
    /\ v.step = "verify"
    /\ VerifyPassword(c)
    /\ Len(jwts) < MaxJwts
    /\ jwts' = Append(jwts, [user |-> v.user, exp |-> clock + JWTExpiry,
                            replacedAt |-> v.replacedAt, overtakenAt |-> v.replacedAt])
    /\ visit' = [visit EXCEPT ![c] = NoVisit]
    /\ UNCHANGED vars

\* 401 for a wrong password, and for any other failure of the SELECT too.
RefuseSignIn(c) ==
    /\ visit[c].step = "verify"
    /\ ~VerifyPassword(c)
    /\ visit' = [visit EXCEPT ![c] = NoVisit]
    /\ UNCHANGED <<vars, jwts>>

\* RequireAuth: the token and then the account it names.
RequireAuth(c, t) ==
    /\ visit[c].step = "idle"
    /\ ParseToken(t)
    /\ jwts[t].user \in DOMAIN users
    /\ visit' = [visit EXCEPT ![c] = [step |-> "authenticated", user |-> jwts[t].user,
            given |-> {}, stored |-> {}, replacedAt |-> 0, token |-> t]]
    /\ UNCHANGED <<vars, jwts>>

\* The handler behind the middleware has answered.
Answer(c) ==
    /\ visit[c].step = "authenticated"
    /\ visit' = [visit EXCEPT ![c] = NoVisit]
    /\ UNCHANGED <<vars, jwts>>

SNext ==
    \/ AccountsStep
    \/ \E c \in Clients :
        \/ \E a \in Addresses, p \in Passwords : SignIn(c, a, p)
        \/ IssueToken(c)
        \/ RefuseSignIn(c)
        \/ \E t \in 1 .. MaxJwts : RequireAuth(c, t)
        \/ Answer(c)

SSpec == SInit /\ [][SNext]_allVars

-----------------------------------------------------------------------------
\* Accounts, tokens and visits are of their types; a token names an account, and
\* the visit it authenticates is one of that account.
SessionsTypeOK ==
    /\ TypeOK
    /\ jwts \in [1 .. Len(jwts) -> Jwt] /\ Len(jwts) <= MaxJwts
    /\ \A t \in DOMAIN jwts : jwts[t].user \in DOMAIN users
    /\ visit \in [Clients -> [step : {"idle", "verify", "authenticated"},
                              user : 0 .. MaxUsers, given : SUBSET Passwords,
                              stored : SUBSET Passwords, replacedAt : 0 .. MaxTime,
                              token : 0 .. MaxJwts]]
    /\ \A c \in Clients :
        /\ visit[c].step # "idle" => visit[c].user \in DOMAIN users
        /\ visit[c].step = "authenticated" => jwts[visit[c].token].user = visit[c].user

\* What a password reset does to the sessions of the old password: although no
\* token is ever revoked, JWTExpiry after the reset none of them is accepted
\* any more, but for those of a sign-in that the reset overtook.
OldSessionsEnd == [][\A c \in Clients :
    visit[c].step = "idle" /\ visit'[c].step = "authenticated" =>
        LET j == jwts[visit'[c].token] IN
        j.replacedAt = 0 \/ j.overtakenAt # 0 \/ clock < j.replacedAt + JWTExpiry]_allVars

=============================================================================
