------------------------------ MODULE Accounts ------------------------------
(***************************************************************************)
(* Registration and password resets: the handlers of register.go and       *)
(* password_reset.go over the users table.  A reset has two requests, one  *)
(* that stores a token's digest with its time and one that presents the    *)
(* token.  Both read the user's row first and update it by its id later,   *)
(* in another statement, and between the two other requests run.           *)
(*                                                                         *)
(* A password is represented by itself rather than by its bcrypt hash, a   *)
(* token by a number rather than by its digest, and NULL by 0.  An address *)
(* is a mailbox with the way it is spelled, capitals and blanks.           *)
(***************************************************************************)
EXTENDS Naturals, FiniteSets

CONSTANTS
    Mailboxes,
    Passwords,   \* passwords that validation accepts
    Handlers,    \* request handlers in flight at once (a bound in TLC)
    Window,      \* resetPasswordWithin, in ticks of the clock
    MaxUsers,    \* bound on the accounts
    MaxTokens,   \* bound on the tokens ever generated
    MaxTime      \* bound on the clock

ASSUME WindowAssumption == Window \in Nat
ASSUME BoundsAssumption == MaxUsers \in Nat /\ MaxTokens \in Nat /\ MaxTime \in Nat \ {0}

VARIABLES
    users,       \* rows of users, by id
    generated,   \* how many tokens have been generated
    clock,       \* time.Now() of the server, from 1
    pc,          \* the next step of each handler
    loc,         \* its local variables
    issued,      \* history: when each token was generated, and for which account
    uses,        \* history: how often each token has set a password
    crossed      \* history: tokens stored while the columns were about to be cleared

vars == <<users, generated, clock, pc, loc, issued, uses, crossed>>
history == <<issued, uses, crossed>>

Addresses == [box : Mailboxes, spelling : {"plain", "mixed"}]
User == [email : Addresses, password : Passwords,
         token : 0 .. MaxTokens, sentAt : 0 .. MaxTime]
NoLocals == [user |-> 0, token |-> 0, at |-> 0, password |-> {}]

\* Mutant: the address is stored and looked up as it was typed.
keepEmail(a) == a

\* ToLower and TrimSpace
normalizeEmail(a) == [a EXCEPT !.spelling = "plain"]

WithEmail(a) == {u \in DOMAIN users : users[u].email = a}

Goto(h, step) == pc' = [pc EXCEPT ![h] = step]
Done(h) == Goto(h, "idle") /\ loc' = [loc EXCEPT ![h] = NoLocals]

-----------------------------------------------------------------------------
Init ==
    /\ users = [u \in {} |-> 0]
    /\ generated = 0
    /\ clock = 1
    /\ pc = [h \in Handlers |-> "idle"]
    /\ loc = [h \in Handlers |-> NoLocals]
    /\ issued = [t \in {} |-> 0]
    /\ uses = [t \in {} |-> 0]
    /\ crossed = {}

\* One INSERT, which the unique index on email refuses if it is taken.
RegisterUser(a, p) ==
    LET id == Cardinality(DOMAIN users) + 1 IN
    /\ id <= MaxUsers
    /\ WithEmail(normalizeEmail(a)) = {}
    /\ users' = [u \in DOMAIN users \cup {id} |->
            IF u = id THEN [email |-> normalizeEmail(a), password |-> p,
                            token |-> 0, sentAt |-> 0]
            ELSE users[u]]
    /\ UNCHANGED <<generated, clock, pc, loc, history>>

\* createPasswordReset's SELECT.  An unknown address is answered all the same.
CreatePasswordReset(h, a) ==
    /\ pc[h] = "idle"
    /\ \E u \in WithEmail(normalizeEmail(a)) :
        /\ Goto(h, "generate")
        /\ loc' = [loc EXCEPT ![h] = [NoLocals EXCEPT !.user = u]]
    /\ UNCHANGED <<users, generated, clock, history>>

\* Mutant: the generator returns the same token every time.
GenerateSame(h) ==
    /\ pc[h] = "generate"
    /\ generated' = 1
    /\ Goto(h, "store")
    /\ loc' = [loc EXCEPT ![h].token = 1, ![h].at = clock]
    /\ issued' = [t \in {1} |-> [user |-> loc[h].user, at |-> clock]]
    /\ uses' = [t \in {1} |-> 0]
    /\ UNCHANGED <<users, clock, crossed>>

\* issueResetToken, up to its UPDATE: a fresh token and the time.
GenerateResetToken(h) ==
    /\ pc[h] = "generate"
    /\ generated < MaxTokens
    /\ generated' = generated + 1
    /\ Goto(h, "store")
    /\ loc' = [loc EXCEPT ![h].token = generated', ![h].at = clock]
    /\ issued' = [t \in 1 .. generated' |->
            IF t = generated' THEN [user |-> loc[h].user, at |-> clock] ELSE issued[t]]
    /\ uses' = [t \in 1 .. generated' |-> IF t = generated' THEN 0 ELSE uses[t]]
    /\ UNCHANGED <<users, clock, crossed>>

\* A request has been accepted to set the password of u, and is to clear its token.
Consuming(u) == \E g \in Handlers : pc[g] = "consume" /\ loc[g].user = u

\* Mutant: a time that is set already is not renewed.
StoreTokenOnly(h) ==
    LET u == loc[h].user IN
    /\ pc[h] = "store"
    /\ users' = [users EXCEPT ![u].token = loc[h].token,
                              ![u].sentAt = IF @ = 0 THEN loc[h].at ELSE @]
    /\ crossed' = IF Consuming(u) THEN crossed \cup {loc[h].token} ELSE crossed
    /\ Done(h)
    /\ UNCHANGED <<generated, clock, issued, uses>>

\* UPDATE users SET reset_password_token, reset_password_sent_at WHERE id
StoreToken(h) ==
    LET u == loc[h].user IN
    /\ pc[h] = "store"
    /\ users' = [users EXCEPT ![u].token = loc[h].token, ![u].sentAt = loc[h].at]
    /\ crossed' = IF Consuming(u) THEN crossed \cup {loc[h].token} ELSE crossed
    /\ Done(h)
    /\ UNCHANGED <<generated, clock, issued, uses>>

\* Mutant: tokens do not expire.
AnyAge(u) == users[u].sentAt # 0

\* A token whose time is NULL counts as expired.
Current(u) == users[u].sentAt # 0 /\ clock - users[u].sentAt <= Window

\* Mutant: any token that was ever issued for the account will do.
AcceptIssued(h, t, p) ==
    /\ pc[h] = "idle"
    /\ t \in 1 .. generated
    /\ \E u \in DOMAIN users :
        /\ issued[t].user = u
        /\ Current(u)
        /\ loc' = [loc EXCEPT ![h] = [user |-> u, token |-> t, at |-> 0, password |-> {p}]]
    /\ Goto(h, "consume")
    /\ UNCHANGED <<users, generated, clock, history>>

\* updatePasswordReset's SELECT by the digest, and its checks.  A request that
\* fails one of them changes nothing.
UpdatePasswordReset(h, t, p) ==
    /\ pc[h] = "idle"
    /\ t \in 1 .. generated
    /\ \E u \in DOMAIN users :
        /\ users[u].token = t
        /\ Current(u)
        /\ loc' = [loc EXCEPT ![h] = [user |-> u, token |-> t, at |-> 0, password |-> {p}]]
    /\ Goto(h, "consume")
    /\ UNCHANGED <<users, generated, clock, history>>

\* Mutant: the token stays.
ConsumeKeepsToken(h) ==
    /\ pc[h] = "consume"
    /\ users' = [users EXCEPT ![loc[h].user].password = CHOOSE p \in loc[h].password : TRUE]
    /\ uses' = [uses EXCEPT ![loc[h].token] = @ + 1]
    /\ Done(h)
    /\ UNCHANGED <<generated, clock, issued, crossed>>

\* UPDATE users SET encrypted_password, and both token columns NULL, WHERE id:
\* it does not look at the token again.
ConsumeToken(h) ==
    LET u == loc[h].user IN
    /\ pc[h] = "consume"
    /\ \E p \in loc[h].password :
        users' = [users EXCEPT ![u].password = p, ![u].token = 0, ![u].sentAt = 0]
    /\ uses' = [uses EXCEPT ![loc[h].token] = @ + 1]
    /\ Done(h)
    /\ UNCHANGED <<generated, clock, issued, crossed>>

\* A statement fails or the server stops.
Fail(h) ==
    /\ pc[h] # "idle"
    /\ Done(h)
    /\ UNCHANGED <<users, generated, clock, history>>

Tick ==
    /\ clock < MaxTime
    /\ clock' = clock + 1
    /\ UNCHANGED <<users, generated, pc, loc, history>>

Next ==
    \/ \E a \in Addresses, p \in Passwords : RegisterUser(a, p)
    \/ \E h \in Handlers :
        \/ \E a \in Addresses : CreatePasswordReset(h, a)
        \/ \E t \in 1 .. MaxTokens, p \in Passwords : UpdatePasswordReset(h, t, p)
        \/ GenerateResetToken(h)
        \/ StoreToken(h)
        \/ ConsumeToken(h)
        \/ Fail(h)
    \/ Tick

Spec == Init /\ [][Next]_vars

-----------------------------------------------------------------------------
\* Rows and locals are of their types, and no two accounts hold one token.
TypeOK ==
    /\ users \in [DOMAIN users -> User]
    /\ generated \in 0 .. MaxTokens /\ clock \in 1 .. MaxTime
    /\ pc \in [Handlers -> {"idle", "generate", "store", "consume"}]
    /\ \A h \in Handlers :
        /\ pc[h] # "idle" => loc[h].user \in DOMAIN users
        /\ pc[h] \in {"store", "consume"} => loc[h].token \in 1 .. generated
        /\ pc[h] = "consume" => \E p \in Passwords : loc[h].password = {p}
    /\ issued \in [1 .. generated -> [user : DOMAIN users, at : 1 .. MaxTime]]
    /\ uses \in [1 .. generated -> Nat]
    /\ crossed \subseteq 1 .. generated
    /\ \A u, v \in DOMAIN users : u # v /\ users[u].token # 0 => users[u].token # users[v].token

\* One account per mailbox, however its address is spelled and whoever registers
\* at the same time.
OneAccountPerMailbox == \A u, v \in DOMAIN users :
    users[u].email.box = users[v].email.box => u = v

\* The two token columns belong together: reset_password_sent_at is the time the
\* stored token was generated, for this account, however resets overlap.
TokenAndTimeTogether == \A u \in DOMAIN users :
    IF users[u].token = 0 THEN users[u].sentAt = 0
    ELSE issued[users[u].token] = [user |-> u, at |-> users[u].sentAt]

\* A token that has set a password is never accepted again, whatever was stored and
\* cleared since: it sets a second one only through requests that had all read it
\* before the first of them was done.
AcceptedUnused == [][\A h \in Handlers :
    pc[h] = "idle" /\ pc'[h] = "consume" => uses[loc'[h].token] = 0]_vars

\* A token is never accepted later than its window after it was generated, nor
\* for another account, whatever was stored over it and cleared in between.
AcceptedInTime == [][\A h \in Handlers :
    LET t == loc'[h].token IN
    pc[h] = "idle" /\ pc'[h] = "consume" =>
        /\ clock - issued[t].at <= Window
        /\ loc'[h].user = issued[t].user]_vars

\* The UPDATE that clears a token names the account, not the token it was accepted
\* for.  A token that nobody has used is erased all the same only when it was stored
\* between the two statements of a request that presented an earlier one.
ErasedOnlyInRaces == [][\A u \in DOMAIN users :
    LET t == users[u].token IN
    t # 0 /\ t \notin crossed /\ users'[u].token = 0 => uses'[t] > uses[t]]_vars

=============================================================================
