--------------------------- MODULE AccountsProofs ---------------------------
(***************************************************************************)
(* Proofs about Accounts, for any mailboxes, passwords, handlers and       *)
(* window, and any number of accounts, tokens and ticks.                   *)
(***************************************************************************)
EXTENDS Accounts, FiniteSetTheorems, TLAPS

Locals == [user : Nat, token : Nat, at : Nat, password : SUBSET Passwords]

\* Ids are given in order, by the number of rows, so that none is given twice.
IdsInOrder == \E n \in 0 .. MaxUsers : DOMAIN users = 1 .. n

\* Every stored address has been normalized.
PlainAddresses == \A u \in DOMAIN users : users[u].email.spelling = "plain"

\* Only generated tokens are stored.
TokensGenerated == \A u \in DOMAIN users : users[u].token \in 0 .. generated

\* A token on its way to its row carries what was noted when it was generated,
\* and nobody else has it; one on its way to be consumed is its account's.
TokensOnTheirWay == \A h \in Handlers :
    /\ pc[h] = "store" =>
        /\ issued[loc[h].token] = [user |-> loc[h].user, at |-> loc[h].at]
        /\ \A u \in DOMAIN users : users[u].token # loc[h].token
        /\ \A g \in Handlers \ {h} :
              pc[g] \in {"store", "consume"} => loc[g].token # loc[h].token
    /\ pc[h] = "consume" => issued[loc[h].token].user = loc[h].user

\* A request about to clear a token presented that one, unless another was stored
\* since or the column is cleared already.
ConsumersPresentIt == \A h \in Handlers : pc[h] = "consume" =>
    users[loc[h].user].token \in crossed \cup {0, loc[h].token}

\* A token that is stored, or is about to be, has not been used.
UnusedTokens ==
    /\ \A u \in DOMAIN users : users[u].token # 0 => uses[users[u].token] = 0
    /\ \A h \in Handlers : pc[h] = "store" => uses[loc[h].token] = 0

Bookkeeping ==
    /\ TypeOK
    /\ loc \in [Handlers -> Locals]
    /\ IdsInOrder
    /\ TokensGenerated
    /\ TokensOnTheirWay
    /\ TokenAndTimeTogether

-----------------------------------------------------------------------------
\* The locals a request starts with.
LEMMA NoLocalsTyped == NoLocals \in Locals
BY DEF NoLocals, Locals

\* The server starts with no account, token or request.
LEMMA BookkeepingInit == Init => Bookkeeping
<1> SUFFICES ASSUME Init PROVE Bookkeeping
  OBVIOUS
<1>1. DOMAIN users = 1 .. 0
  BY DEF Init
<1>2. IdsInOrder
  BY <1>1, BoundsAssumption DEF IdsInOrder
<1>3. loc \in [Handlers -> Locals]
  BY NoLocalsTyped DEF Init
<1> QED BY <1>2, <1>3, BoundsAssumption
        DEF Init, Bookkeeping, TypeOK, TokensGenerated, TokensOnTheirWay, TokenAndTimeTogether

\* The id of a new account, and the ids after it.
LEMMA NextId ==
    ASSUME IdsInOrder
    PROVE  LET id == Cardinality(DOMAIN users) + 1 IN
           id \notin DOMAIN users /\ DOMAIN users \cup {id} = 1 .. id /\ id \in Nat
<1>1. PICK n \in 0 .. MaxUsers : DOMAIN users = 1 .. n
  BY DEF IdsInOrder
<1>2. Cardinality(1 .. n) = n
  BY <1>1, FS_Interval
<1> QED BY <1>1, <1>2

\* Only tokens that were generated are stored, crossed or not.
LEMMA CrossedStep == TypeOK /\ [Next]_vars => crossed' \subseteq 1 .. generated'
<1> SUFFICES ASSUME TypeOK, [Next]_vars PROVE crossed' \subseteq 1 .. generated'
  OBVIOUS
<1>1. generated \in Nat /\ crossed \subseteq 1 .. generated
  BY BoundsAssumption DEF TypeOK
<1>2. ASSUME NEW h \in Handlers, GenerateResetToken(h)
      PROVE  crossed' = crossed /\ generated' = generated + 1
  BY <1>2 DEF GenerateResetToken
<1>3. ASSUME NEW h \in Handlers, StoreToken(h)
      PROVE  crossed' \subseteq 1 .. generated /\ generated' = generated
  BY <1>1, <1>3 DEF StoreToken, TypeOK
<1>4. ASSUME NEW a \in Addresses, NEW p \in Passwords, RegisterUser(a, p)
      PROVE  generated' = generated /\ crossed' = crossed
  BY <1>4 DEF RegisterUser, history
<1>5. ASSUME NEW h \in Handlers,
             \/ \E a \in Addresses : CreatePasswordReset(h, a)
             \/ \E t \in 1 .. MaxTokens, p \in Passwords : UpdatePasswordReset(h, t, p)
             \/ ConsumeToken(h)
             \/ Fail(h)
      PROVE  generated' = generated /\ crossed' = crossed
  BY <1>5 DEF CreatePasswordReset, UpdatePasswordReset, ConsumeToken, Fail, history
<1>6. Tick \/ UNCHANGED vars => generated' = generated /\ crossed' = crossed
  BY DEF Tick, vars, history
<1>7. \/ generated' = generated /\ crossed' = crossed
      \/ crossed' = crossed /\ generated' = generated + 1
      \/ crossed' \subseteq 1 .. generated /\ generated' = generated
  BY <1>2, <1>3, <1>4, <1>5, <1>6 DEF Next
<1>8. 1 .. generated \subseteq 1 .. generated + 1
  BY <1>1
<1> QED BY <1>1, <1>7, <1>8, Zenon

\* Each step keeps tokens with their times and apart from each other.
LEMMA BookkeepingStep == Bookkeeping /\ [Next]_vars => Bookkeeping'
<1> SUFFICES ASSUME Bookkeeping, [Next]_vars PROVE Bookkeeping'
  OBVIOUS
<1>0. crossed' \subseteq 1 .. generated'
  BY CrossedStep DEF Bookkeeping
<1> USE <1>0, BoundsAssumption DEF Bookkeeping, Done, Goto, history
<1>1. ASSUME NEW a \in Addresses, NEW p \in Passwords, RegisterUser(a, p)
      PROVE  Bookkeeping'
  <2>1. PICK id \in Nat : /\ id \notin DOMAIN users /\ id <= MaxUsers
                          /\ DOMAIN users' = DOMAIN users \cup {id} /\ DOMAIN users' = 1 .. id
                          /\ users'[id] = [email |-> normalizeEmail(a), password |-> p,
                                           token |-> 0, sentAt |-> 0]
                          /\ \A u \in DOMAIN users : users'[u] = users[u]
    BY <1>1, NextId DEF RegisterUser
  <2>2. normalizeEmail(a) \in Addresses
    BY DEF normalizeEmail, Addresses
  <2>3. users' \in [DOMAIN users' -> User]
    BY <1>1, <2>1, <2>2 DEF RegisterUser, TypeOK, User
  <2>4. UNCHANGED <<generated, clock, pc, loc, history>>
    BY <1>1 DEF RegisterUser
  <2>5. users'[id].token = 0 /\ users'[id].sentAt = 0
    BY <2>1
  <2>6. TypeOK'
    <3>1. issued' \in [1 .. generated' -> [user : DOMAIN users', at : 1 .. MaxTime]]
      BY <2>1, <2>4 DEF TypeOK
    <3>2. \A u, v \in DOMAIN users' :
             u # v /\ users'[u].token # 0 => users'[u].token # users'[v].token
      BY <2>1, <2>5 DEF TypeOK
    <3>3. \A h \in Handlers : pc'[h] # "idle" => loc'[h].user \in DOMAIN users'
      BY <2>1, <2>4 DEF TypeOK
    <3> QED BY <2>3, <2>4, <3>1, <3>2, <3>3 DEF TypeOK
  <2>7. IdsInOrder'
    BY <2>1 DEF IdsInOrder
  <2>8. TokenAndTimeTogether'
    BY <2>1, <2>4, <2>5 DEF TokenAndTimeTogether
  <2>9. TokensOnTheirWay'
    <3>1. \A h \in Handlers : pc[h] = "store" => loc[h].token # 0
      BY DEF TypeOK
    <3> QED BY <2>1, <2>4, <2>5, <3>1 DEF TokensOnTheirWay
  <2>10. TokensGenerated'
    <3>1. generated \in Nat
      BY DEF TypeOK
    <3> QED BY <2>1, <2>4, <2>5, <3>1 DEF TokensGenerated
  <2> QED BY <2>4, <2>6, <2>7, <2>8, <2>9, <2>10
<1>2. ASSUME NEW h \in Handlers, NEW a \in Addresses, CreatePasswordReset(h, a)
      PROVE  Bookkeeping'
  <2>1. PICK u \in DOMAIN users : /\ pc' = [pc EXCEPT ![h] = "generate"]
                                  /\ loc' = [loc EXCEPT ![h] = [NoLocals EXCEPT !.user = u]]
    BY <1>2 DEF CreatePasswordReset, WithEmail
  <2>2. u \in Nat
    BY DEF IdsInOrder
  <2>3. [NoLocals EXCEPT !.user = u] \in Locals
    BY <2>2 DEF NoLocals, Locals
  <2>4. loc' \in [Handlers -> Locals] /\ loc'[h].user = u /\ pc'[h] = "generate"
    BY <2>1, <2>3 DEF TypeOK, NoLocals
  <2>5. \A g \in Handlers \ {h} : pc'[g] = pc[g] /\ loc'[g] = loc[g]
    BY <2>1 DEF TypeOK
  <2>6. UNCHANGED <<users, generated, clock, history>>
    BY <1>2 DEF CreatePasswordReset
  <2>7. TypeOK'
    <3>1. ASSUME NEW g \in Handlers
          PROVE  /\ pc'[g] # "idle" => loc'[g].user \in DOMAIN users'
                 /\ pc'[g] \in {"store", "consume"} => loc'[g].token \in 1 .. generated'
                 /\ pc'[g] = "consume" => \E p \in Passwords : loc'[g].password = {p}
      BY <2>4, <2>5, <2>6 DEF TypeOK
    <3>2. pc' \in [Handlers -> {"idle", "generate", "store", "consume"}]
      BY <2>1 DEF TypeOK
    <3> QED BY <2>6, <3>1, <3>2 DEF TypeOK
  <2>8. TokensOnTheirWay'
    BY <2>4, <2>5, <2>6 DEF TokensOnTheirWay
  <2> QED BY <2>4, <2>6, <2>7, <2>8 DEF IdsInOrder, TokensGenerated, TokenAndTimeTogether
<1>3. ASSUME NEW h \in Handlers, NEW t \in 1 .. MaxTokens, NEW p \in Passwords,
             UpdatePasswordReset(h, t, p)
      PROVE  Bookkeeping'
  <2>1. PICK u \in DOMAIN users :
            /\ users[u].token = t
            /\ loc' = [loc EXCEPT ![h] =
                    [user |-> u, token |-> t, at |-> 0, password |-> {p}]]
    BY <1>3 DEF UpdatePasswordReset
  <2>2. t \in 1 .. generated /\ pc' = [pc EXCEPT ![h] = "consume"]
    BY <1>3 DEF UpdatePasswordReset
  <2>3. UNCHANGED <<users, generated, clock, history>>
    BY <1>3 DEF UpdatePasswordReset
  <2>4. u \in Nat /\ [user |-> u, token |-> t, at |-> 0, password |-> {p}] \in Locals
    BY DEF IdsInOrder, Locals
  <2>5. /\ loc' \in [Handlers -> Locals] /\ pc'[h] = "consume"
        /\ loc'[h] = [user |-> u, token |-> t, at |-> 0, password |-> {p}]
    BY <2>1, <2>2, <2>4 DEF TypeOK
  <2>6. \A g \in Handlers \ {h} : pc'[g] = pc[g] /\ loc'[g] = loc[g]
    BY <2>1, <2>2 DEF TypeOK
  <2>7. TypeOK'
    <3>1. loc'[h].user = u /\ loc'[h].token = t /\ loc'[h].password = {p}
      BY <2>5
    <3>2. ASSUME NEW g \in Handlers
          PROVE  /\ pc'[g] # "idle" => loc'[g].user \in DOMAIN users
                 /\ pc'[g] \in {"store", "consume"} => loc'[g].token \in 1 .. generated
                 /\ pc'[g] = "consume" => \E q \in Passwords : loc'[g].password = {q}
      <4>1. CASE g = h
        BY <2>2, <3>1, <4>1
      <4>2. CASE g # h
        BY <2>6, <4>2 DEF TypeOK
      <4> QED BY <4>1, <4>2
    <3>3. pc' \in [Handlers -> {"idle", "generate", "store", "consume"}]
      BY <2>2 DEF TypeOK
    <3> QED BY <2>3, <3>2, <3>3 DEF TypeOK
  <2>8. issued[t].user = u
    <3>1. t # 0
      OBVIOUS
    <3>2. issued[t] = [user |-> u, at |-> users[u].sentAt]
      BY <2>1, <3>1 DEF TokenAndTimeTogether
    <3> QED BY <3>2
  <2>9. TokensOnTheirWay'
    BY <2>1, <2>3, <2>5, <2>6, <2>8 DEF TokensOnTheirWay
  <2> QED BY <2>3, <2>5, <2>7, <2>9 DEF IdsInOrder, TokensGenerated, TokenAndTimeTogether
<1>4. ASSUME NEW h \in Handlers, GenerateResetToken(h) PROVE Bookkeeping'
  <2> DEFINE new == generated + 1
  <2>1. /\ pc[h] = "generate" /\ pc' = [pc EXCEPT ![h] = "store"]
        /\ generated' = new /\ new \in 1 .. MaxTokens /\ new \notin 1 .. generated
        /\ UNCHANGED <<users, clock>>
    BY <1>4 DEF GenerateResetToken, TypeOK
  <2>2. loc' \in [Handlers -> Locals] /\ loc'[h].user = loc[h].user /\ loc'[h].token = new
            /\ loc'[h].at = clock
    <3> DEFINE a == [loc EXCEPT ![h].token = generated']
               b == [a EXCEPT ![h].at = clock]
    <3>1. loc' = [loc EXCEPT ![h].token = generated', ![h].at = clock]
      BY <1>4 DEF GenerateResetToken
    <3>2. loc' = b
      BY <3>1, Zenon
    <3>3. a \in [Handlers -> Locals] /\ a[h].user = loc[h].user /\ a[h].token = new
      BY <2>1 DEF Locals
    <3> HIDE DEF a
    <3>4. clock \in Nat
      BY DEF TypeOK
    <3> QED BY <3>2, <3>3, <3>4 DEF Locals
  <2>3. \A g \in Handlers \ {h} : pc'[g] = pc[g] /\ loc'[g] = loc[g]
    BY <1>4 DEF GenerateResetToken, TypeOK
  <2>4. issued' = [t \in 1 .. new |->
                IF t = new THEN [user |-> loc[h].user, at |-> clock] ELSE issued[t]]
    BY <1>4, <2>1 DEF GenerateResetToken
  <2>5. generated \in Nat /\ clock \in 1 .. MaxTime /\ loc[h].user \in DOMAIN users
    BY <2>1 DEF TypeOK
  <2>6. /\ DOMAIN issued' = 1 .. new /\ issued'[new] = [user |-> loc[h].user, at |-> clock]
        /\ \A t \in 1 .. generated : issued'[t] = issued[t]
    BY <2>1, <2>4, <2>5
  <2>7. issued' \in [1 .. new -> [user : DOMAIN users, at : 1 .. MaxTime]]
    BY <2>1, <2>4, <2>5 DEF TypeOK
  <2>8. uses' \in [1 .. new -> Nat]
    BY <1>4, <2>1 DEF GenerateResetToken, TypeOK
  <2>9. TokensGenerated'
    BY <2>1 DEF TokensGenerated, TypeOK
  <2> HIDE DEF new
  <2>10. TypeOK'
    <3>1. ASSUME NEW g \in Handlers
          PROVE  /\ pc'[g] # "idle" => loc'[g].user \in DOMAIN users
                 /\ pc'[g] \in {"store", "consume"} => loc'[g].token \in 1 .. new
                 /\ pc'[g] = "consume" => \E p \in Passwords : loc'[g].password = {p}
      <4>1. CASE g = h
        BY <2>1, <2>2, <4>1 DEF TypeOK
      <4>2. CASE g # h
        <5>1. pc'[g] = pc[g] /\ loc'[g] = loc[g]
          BY <2>3, <4>2
        <5>2. /\ pc[g] # "idle" => loc[g].user \in DOMAIN users
              /\ pc[g] \in {"store", "consume"} => loc[g].token \in 1 .. generated
              /\ pc[g] = "consume" => \E p \in Passwords : loc[g].password = {p}
          BY DEF TypeOK
        <5>3. 1 .. generated \subseteq 1 .. new
          BY DEF TypeOK, new
        <5> QED BY <5>1, <5>2, <5>3
      <4> QED BY <4>1, <4>2
    <3>2. pc' \in [Handlers -> {"idle", "generate", "store", "consume"}]
      BY <2>1 DEF TypeOK
    <3>3. generated' \in 0 .. MaxTokens
      BY <2>1
    <3> QED BY <2>1, <2>7, <2>8, <3>1, <3>2, <3>3, ZenonT(30) DEF TypeOK
  <2>11. TokensOnTheirWay'
    BY <2>1, <2>2, <2>3, <2>6, <2>9, SMTT(30) DEF TokensOnTheirWay, TypeOK, TokensGenerated
  <2>12. TokenAndTimeTogether'
    BY <2>1, <2>6 DEF TokenAndTimeTogether, TokensGenerated
  <2> QED BY <2>1, <2>2, <2>9, <2>10, <2>11, <2>12 DEF IdsInOrder
<1>5. ASSUME NEW h \in Handlers, StoreToken(h) PROVE Bookkeeping'
  <2>1. PICK u \in DOMAIN users : u = loc[h].user
    BY <1>5 DEF StoreToken, TypeOK
  <2>2. /\ pc[h] = "store" /\ pc' = [pc EXCEPT ![h] = "idle"]
        /\ loc' = [loc EXCEPT ![h] = NoLocals]
        /\ UNCHANGED <<generated, clock, issued, uses>>
    BY <1>5 DEF StoreToken
  <2>3. /\ loc[h].token \in 1 .. generated
        /\ issued[loc[h].token] = [user |-> u, at |-> loc[h].at]
    BY <2>1, <2>2 DEF TypeOK, TokensOnTheirWay
  <2>4. loc[h].at \in 1 .. MaxTime
    BY <2>3 DEF TypeOK
  <2>5. loc' \in [Handlers -> Locals] /\ pc'[h] = "idle"
    BY <2>2, NoLocalsTyped DEF TypeOK
  <2>6. \A g \in Handlers \ {h} : pc'[g] = pc[g] /\ loc'[g] = loc[g]
    BY <2>2 DEF TypeOK
  <2>7. /\ DOMAIN users' = DOMAIN users
        /\ users'[u].token = loc[h].token /\ users'[u].sentAt = loc[h].at
        /\ \A v \in DOMAIN users \ {u} : users'[v] = users[v]
    BY <1>5, <2>1, ZenonT(30) DEF StoreToken, TypeOK, User
  <2>8. users' \in [DOMAIN users' -> User]
    <3> DEFINE a == [users EXCEPT ![u].token = loc[h].token]
               b == [a EXCEPT ![u].sentAt = loc[h].at]
    <3>1. users' = [users EXCEPT ![u].token = loc[h].token, ![u].sentAt = loc[h].at]
      BY <1>5, <2>1 DEF StoreToken
    <3>2. users' = b
      BY <3>1, Zenon
    <3>3. loc[h].token \in 0 .. MaxTokens /\ loc[h].at \in 0 .. MaxTime
      BY <2>3, <2>4 DEF TypeOK
    <3>4. a \in [DOMAIN users -> User]
      BY <3>3, ZenonT(30) DEF TypeOK, User
    <3> HIDE DEF a
    <3>5. b \in [DOMAIN users -> User]
      BY <3>3, <3>4 DEF User
    <3> QED BY <2>7, <3>2, <3>5
  <2>9. TypeOK'
    <3>1. \A v, w \in DOMAIN users' :
             v # w /\ users'[v].token # 0 => users'[v].token # users'[w].token
      <4>1. \A v \in DOMAIN users : users[v].token # loc[h].token
        BY <2>2 DEF TokensOnTheirWay
      <4> QED BY <2>7, <4>1 DEF TypeOK
    <3>2. ASSUME NEW g \in Handlers
          PROVE  /\ pc'[g] # "idle" => loc'[g].user \in DOMAIN users'
                 /\ pc'[g] \in {"store", "consume"} => loc'[g].token \in 1 .. generated'
                 /\ pc'[g] = "consume" => \E p \in Passwords : loc'[g].password = {p}
      BY <2>2, <2>5, <2>6, <2>7, SMTT(30) DEF TypeOK
    <3>3. pc' \in [Handlers -> {"idle", "generate", "store", "consume"}]
      BY <2>2 DEF TypeOK
    <3>4. issued' \in [1 .. generated' -> [user : DOMAIN users', at : 1 .. MaxTime]]
      BY <2>2, <2>7 DEF TypeOK
    <3>5. /\ generated' \in 0 .. MaxTokens /\ clock' \in 1 .. MaxTime
          /\ uses' \in [1 .. generated' -> Nat]
      BY <2>2 DEF TypeOK
    <3> QED BY <2>2, <2>8, <3>1, <3>2, <3>3, <3>4, <3>5, ZenonT(30) DEF TypeOK
  <2>10. TokensOnTheirWay'
    BY <2>2, <2>5, <2>6, <2>7 DEF TokensOnTheirWay
  <2>11. TokenAndTimeTogether'
    BY <2>2, <2>3, <2>7 DEF TokenAndTimeTogether
  <2>12. TokensGenerated'
    BY <2>2, <2>3, <2>7 DEF TokensGenerated
  <2> QED BY <2>5, <2>7, <2>9, <2>10, <2>11, <2>12 DEF IdsInOrder
<1>6. ASSUME NEW h \in Handlers, ConsumeToken(h) PROVE Bookkeeping'
  <2>1. PICK u \in DOMAIN users : u = loc[h].user
    BY <1>6 DEF ConsumeToken, TypeOK
  <2>2. /\ pc[h] = "consume" /\ pc' = [pc EXCEPT ![h] = "idle"]
        /\ loc' = [loc EXCEPT ![h] = NoLocals]
        /\ uses' = [uses EXCEPT ![loc[h].token] = @ + 1]
        /\ UNCHANGED <<generated, clock, issued>>
    BY <1>6 DEF ConsumeToken
  <2>3. PICK p \in Passwords :
            users' = [users EXCEPT ![u].password = p, ![u].token = 0, ![u].sentAt = 0]
    BY <1>6, <2>1 DEF ConsumeToken, TypeOK, Locals
  <2>4. loc' \in [Handlers -> Locals] /\ pc'[h] = "idle"
    BY <2>2, NoLocalsTyped DEF TypeOK
  <2>5. \A g \in Handlers \ {h} : pc'[g] = pc[g] /\ loc'[g] = loc[g]
    BY <2>2 DEF TypeOK
  <2>6. /\ DOMAIN users' = DOMAIN users
        /\ users'[u].token = 0 /\ users'[u].sentAt = 0
        /\ \A v \in DOMAIN users \ {u} : users'[v] = users[v]
    BY <2>3, ZenonT(30) DEF TypeOK, User
  <2>7. users' \in [DOMAIN users' -> User]
    <3> DEFINE a == [users EXCEPT ![u].password = p]
               b == [a EXCEPT ![u].token = 0]
               c == [b EXCEPT ![u].sentAt = 0]
    <3>1. users' = c
      BY <2>3, Zenon
    <3> HIDE <1>0
    <3>2. a \in [DOMAIN users -> User]
      BY SMTT(30) DEF TypeOK, User
    <3> HIDE DEF a
    <3>3. b \in [DOMAIN users -> User]
      BY <3>2 DEF User
    <3> HIDE DEF b
    <3>4. c \in [DOMAIN users -> User]
      BY <3>3 DEF User
    <3> QED BY <2>6, <3>1, <3>4
  <2>8. uses' \in [1 .. generated -> Nat]
    BY <2>2 DEF TypeOK
  <2>9. TypeOK'
    <3>1. \A v, w \in DOMAIN users' :
             v # w /\ users'[v].token # 0 => users'[v].token # users'[w].token
      BY <2>6 DEF TypeOK
    <3>2. ASSUME NEW g \in Handlers
          PROVE  /\ pc'[g] # "idle" => loc'[g].user \in DOMAIN users'
                 /\ pc'[g] \in {"store", "consume"} => loc'[g].token \in 1 .. generated'
                 /\ pc'[g] = "consume" => \E q \in Passwords : loc'[g].password = {q}
      BY <2>2, <2>4, <2>5, <2>6 DEF TypeOK
    <3>3. pc' \in [Handlers -> {"idle", "generate", "store", "consume"}]
      BY <2>2 DEF TypeOK
    <3>4. issued' \in [1 .. generated' -> [user : DOMAIN users', at : 1 .. MaxTime]]
      BY <2>2, <2>6 DEF TypeOK
    <3>5. /\ generated' \in 0 .. MaxTokens /\ clock' \in 1 .. MaxTime
          /\ uses' \in [1 .. generated' -> Nat]
      BY <2>2, <2>8 DEF TypeOK
    <3> QED BY <2>7, <3>1, <3>2, <3>3, <3>4, <3>5, ZenonT(30) DEF TypeOK
  <2>10. TokensOnTheirWay'
    <3>1. \A g \in Handlers : pc[g] = "store" => loc[g].token # 0
      BY DEF TypeOK
    <3> QED BY <2>2, <2>4, <2>5, <2>6, <3>1 DEF TokensOnTheirWay
  <2>11. TokenAndTimeTogether'
    BY <2>2, <2>6 DEF TokenAndTimeTogether
  <2>12. TokensGenerated'
    <3>1. generated \in Nat
      BY DEF TypeOK
    <3> QED BY <2>2, <2>6, <3>1 DEF TokensGenerated
  <2> QED BY <2>4, <2>6, <2>9, <2>10, <2>11, <2>12 DEF IdsInOrder
<1>7. ASSUME NEW h \in Handlers, Fail(h) PROVE Bookkeeping'
  <2>1. /\ pc' = [pc EXCEPT ![h] = "idle"] /\ loc' = [loc EXCEPT ![h] = NoLocals]
        /\ UNCHANGED <<users, generated, clock, history>>
    BY <1>7 DEF Fail
  <2>2. loc' \in [Handlers -> Locals] /\ TypeOK'
    BY <2>1, NoLocalsTyped DEF TypeOK
  <2>3. TokensOnTheirWay'
    BY <2>1 DEF TokensOnTheirWay, TypeOK
  <2> QED BY <2>1, <2>2, <2>3 DEF IdsInOrder, TokensGenerated, TokenAndTimeTogether
<1>8. CASE Tick
  <2>1. clock' \in 1 .. MaxTime /\ UNCHANGED <<users, generated, pc, loc, issued, uses>>
    BY <1>8 DEF Tick, TypeOK
  <2>2. TypeOK'
    BY <2>1 DEF TypeOK
  <2> QED BY <2>1, <2>2
          DEF IdsInOrder, TokensGenerated, TokensOnTheirWay, TokenAndTimeTogether
<1>9. CASE UNCHANGED vars
  BY <1>9, ZenonT(30) DEF vars, TypeOK, IdsInOrder, TokensGenerated, TokensOnTheirWay, TokenAndTimeTogether
<1> QED BY <1>1, <1>2, <1>3, <1>4, <1>5, <1>6, <1>7, <1>8, <1>9 DEF Next

-----------------------------------------------------------------------------
\* RegisterUser normalizes before it compares and before it stores, so that two
\* addresses of one mailbox are one address by then.
LEMMA PlainStep ==
    Bookkeeping /\ PlainAddresses /\ OneAccountPerMailbox /\ [Next]_vars =>
        PlainAddresses' /\ OneAccountPerMailbox'
<1> SUFFICES ASSUME Bookkeeping, PlainAddresses, OneAccountPerMailbox, [Next]_vars
             PROVE  PlainAddresses' /\ OneAccountPerMailbox'
  OBVIOUS
<1> USE DEF Bookkeeping
<1>1. ASSUME NEW a \in Addresses, NEW p \in Passwords, RegisterUser(a, p)
      PROVE  PlainAddresses' /\ OneAccountPerMailbox'
  <2>1. PICK id : /\ id \notin DOMAIN users /\ DOMAIN users' = DOMAIN users \cup {id}
                  /\ users'[id].email = normalizeEmail(a)
                  /\ \A u \in DOMAIN users : users'[u] = users[u]
    BY <1>1, NextId DEF RegisterUser
  <2>2. normalizeEmail(a) \in Addresses /\ normalizeEmail(a).spelling = "plain"
    BY DEF normalizeEmail, Addresses
  <2>3. ASSUME NEW u \in DOMAIN users, users[u].email.box = normalizeEmail(a).box PROVE FALSE
    <3>1. users[u].email \in Addresses /\ users[u].email.spelling = "plain"
      BY DEF TypeOK, User, PlainAddresses
    <3>2. users[u].email = normalizeEmail(a)
      BY <2>2, <2>3, <3>1 DEF Addresses
    <3> QED BY <1>1, <3>2 DEF RegisterUser, WithEmail
  <2> QED BY <2>1, <2>2, <2>3 DEF PlainAddresses, OneAccountPerMailbox
<1>2. ASSUME DOMAIN users' = DOMAIN users,
             \A u \in DOMAIN users : users'[u].email = users[u].email
      PROVE  PlainAddresses' /\ OneAccountPerMailbox'
  BY <1>2 DEF PlainAddresses, OneAccountPerMailbox
<1>3. ASSUME UNCHANGED users PROVE PlainAddresses' /\ OneAccountPerMailbox'
  BY <1>2, <1>3
<1>4. ASSUME NEW h \in Handlers, StoreToken(h)
      PROVE  PlainAddresses' /\ OneAccountPerMailbox'
  BY <1>2, <1>4 DEF StoreToken, TypeOK, User
<1>5. ASSUME NEW h \in Handlers, ConsumeToken(h)
      PROVE  PlainAddresses' /\ OneAccountPerMailbox'
  <2>1. PICK p \in loc[h].password : users' = [users EXCEPT ![loc[h].user].password = p,
                                    ![loc[h].user].token = 0, ![loc[h].user].sentAt = 0]
    BY <1>5 DEF ConsumeToken
  <2>2. /\ DOMAIN users' = DOMAIN users
        /\ \A u \in DOMAIN users : users'[u].email = users[u].email
    BY <2>1 DEF TypeOK, User
  <2> QED BY <1>2, <2>2
<1> QED BY <1>1, <1>3, <1>4, <1>5
        DEF Next, vars, CreatePasswordReset, UpdatePasswordReset, GenerateResetToken, Fail, Tick

\* Only updatePasswordReset accepts a token, and it takes it from an account's row.
LEMMA AcceptsStored ==
    ASSUME Bookkeeping, [Next]_vars, NEW h \in Handlers,
           pc[h] = "idle", pc'[h] = "consume"
    PROVE  \E u \in DOMAIN users :
              /\ Current(u)
              /\ loc'[h].user = u /\ loc'[h].token = users[u].token
              /\ users[u].token # 0
<1> USE DEF Bookkeeping
<1>1. PICK t \in 1 .. MaxTokens, p \in Passwords : UpdatePasswordReset(h, t, p)
  <2>1. ASSUME NEW g \in Handlers, NEW s \in {"idle", "generate", "store"},
               pc' = [pc EXCEPT ![g] = s]
        PROVE  FALSE
    BY <2>1 DEF TypeOK
  <2>2. ASSUME NEW g \in Handlers, NEW t \in 1 .. MaxTokens, NEW p \in Passwords,
               UpdatePasswordReset(g, t, p)
        PROVE  g = h
    BY <2>2 DEF UpdatePasswordReset, Goto, TypeOK
  <2>3. pc' # pc
    OBVIOUS
  <2> QED BY <2>1, <2>2, <2>3 DEF Next, vars, RegisterUser, CreatePasswordReset,
             GenerateResetToken, StoreToken, ConsumeToken, Fail, Tick, Done, Goto
<1> QED BY <1>1 DEF UpdatePasswordReset

\* UpdatePasswordReset compares the clock with the time its token was generated at.
LEMMA AcceptedStep ==
    Bookkeeping /\ [Next]_vars =>
        [\A h \in Handlers :
            LET t == loc'[h].token IN
            pc[h] = "idle" /\ pc'[h] = "consume" =>
                /\ clock - issued[t].at <= Window
                /\ loc'[h].user = issued[t].user]_vars
<1> SUFFICES ASSUME Bookkeeping, [Next]_vars, NEW h \in Handlers,
                    pc[h] = "idle", pc'[h] = "consume"
             PROVE  /\ clock - issued[loc'[h].token].at <= Window
                    /\ loc'[h].user = issued[loc'[h].token].user
  OBVIOUS
<1> USE DEF Bookkeeping
<1>1. PICK u \in DOMAIN users :
          /\ Current(u)
          /\ loc'[h].user = u /\ loc'[h].token = users[u].token
          /\ users[u].token # 0
  BY AcceptsStored
<1>2. issued[users[u].token] = [user |-> u, at |-> users[u].sentAt]
  BY <1>1 DEF TokenAndTimeTogether
<1>3. clock - users[u].sentAt <= Window
  BY <1>1 DEF Current
<1> QED BY <1>1, <1>2, <1>3

\* The token a use clears is stored nowhere else, and a token on its way to its row
\* is another one, so that what is stored stays unused.
LEMMA UnusedStep == Bookkeeping /\ UnusedTokens /\ [Next]_vars => UnusedTokens'
<1> SUFFICES ASSUME Bookkeeping, UnusedTokens, [Next]_vars PROVE UnusedTokens'
  OBVIOUS
<1> USE DEF Bookkeeping, Done, Goto, history
<1>1. ASSUME NEW a \in Addresses, NEW p \in Passwords, RegisterUser(a, p)
      PROVE  UnusedTokens'
  <2>1. PICK id : /\ id \notin DOMAIN users /\ DOMAIN users' = DOMAIN users \cup {id}
                  /\ users'[id].token = 0
                  /\ \A u \in DOMAIN users : users'[u] = users[u]
    BY <1>1, NextId DEF RegisterUser
  <2>2. UNCHANGED <<pc, loc, uses>>
    BY <1>1 DEF RegisterUser
  <2> QED BY <2>1, <2>2 DEF UnusedTokens
<1>2. ASSUME NEW h \in Handlers, pc'[h] # "store", UNCHANGED <<users, uses>>,
             \A g \in Handlers \ {h} : pc'[g] = pc[g] /\ loc'[g] = loc[g]
      PROVE  UnusedTokens'
  BY <1>2 DEF UnusedTokens
<1>3. ASSUME NEW h \in Handlers, NEW a \in Addresses, CreatePasswordReset(h, a)
      PROVE  UnusedTokens'
  BY <1>2, <1>3 DEF CreatePasswordReset, TypeOK
<1>4. ASSUME NEW h \in Handlers, NEW t \in 1 .. MaxTokens, NEW p \in Passwords,
             UpdatePasswordReset(h, t, p)
      PROVE  UnusedTokens'
  BY <1>2, <1>4 DEF UpdatePasswordReset, TypeOK
<1>5. ASSUME NEW h \in Handlers, GenerateResetToken(h) PROVE UnusedTokens'
  <2>1. /\ generated \in Nat /\ generated' = generated + 1 /\ users' = users
        /\ \A g \in Handlers \ {h} : pc'[g] = pc[g] /\ loc'[g] = loc[g]
    BY <1>5, BoundsAssumption DEF GenerateResetToken, TypeOK
  <2>2. loc'[h].token = generated + 1
    BY <1>5, <2>1 DEF GenerateResetToken, TypeOK, Locals
  <2>3. uses'[generated + 1] = 0 /\ \A t \in 1 .. generated : uses'[t] = uses[t]
    BY <1>5, <2>1 DEF GenerateResetToken
  <2> QED BY <2>1, <2>2, <2>3 DEF UnusedTokens, TokensGenerated, TypeOK
<1>6. ASSUME NEW h \in Handlers, StoreToken(h) PROVE UnusedTokens'
  <2>1. PICK u \in DOMAIN users : u = loc[h].user
    BY <1>6 DEF StoreToken, TypeOK
  <2>2. /\ DOMAIN users' = DOMAIN users /\ users'[u].token = loc[h].token
        /\ \A v \in DOMAIN users \ {u} : users'[v] = users[v]
    BY <1>6, <2>1 DEF StoreToken, TypeOK, User
  <2>3. /\ pc[h] = "store" /\ pc'[h] = "idle" /\ uses' = uses
        /\ \A g \in Handlers \ {h} : pc'[g] = pc[g] /\ loc'[g] = loc[g]
    BY <1>6 DEF StoreToken, TypeOK
  <2>4. uses[loc[h].token] = 0
    BY <2>3 DEF UnusedTokens
  <2>5. \A v \in DOMAIN users' : users'[v].token # 0 => uses'[users'[v].token] = 0
    BY <2>2, <2>3, <2>4 DEF UnusedTokens
  <2>6. \A g \in Handlers : pc'[g] = "store" => uses'[loc'[g].token] = 0
    BY <2>3 DEF UnusedTokens
  <2> QED BY <2>5, <2>6 DEF UnusedTokens
<1>7. ASSUME NEW h \in Handlers, ConsumeToken(h) PROVE UnusedTokens'
  <2>1. pc[h] = "consume" /\ pc'[h] = "idle"
        /\ \A g \in Handlers \ {h} : pc'[g] = pc[g] /\ loc'[g] = loc[g]
    BY <1>7 DEF ConsumeToken, TypeOK
  <2>2. PICK k \in 1 .. generated : k = loc[h].token
    BY <2>1 DEF TypeOK
  <2>3. PICK u \in DOMAIN users : u = loc[h].user
    BY <2>1 DEF TypeOK
  <2>4. \A t \in 1 .. generated : t # k => uses'[t] = uses[t]
    BY <1>7, <2>2 DEF ConsumeToken, TypeOK
  <2>5. issued[k].user = u
    BY <2>1, <2>2, <2>3 DEF TokensOnTheirWay
  <2>6. PICK p \in loc[h].password :
            users' = [users EXCEPT ![u].password = p, ![u].token = 0, ![u].sentAt = 0]
    BY <1>7, <2>3 DEF ConsumeToken
  <2>7. /\ DOMAIN users' = DOMAIN users /\ users'[u].token = 0
        /\ \A v \in DOMAIN users \ {u} : users'[v] = users[v]
    <3>1. users \in [DOMAIN users -> User]
      BY DEF TypeOK
    <3> HIDE DEF Bookkeeping
    <3> QED BY <2>6, <3>1 DEF User
  <2>8. ASSUME NEW v \in DOMAIN users, users[v].token = k PROVE v = u
    <3>1. issued[k] = [user |-> v, at |-> users[v].sentAt]
      BY <2>8 DEF TokenAndTimeTogether
    <3> QED BY <2>5, <3>1
  <2>9. \A v \in DOMAIN users' : users'[v].token # 0 => uses'[users'[v].token] = 0
    BY <2>4, <2>7, <2>8 DEF UnusedTokens, TokensGenerated
  <2>10. ASSUME NEW g \in Handlers, pc'[g] = "store" PROVE uses'[loc'[g].token] = 0
    <3>1. pc[g] = "store" /\ loc'[g] = loc[g] /\ g # h
      BY <2>1, <2>10
    <3>2. loc[g].token \in 1 .. generated /\ loc[g].token # k
      BY <2>1, <2>2, <3>1, ZenonT(30) DEF TypeOK, TokensOnTheirWay
    <3> QED BY <2>4, <3>1, <3>2 DEF UnusedTokens
  <2> QED BY <2>9, <2>10 DEF UnusedTokens
<1>8. ASSUME NEW h \in Handlers, Fail(h) PROVE UnusedTokens'
  BY <1>2, <1>8 DEF Fail, TypeOK
<1>9. ASSUME UNCHANGED <<users, pc, loc, uses>> PROVE UnusedTokens'
  BY <1>9 DEF UnusedTokens
<1> QED BY <1>1, <1>3, <1>4, <1>5, <1>6, <1>7, <1>8, <1>9 DEF Next, vars, Tick

\* updatePasswordReset reads the token it presents; what StoreToken puts in its place
\* before the UPDATE counts as crossed.
LEMMA ConsumersStep ==
    Bookkeeping /\ ConsumersPresentIt /\ [Next]_vars => ConsumersPresentIt'
<1> SUFFICES ASSUME Bookkeeping, ConsumersPresentIt, [Next]_vars
             PROVE  ConsumersPresentIt'
  OBVIOUS
<1> USE DEF Bookkeeping, Done, Goto, history
<1>1. ASSUME NEW a \in Addresses, NEW p \in Passwords, RegisterUser(a, p)
      PROVE  ConsumersPresentIt'
  <2>1. (\A u \in DOMAIN users : users'[u] = users[u]) /\ UNCHANGED <<pc, loc, crossed>>
    BY <1>1, NextId DEF RegisterUser
  <2> QED BY <2>1 DEF ConsumersPresentIt, TypeOK
<1>2. ASSUME NEW h \in Handlers, NEW a \in Addresses, CreatePasswordReset(h, a)
      PROVE  ConsumersPresentIt'
  BY <1>2 DEF CreatePasswordReset, ConsumersPresentIt, TypeOK
<1>3. ASSUME NEW h \in Handlers, NEW t \in 1 .. MaxTokens, NEW p \in Passwords,
             UpdatePasswordReset(h, t, p)
      PROVE  ConsumersPresentIt'
  <2>1. users'[loc'[h].user].token = loc'[h].token
    BY <1>3 DEF UpdatePasswordReset
  <2>2. /\ UNCHANGED <<users, crossed>>
        /\ \A g \in Handlers \ {h} : pc'[g] = pc[g] /\ loc'[g] = loc[g]
    BY <1>3 DEF UpdatePasswordReset, TypeOK
  <2> QED BY <2>1, <2>2 DEF ConsumersPresentIt
<1>4. ASSUME NEW h \in Handlers, GenerateResetToken(h) PROVE ConsumersPresentIt'
  <2>1. pc'[h] = "store" /\ UNCHANGED <<users, crossed>>
    BY <1>4 DEF GenerateResetToken, TypeOK
  <2>2. \A g \in Handlers \ {h} : pc'[g] = pc[g] /\ loc'[g] = loc[g]
    BY <1>4 DEF GenerateResetToken, TypeOK
  <2> QED BY <2>1, <2>2 DEF ConsumersPresentIt
<1>5. ASSUME NEW h \in Handlers, StoreToken(h) PROVE ConsumersPresentIt'
  <2>1. PICK u \in DOMAIN users : u = loc[h].user
    BY <1>5 DEF StoreToken, TypeOK
  <2>2. /\ users'[u].token = loc[h].token
        /\ \A v \in DOMAIN users \ {u} : users'[v] = users[v]
    BY <1>5, <2>1 DEF StoreToken, TypeOK, User
  <2>3. /\ pc'[h] = "idle"
        /\ \A g \in Handlers \ {h} : pc'[g] = pc[g] /\ loc'[g] = loc[g]
    BY <1>5 DEF StoreToken, TypeOK
  <2>4. /\ crossed \subseteq crossed'
        /\ \A g \in Handlers : pc[g] = "consume" /\ loc[g].user = u =>
              loc[h].token \in crossed'
    BY <1>5, <2>1 DEF StoreToken, Consuming
  <2>5. \A g \in Handlers : pc[g] = "consume" => loc[g].user \in DOMAIN users
    BY DEF TypeOK
  <2> QED BY <2>2, <2>3, <2>4, <2>5 DEF ConsumersPresentIt
<1>6. ASSUME NEW h \in Handlers, ConsumeToken(h) PROVE ConsumersPresentIt'
  <2>1. PICK u \in DOMAIN users : u = loc[h].user
    BY <1>6 DEF ConsumeToken, TypeOK
  <2>2. /\ users'[u].token = 0
        /\ \A v \in DOMAIN users \ {u} : users'[v] = users[v]
    BY <1>6, <2>1 DEF ConsumeToken, TypeOK, User
  <2>3. /\ pc'[h] = "idle" /\ crossed' = crossed
        /\ \A g \in Handlers \ {h} : pc'[g] = pc[g] /\ loc'[g] = loc[g]
    BY <1>6 DEF ConsumeToken, TypeOK
  <2>4. \A g \in Handlers : pc[g] = "consume" => loc[g].user \in DOMAIN users
    BY DEF TypeOK
  <2> QED BY <2>2, <2>3, <2>4 DEF ConsumersPresentIt
<1>7. ASSUME NEW h \in Handlers, Fail(h) PROVE ConsumersPresentIt'
  BY <1>7 DEF Fail, ConsumersPresentIt, TypeOK
<1>8. CASE Tick
  BY <1>8 DEF Tick, ConsumersPresentIt
<1>9. CASE UNCHANGED vars
  BY <1>9 DEF vars, ConsumersPresentIt
<1> QED BY <1>1, <1>2, <1>3, <1>4, <1>5, <1>6, <1>7, <1>8, <1>9 DEF Next

\* Only ConsumeToken clears a token, and only of the account it was accepted for.
LEMMA ClearsItsAccount ==
    ASSUME Bookkeeping, [Next]_vars, NEW u \in DOMAIN users,
           users[u].token # 0, users'[u].token = 0
    PROVE  \E h \in Handlers : ConsumeToken(h) /\ loc[h].user = u
<1> USE DEF Bookkeeping, Done, Goto, history
<1>1. ASSUME NEW a \in Addresses, NEW p \in Passwords, RegisterUser(a, p) PROVE FALSE
  BY <1>1, NextId DEF RegisterUser
<1>2. ASSUME NEW h \in Handlers, StoreToken(h) PROVE FALSE
  <2>1. PICK v \in DOMAIN users : v = loc[h].user
    BY <1>2 DEF StoreToken, TypeOK
  <2>2. /\ users'[v].token = loc[h].token
        /\ \A w \in DOMAIN users \ {v} : users'[w] = users[w]
    BY <1>2, <2>1 DEF StoreToken, TypeOK, User
  <2>3. loc[h].token # 0
    BY <1>2 DEF StoreToken, TypeOK
  <2> QED BY <2>2, <2>3
<1>3. ASSUME NEW h \in Handlers, ConsumeToken(h) PROVE loc[h].user = u
  <2>1. loc[h].user \in DOMAIN users
    BY <1>3 DEF ConsumeToken, TypeOK
  <2>2. \A v \in DOMAIN users \ {loc[h].user} : users'[v] = users[v]
    BY <1>3, <2>1 DEF ConsumeToken, TypeOK
  <2> QED BY <2>2
<1>4. users' # users
  OBVIOUS
<1>5. \/ \E a \in Addresses, p \in Passwords : RegisterUser(a, p)
      \/ \E h \in Handlers : StoreToken(h) \/ ConsumeToken(h)
  BY <1>4 DEF Next, vars, CreatePasswordReset, UpdatePasswordReset, GenerateResetToken,
     Fail, Tick
<1> QED BY <1>1, <1>2, <1>3, <1>5

\* A token that was not crossed is cleared by the request that presented it.
LEMMA ErasedStep ==
    ASSUME Bookkeeping, ConsumersPresentIt, [Next]_vars, NEW u \in DOMAIN users,
           NEW t, t = users[u].token, t # 0, t \notin crossed, users'[u].token = 0
    PROVE  uses'[t] > uses[t]
<1>1. PICK h \in Handlers : ConsumeToken(h) /\ loc[h].user = u
  BY ClearsItsAccount
<1>2. loc[h].token = t
  BY <1>1 DEF ConsumeToken, ConsumersPresentIt
<1>3. t \in 1 .. generated
  BY <1>1, <1>2 DEF ConsumeToken, Bookkeeping, TypeOK
<1>4. uses' = [uses EXCEPT ![t] = @ + 1]
  BY <1>1, <1>2 DEF ConsumeToken
<1> QED BY <1>3, <1>4 DEF Bookkeeping, TypeOK

-----------------------------------------------------------------------------
\* The inductive invariant: ids in order, tokens generated before they are stored,
\* and each on its way with the account and time it was generated for.
THEOREM BookkeepingHolds == Spec => []Bookkeeping
BY BookkeepingInit, BookkeepingStep, PTL DEF Spec

\* Accounts, tokens and every handler's locals keep their types, and two accounts
\* never store the same token.
THEOREM TypeCorrect == Spec => []TypeOK
<1>1. Bookkeeping => TypeOK
  BY DEF Bookkeeping
<1> QED BY <1>1, BookkeepingHolds, PTL

\* The two columns of the reset token are those of one generation: no order of
\* StoreResetToken and ConsumeResetToken pairs a token with another's time.
THEOREM TokensKeepTheirTime == Spec => []TokenAndTimeTogether
<1>1. Bookkeeping => TokenAndTimeTogether
  BY DEF Bookkeeping
<1> QED BY <1>1, BookkeepingHolds, PTL

\* No two accounts are of one mailbox, however the addresses were spelled.
THEOREM OneAccountEach == Spec => []OneAccountPerMailbox
<1>1. Init => PlainAddresses /\ OneAccountPerMailbox
  BY DEF Init, PlainAddresses, OneAccountPerMailbox
<1> QED BY <1>1, PlainStep, BookkeepingHolds, PTL DEF Spec

\* updatePasswordReset accepts no token that has set a password already.
THEOREM TokensAcceptedUnused == Spec => AcceptedUnused
<1>1. Init => UnusedTokens
  BY DEF Init, UnusedTokens
<1>2. Bookkeeping /\ UnusedTokens /\ [Next]_vars =>
        [\A h \in Handlers :
            pc[h] = "idle" /\ pc'[h] = "consume" => uses[loc'[h].token] = 0]_vars
  BY AcceptsStored DEF UnusedTokens
<1> QED BY <1>1, <1>2, UnusedStep, BookkeepingHolds, PTL DEF Spec, AcceptedUnused

\* updatePasswordReset accepts a token within the window after it was generated,
\* and for the account it was generated for.
THEOREM TokensAcceptedInTime == Spec => AcceptedInTime
BY AcceptedStep, BookkeepingHolds, PTL DEF Spec, AcceptedInTime

\* updatePasswordReset's UPDATE by id erases a token without using it only when that
\* one was stored after the request's SELECT, of any account and at any time.
THEOREM TokensErasedOnlyInRaces == Spec => ErasedOnlyInRaces
<1>1. Init => ConsumersPresentIt
  BY DEF Init, ConsumersPresentIt
<1>2. Bookkeeping /\ ConsumersPresentIt /\ [Next]_vars =>
        [\A u \in DOMAIN users :
            LET t == users[u].token IN
            t # 0 /\ t \notin crossed /\ users'[u].token = 0 => uses'[t] > uses[t]]_vars
  BY ErasedStep
<1> QED BY <1>1, <1>2, ConsumersStep, BookkeepingHolds, PTL DEF Spec, ErasedOnlyInRaces

=============================================================================
