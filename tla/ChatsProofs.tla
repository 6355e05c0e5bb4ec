----------------------------- MODULE ChatsProofs -----------------------------
(***************************************************************************)
(* Proofs about Chats, for any users, listings, chats left by the Rails    *)
(* application, and number of handlers.                                    *)
(***************************************************************************)
EXTENDS Chats, FiniteSetTheorems, TLAPS

\* The tables of TypeOK: rows are complete and the foreign keys hold.
TablesOK ==
    /\ {nextChat, nextMessage, clock} \subseteq Nat \ {0}
    /\ chats \in [DOMAIN chats -> Chat]
    /\ DOMAIN chats \subseteq 1 .. nextChat - 1
    /\ messages \in [DOMAIN messages -> Message]
    /\ DOMAIN messages \subseteq 1 .. nextMessage - 1
    /\ live \subseteq Listings
    /\ \A m \in DOMAIN messages : messages[m].chat \in DOMAIN chats
    /\ \A c \in DOMAIN chats : chats[c].listing \in live

\* Locals v fit step s, with messages ids, when the sequences are at nc and nm.
Fits(s, v, ids, nc, nm) ==
    /\ s \in Steps /\ v \in Locals
    /\ s \notin {"idle", "inbox", "destroy"} => v.user \in Users
    /\ s \in {"find", "open", "subject", "destroy"} => v.listing \in Listings
    /\ s # "destroy" => v.victims = {}
    /\ v.victims \subseteq ids
    /\ v.chat < nc /\ v.msg < nm

\* Locals name issued ids, and Destroy transactions never delete the same
\* message: the second waits for the first.
HandlersOK ==
    /\ pc \in [Handlers -> Steps]
    /\ loc \in [Handlers -> Locals]
    /\ \A h \in Handlers : Fits(pc[h], loc[h], DOMAIN messages, nextChat, nextMessage)
    /\ \A g, h \in Handlers : g # h => loc[g].victims \cap loc[h].victims = {}

LEMMA BookkeepingInit == Init => TablesOK /\ HandlersOK
<1> SUFFICES ASSUME Init PROVE TablesOK /\ HandlersOK
    OBVIOUS
<1>1. TablesOK
  <2>1. \A c \in DOMAIN Seed : Seed[c].listing \in Listings
    BY SeedAssumption DEF Chat
  <2>2. DOMAIN Seed \subseteq 1 .. nextChat - 1 /\ nextChat \in Nat
    BY SeedAssumption DEF Init
  <2> QED BY <2>1, <2>2, SeedAssumption DEF Init, TablesOK
<1>2. NoLocals \in Locals
  BY DEF NoLocals, Locals
<1>3. HandlersOK
  <2>1. nextChat \in Nat /\ 0 < nextChat /\ 0 < nextMessage
    BY SeedAssumption DEF Init
  <2>2. Fits("idle", NoLocals, DOMAIN messages, nextChat, nextMessage)
    BY <1>2, <2>1 DEF Fits, NoLocals, Steps
  <2>3. NoLocals.victims = {}
    BY DEF NoLocals
  <2> QED BY <1>2, <2>2, <2>3 DEF Init, HandlersOK, Steps
<1> QED BY <1>1, <1>3

\* The chats and messages tables stay complete, and no message or chat is left
\* without what it refers to.
LEMMA TablesStep == TablesOK /\ HandlersOK /\ [Next]_vars => TablesOK'
<1> SUFFICES ASSUME TablesOK, HandlersOK, [Next]_vars PROVE TablesOK'
    OBVIOUS
<1> USE DEF TablesOK
<1>1. CASE UNCHANGED <<tables, clock>>
  BY <1>1 DEF tables
<1>2. ASSUME NEW h \in Handlers, OpenChat(h) PROVE TablesOK'
  <2>1. loc[h].user \in Users /\ OwnerOf[loc[h].listing] \in Users
    BY <1>2, OwnerAssumption DEF OpenChat, HandlersOK, Fits
  <2> DEFINE row == [hirer |-> loc[h].user, owner |-> OwnerOf[loc[h].listing],
                     listing |-> loc[h].listing, booked |-> FALSE, lastAt |-> 0,
                     last |-> 0]
  <2>2. row \in Chat /\ row.listing \in live
    BY <1>2, <2>1 DEF OpenChat, Chat
  <2>3. /\ chats' = [c \in DOMAIN chats \cup {nextChat} |->
                        IF c = nextChat THEN row ELSE chats[c]]
        /\ nextChat' = nextChat + 1
        /\ UNCHANGED <<messages, nextMessage, live, clock>>
    BY <1>2 DEF OpenChat
  <2> HIDE DEF row
  <2>4. chats' \in [DOMAIN chats' -> Chat]
    BY <2>2, <2>3
  <2>5. DOMAIN chats' = DOMAIN chats \cup {nextChat}
    BY <2>3
  <2>6. DOMAIN chats' \subseteq 1 .. nextChat' - 1
    BY <2>3, <2>5
  <2>7. \A c \in DOMAIN chats' : chats'[c].listing \in live
    BY <2>2, <2>3
  <2>8. {nextChat', nextMessage', clock'} \subseteq Nat \ {0}
    BY <2>3
  <2>9. /\ messages' \in [DOMAIN messages' -> Message]
        /\ DOMAIN messages' \subseteq 1 .. nextMessage' - 1
        /\ \A m \in DOMAIN messages' : messages'[m].chat \in DOMAIN chats'
    BY <2>3, <2>5
  <2>10. live' \subseteq Listings /\ \A c \in DOMAIN chats' : chats'[c].listing \in live'
    BY <2>3, <2>7
  <2> QED BY <2>4, <2>6, <2>8, <2>9, <2>10
<1>3. ASSUME NEW h \in Handlers, SetSubject(h) PROVE TablesOK'
  BY <1>3 DEF SetSubject, Chat
<1>4. ASSUME NEW h \in Handlers, InsertMessage(h) PROVE TablesOK'
  <2>1. loc[h].user \in Users /\ loc[h].at \in Nat
    BY <1>4 DEF InsertMessage, HandlersOK, Fits, Locals
  <2> QED BY <1>4, <2>1 DEF InsertMessage, Message
<1>5. ASSUME NEW h \in Handlers, UpdateInbox(h) PROVE TablesOK'
  <2>1. loc[h].msg \in Nat /\ loc[h].at \in Nat
    BY <1>5 DEF HandlersOK, Locals
  <2> QED BY <1>5, <2>1 DEF UpdateInbox, Chat
<1>6. ASSUME NEW h \in Handlers, MarkMessages(h) PROVE TablesOK'
  <2>1. loc[h].at \in Nat
    BY <1>6 DEF HandlersOK, Locals
  <2> QED BY <1>6, <2>1 DEF MarkMessages, Message
<1>7. ASSUME NEW h \in Handlers, DestroyChats(h) PROVE TablesOK'
  BY <1>7 DEF DestroyChats, MessagesAbout
<1>8. ASSUME NEW l \in Listings, SaveListing(l) PROVE TablesOK'
  BY <1>8 DEF SaveListing
<1>9. CASE Tick
  BY <1>9 DEF Tick, tables
<1> HIDE DEF TablesOK
<1> QED
  <2>1. ASSUME NEW h \in Handlers, NEW u \in Users, NEW l \in Listings, ChatsCreate(h, u, l)
        PROVE  UNCHANGED <<tables, clock>>
    BY <2>1 DEF ChatsCreate
  <2>2. ASSUME NEW h \in Handlers, NEW u \in Users, NEW c \in DOMAIN chats,
               MessagesCreate(h, u, c) \/ MessagesIndex(h, u, c)
        PROVE  UNCHANGED <<tables, clock>>
    BY <2>2 DEF MessagesCreate, MessagesIndex
  <2>3. ASSUME NEW h \in Handlers, NEW l \in Listings, DestroyMessages(h, l)
        PROVE  UNCHANGED <<tables, clock>>
    BY <2>3 DEF DestroyMessages
  <2>4. ASSUME NEW h \in Handlers,
               \/ FindChat(h) \/ RefuseBlank(h) \/ Compose(h)
               \/ StampReader(h) \/ ListMessages(h) \/ Fail(h)
        PROVE  UNCHANGED <<tables, clock>>
    BY <2>4 DEF FindChat, RefuseBlank, Compose, StampReader, ListMessages, Fail
  <2>5. ASSUME UNCHANGED vars PROVE UNCHANGED <<tables, clock>>
    BY <2>5 DEF vars, tables
  <2> QED
    BY <1>1, <1>2, <1>3, <1>4, <1>5, <1>6, <1>7, <1>8, <1>9,
       <2>1, <2>2, <2>3, <2>4, <2>5 DEF Next

-----------------------------------------------------------------------------
\* A step of h to s with locals v that fit the tables it leaves.
LEMMA HandlerMoves ==
    ASSUME TablesOK, HandlersOK, NEW h \in Handlers, NEW s, NEW v,
           pc' = [pc EXCEPT ![h] = s], loc' = [loc EXCEPT ![h] = v],
           Fits(s, v, DOMAIN messages', nextChat', nextMessage'),
           nextChat' \in {nextChat, nextChat + 1},
           nextMessage' \in {nextMessage, nextMessage + 1},
           \A g \in Handlers \ {h} : /\ loc[g].victims \subseteq DOMAIN messages'
                                    /\ loc[g].victims \cap v.victims = {}
    PROVE  HandlersOK'
<1>1. s \in Steps /\ v \in Locals
  BY DEF Fits
<1>2. pc' \in [Handlers -> Steps] /\ loc' \in [Handlers -> Locals]
  BY <1>1 DEF HandlersOK
<1>3. ASSUME NEW g \in Handlers \ {h}
      PROVE  Fits(pc[g], loc[g], DOMAIN messages', nextChat', nextMessage')
  <2>1. loc[g].chat \in Nat /\ loc[g].msg \in Nat
    BY DEF HandlersOK, Locals
  <2>2. Fits(pc[g], loc[g], DOMAIN messages, nextChat, nextMessage)
    BY DEF HandlersOK
  <2>3. nextChat \in Nat /\ nextMessage \in Nat
    BY DEF TablesOK
  <2> QED BY <2>1, <2>2, <2>3 DEF Fits
<1>4. pc'[h] = s /\ loc'[h] = v
  BY DEF HandlersOK
<1>5. \A g \in Handlers \ {h} : pc'[g] = pc[g] /\ loc'[g] = loc[g]
  BY DEF HandlersOK
<1>6. \A g \in Handlers : Fits(pc'[g], loc'[g], DOMAIN messages', nextChat', nextMessage')
  BY <1>3, <1>4, <1>5
<1>7. \A g, k \in Handlers : g # k => loc'[g].victims \cap loc'[k].victims = {}
  BY <1>4, <1>5 DEF HandlersOK
<1> QED BY <1>2, <1>6, <1>7 DEF HandlersOK

\* The same when it inserts and deletes nothing and is not in a Destroy.
LEMMA HandlerMovesAlone ==
    ASSUME TablesOK, HandlersOK, NEW h \in Handlers, NEW s, NEW v,
           pc' = [pc EXCEPT ![h] = s], loc' = [loc EXCEPT ![h] = v],
           DOMAIN messages' = DOMAIN messages, UNCHANGED <<nextChat, nextMessage>>,
           s # "destroy", Fits(s, v, DOMAIN messages, nextChat, nextMessage)
    PROVE  HandlersOK'
<1>1. v.victims = {}
  BY DEF Fits
<1>2. \A g \in Handlers : loc[g].victims \subseteq DOMAIN messages
  BY DEF HandlersOK, Fits
<1> QED BY <1>1, <1>2, HandlerMoves

\* A request ends.
LEMMA HandlerDone ==
    ASSUME TablesOK, HandlersOK, NEW h \in Handlers, Done(h),
           DOMAIN messages' = DOMAIN messages, UNCHANGED <<nextChat, nextMessage>>
    PROVE  HandlersOK'
<1>1. NoLocals \in Locals
  BY DEF NoLocals, Locals
<1>2. 0 < nextChat /\ 0 < nextMessage
  BY DEF TablesOK
<1>3. Fits("idle", NoLocals, DOMAIN messages, nextChat, nextMessage)
  BY <1>1, <1>2 DEF Fits, NoLocals, Steps
<1> QED BY <1>3, HandlerMovesAlone DEF Done, Goto

\* The locals of a request that has just arrived.
LEMMA NoLocalsFields ==
    /\ NoLocals \in Locals
    /\ NoLocals.user = None /\ NoLocals.listing = None /\ NoLocals.victims = {}
    /\ NoLocals.chat = 0 /\ NoLocals.at = 0 /\ NoLocals.msg = 0
BY DEF NoLocals, Locals

LEMMA RequestLocals ==
    ASSUME TablesOK, NEW v \in Locals, v.user \in Users, v.msg = 0, v.victims = {},
           v.chat \in DOMAIN chats \cup {0},
           NEW s \in {"find", "compose", "mark"}, s = "find" => v.listing \in Listings
    PROVE  Fits(s, v, DOMAIN messages, nextChat, nextMessage)
<1>1. v.chat < nextChat /\ 0 < nextMessage
  BY DEF TablesOK
<1> QED BY <1>1 DEF Fits, Steps

\* Setting a local to a value that fits keeps the others.
LEMMA LocalSet ==
    ASSUME NEW v \in Locals, NEW n \in Nat
    PROVE  /\ [v EXCEPT !.chat = n] \in Locals
           /\ [v EXCEPT !.at = n] \in Locals
           /\ [v EXCEPT !.chat = n, !.listing = None] \in Locals
           /\ [v EXCEPT !.listing = None] \in Locals
           /\ [v EXCEPT !.msg = n, !.user = None] \in Locals
BY DEF Locals

\* Each step leaves every handler with locals that fit the tables.
LEMMA HandlersStep == TablesOK /\ HandlersOK /\ [Next]_vars => HandlersOK'
<1> SUFFICES ASSUME TablesOK, HandlersOK, [Next]_vars PROVE HandlersOK'
    OBVIOUS
<1> USE DEF Goto, tables
<1>0. \A h \in Handlers :
        /\ loc[h] \in Locals
        /\ Fits(pc[h], loc[h], DOMAIN messages, nextChat, nextMessage)
  BY DEF HandlersOK
<1>1. ASSUME NEW h \in Handlers, NEW u \in Users, NEW l \in Listings, ChatsCreate(h, u, l)
      PROVE  HandlersOK'
  <2> DEFINE v == [NoLocals EXCEPT !.user = u, !.listing = l]
  <2>1. v \in Locals /\ v.user = u /\ v.listing = l /\ v.msg = 0 /\ v.victims = {} /\ v.chat = 0
    BY NoLocalsFields DEF Locals
  <2>2. Fits("find", v, DOMAIN messages, nextChat, nextMessage)
    BY <2>1, RequestLocals
  <2> QED BY <1>1, <2>2, HandlerMovesAlone DEF ChatsCreate
<1>2. ASSUME NEW h \in Handlers, NEW u \in Users, NEW c \in DOMAIN chats,
             MessagesCreate(h, u, c)
      PROVE  HandlersOK'
  <2> DEFINE v == [NoLocals EXCEPT !.user = u, !.chat = c]
  <2>0. c \in Nat /\ clock \in Nat
    BY DEF TablesOK
  <2>1. v \in Locals /\ v.user = u /\ v.msg = 0 /\ v.victims = {} /\ v.chat = c
    BY <2>0, NoLocalsFields DEF Locals
  <2>2. Fits("compose", v, DOMAIN messages, nextChat, nextMessage)
    BY <2>1, RequestLocals
  <2> QED BY <1>2, <2>2, HandlerMovesAlone DEF MessagesCreate
<1>3. ASSUME NEW h \in Handlers, NEW u \in Users, NEW c \in DOMAIN chats,
             MessagesIndex(h, u, c)
      PROVE  HandlersOK'
  <2> DEFINE v == [NoLocals EXCEPT !.user = u, !.chat = c, !.at = clock]
  <2>0. c \in Nat /\ clock \in Nat
    BY DEF TablesOK
  <2>1. v \in Locals /\ v.user = u /\ v.msg = 0 /\ v.victims = {} /\ v.chat = c
    BY <2>0, NoLocalsFields DEF Locals
  <2>2. Fits("mark", v, DOMAIN messages, nextChat, nextMessage)
    BY <2>1, RequestLocals
  <2> QED BY <1>3, <2>2, HandlerMovesAlone DEF MessagesIndex
<1>4. ASSUME NEW h \in Handlers, NEW l \in Listings, DestroyMessages(h, l)
      PROVE  HandlersOK'
  <2> DEFINE v == [NoLocals EXCEPT !.listing = l, !.victims = MessagesAbout(l)]
  <2>2. MessagesAbout(l) \subseteq DOMAIN messages /\ DOMAIN messages \subseteq Nat
    BY DEF MessagesAbout, TablesOK
  <2>3. v \in Locals /\ v.victims = MessagesAbout(l) /\ v.listing = l /\ v.chat = 0 /\ v.msg = 0
    BY <2>2, NoLocalsFields DEF Locals
  <2> HIDE DEF v
  <2>4. Fits("destroy", v, DOMAIN messages, nextChat, nextMessage)
    BY <2>2, <2>3 DEF Fits, Steps, TablesOK
  <2>5. \A g \in Handlers \ {h} : /\ loc[g].victims \subseteq DOMAIN messages
                                /\ loc[g].victims \cap v.victims = {}
    BY <1>0, <1>4, <2>3 DEF Fits, DestroyMessages, Doomed
  <2>6. /\ pc' = [pc EXCEPT ![h] = "destroy"] /\ loc' = [loc EXCEPT ![h] = v]
        /\ UNCHANGED <<messages, nextChat, nextMessage>>
    BY <1>4 DEF DestroyMessages, v
  <2> QED BY <2>4, <2>5, <2>6, HandlerMoves
<1>5. ASSUME NEW h \in Handlers, FindChat(h) PROVE HandlersOK'
  <2>1. CASE Goto(h, "open") /\ UNCHANGED loc
    <3>1. loc' = [loc EXCEPT ![h] = loc[h]]
      BY <2>1 DEF HandlersOK
    <3>2. Fits("open", loc[h], DOMAIN messages, nextChat, nextMessage)
      BY <1>0, <1>5 DEF FindChat, Fits, Steps
    <3> QED BY <1>5, <2>1, <3>1, <3>2, HandlerMovesAlone DEF FindChat
  <2>2. ASSUME NEW c \in DOMAIN chats, Goto(h, "subject"), loc' = [loc EXCEPT ![h].chat = c]
        PROVE  HandlersOK'
    <3> DEFINE v == [loc[h] EXCEPT !.chat = c]
    <3>1. c \in Nat /\ c < nextChat
      BY DEF TablesOK
    <3>2. v \in Locals /\ v.chat = c /\ v.user = loc[h].user /\ v.listing = loc[h].listing
          /\ v.msg = loc[h].msg /\ v.victims = loc[h].victims
      BY <1>0, <3>1, LocalSet DEF Locals
    <3>3. Fits("subject", v, DOMAIN messages, nextChat, nextMessage)
      BY <1>0, <1>5, <3>1, <3>2 DEF FindChat, Fits, Steps
    <3> QED BY <1>5, <2>2, <3>3, HandlerMovesAlone DEF FindChat
  <2> QED BY <1>5, <2>1, <2>2 DEF FindChat, Unbooked
<1>6. ASSUME NEW h \in Handlers, OpenChat(h) PROVE HandlersOK'
  <2> DEFINE v == [loc[h] EXCEPT !.chat = nextChat, !.listing = None]
  <2>1. nextChat \in Nat /\ nextMessage \in Nat
    BY DEF TablesOK
  <2>2. v \in Locals /\ v.chat = nextChat /\ v.user = loc[h].user
        /\ v.msg = loc[h].msg /\ v.victims = loc[h].victims
    BY <1>0, <2>1, LocalSet DEF Locals
  <2>3. Fits("compose", v, DOMAIN messages, nextChat + 1, nextMessage)
    BY <1>0, <1>6, <2>1, <2>2 DEF OpenChat, Fits, Steps
  <2>4. v.victims = {} /\ \A g \in Handlers : loc[g].victims \subseteq DOMAIN messages
    BY <1>0, <2>3 DEF Fits
  <2>5. /\ pc' = [pc EXCEPT ![h] = "compose"] /\ loc' = [loc EXCEPT ![h] = v]
        /\ messages' = messages /\ nextMessage' = nextMessage /\ nextChat' = nextChat + 1
    BY <1>6 DEF OpenChat
  <2> HIDE DEF v
  <2>6. Fits("compose", v, DOMAIN messages', nextChat', nextMessage')
    BY <2>3, <2>5
  <2>7. nextChat' \in {nextChat, nextChat + 1} /\ nextMessage' \in {nextMessage, nextMessage + 1}
    BY <2>5
  <2>8. \A g \in Handlers \ {h} : /\ loc[g].victims \subseteq DOMAIN messages'
                                /\ loc[g].victims \cap v.victims = {}
    BY <2>4, <2>5
  <2> QED BY <2>5, <2>6, <2>7, <2>8, HandlerMoves
<1>7. ASSUME NEW h \in Handlers, SetSubject(h) PROVE HandlersOK'
  <2> DEFINE v == [loc[h] EXCEPT !.listing = None]
  <2>1. v \in Locals /\ v.chat = loc[h].chat /\ v.user = loc[h].user
        /\ v.msg = loc[h].msg /\ v.victims = loc[h].victims
    BY <1>0, LocalSet DEF Locals
  <2>2. Fits("compose", v, DOMAIN messages, nextChat, nextMessage)
    BY <1>0, <1>7, <2>1 DEF SetSubject, Fits, Steps
  <2> QED BY <1>7, <2>2, HandlerMovesAlone DEF SetSubject
<1>8. ASSUME NEW h \in Handlers,
             RefuseBlank(h) \/ UpdateInbox(h) \/ ListMessages(h) \/ Fail(h)
      PROVE  HandlersOK'
  BY <1>8, HandlerDone DEF RefuseBlank, UpdateInbox, ListMessages, Fail
<1>9. ASSUME NEW h \in Handlers, Compose(h) PROVE HandlersOK'
  <2> DEFINE v == [loc[h] EXCEPT !.at = clock]
  <2>1. v \in Locals /\ v.chat = loc[h].chat /\ v.user = loc[h].user
        /\ v.msg = loc[h].msg /\ v.victims = loc[h].victims
    BY <1>0, LocalSet DEF Locals, TablesOK
  <2>2. Fits("insert", v, DOMAIN messages, nextChat, nextMessage)
    BY <1>0, <1>9, <2>1 DEF Compose, Fits, Steps
  <2> QED BY <1>9, <2>2, HandlerMovesAlone DEF Compose
<1>10. ASSUME NEW h \in Handlers, InsertMessage(h) PROVE HandlersOK'
  <2> DEFINE v == [loc[h] EXCEPT !.msg = nextMessage, !.user = None]
  <2>1. nextChat \in Nat /\ nextMessage \in Nat
    BY DEF TablesOK
  <2>2. v \in Locals /\ v.msg = nextMessage /\ v.chat = loc[h].chat
        /\ v.victims = loc[h].victims
    BY <1>0, <2>1, LocalSet DEF Locals
  <2>3. DOMAIN messages' = DOMAIN messages \cup {nextMessage}
    BY <1>10 DEF InsertMessage
  <2>4. Fits("inbox", v, DOMAIN messages', nextChat, nextMessage + 1)
    BY <1>0, <1>10, <2>1, <2>2, <2>3 DEF InsertMessage, Fits, Steps
  <2>5. v.victims = {} /\ \A g \in Handlers : loc[g].victims \subseteq DOMAIN messages'
    BY <1>0, <2>3, <2>4 DEF Fits
  <2>6. /\ pc' = [pc EXCEPT ![h] = "inbox"] /\ loc' = [loc EXCEPT ![h] = v]
        /\ nextMessage' = nextMessage + 1 /\ nextChat' = nextChat
    BY <1>10 DEF InsertMessage
  <2> HIDE DEF v
  <2>7. Fits("inbox", v, DOMAIN messages', nextChat', nextMessage')
    BY <2>4, <2>6
  <2>8. nextChat' \in {nextChat, nextChat + 1} /\ nextMessage' \in {nextMessage, nextMessage + 1}
    BY <2>6
  <2> QED BY <2>5, <2>6, <2>7, <2>8, HandlerMoves
<1>11. ASSUME NEW h \in Handlers, MarkMessages(h) PROVE HandlersOK'
  <2> DEFINE v == [loc[h] EXCEPT !.at = 0]
  <2>1. v \in Locals /\ v.chat = loc[h].chat /\ v.user = loc[h].user
        /\ v.msg = loc[h].msg /\ v.victims = loc[h].victims
    BY <1>0, LocalSet DEF Locals
  <2>2. Fits("stamp", v, DOMAIN messages, nextChat, nextMessage)
    BY <1>0, <1>11, <2>1 DEF MarkMessages, Fits, Steps
  <2>3. DOMAIN messages' = DOMAIN messages
    BY <1>11 DEF MarkMessages
  <2> QED BY <1>11, <2>2, <2>3, HandlerMovesAlone DEF MarkMessages
<1>12. ASSUME NEW h \in Handlers, StampReader(h) PROVE HandlersOK'
  <2>1. loc' = [loc EXCEPT ![h] = loc[h]]
    BY <1>12 DEF StampReader, HandlersOK
  <2>2. Fits("list", loc[h], DOMAIN messages, nextChat, nextMessage)
    BY <1>0, <1>12 DEF StampReader, Fits, Steps
  <2> QED BY <1>12, <2>1, <2>2, HandlerMovesAlone DEF StampReader
<1>13. ASSUME NEW h \in Handlers, DestroyChats(h) PROVE HandlersOK'
  <2>1. /\ NoLocals \in Locals /\ NoLocals.victims = {} /\ NoLocals.chat = 0
        /\ NoLocals.msg = 0
    BY DEF NoLocals, Locals
  <2>2. DOMAIN messages' = DOMAIN messages \ loc[h].victims
    BY <1>13 DEF DestroyChats
  <2>3. Fits("idle", NoLocals, DOMAIN messages', nextChat, nextMessage)
    BY <2>1 DEF Fits, Steps, TablesOK
  <2>4. \A g \in Handlers \ {h} : loc[g].victims \subseteq DOMAIN messages'
    BY <1>0, <2>2 DEF Fits, HandlersOK
  <2>5. /\ pc' = [pc EXCEPT ![h] = "idle"] /\ loc' = [loc EXCEPT ![h] = NoLocals]
        /\ nextMessage' = nextMessage /\ nextChat' = nextChat
    BY <1>13 DEF DestroyChats, Done
  <2>6. Fits("idle", NoLocals, DOMAIN messages', nextChat', nextMessage')
    BY <2>3, <2>5
  <2> QED BY <2>1, <2>4, <2>5, <2>6, HandlerMoves
<1>14. ASSUME UNCHANGED <<pc, loc, messages, nextChat, nextMessage>> PROVE HandlersOK'
  BY <1>14 DEF HandlersOK
<1>15. ASSUME NEW l \in Listings, SaveListing(l)
       PROVE  UNCHANGED <<pc, loc, messages, nextChat, nextMessage>>
  BY <1>15 DEF SaveListing
<1>16. ASSUME Tick \/ UNCHANGED vars
       PROVE  UNCHANGED <<pc, loc, messages, nextChat, nextMessage>>
  BY <1>16 DEF Tick, vars
<1> QED
  BY <1>1, <1>2, <1>3, <1>4, <1>5, <1>6, <1>7, <1>8, <1>9, <1>10, <1>11, <1>12, <1>13,
     <1>14, <1>15, <1>16 DEF Next

\* Rows are complete, ids are issued once, locals fit their step and foreign
\* keys hold.
THEOREM TypeCorrect == Spec => []TypeOK
<1>1. TablesOK /\ HandlersOK => TypeOK
  BY DEF TablesOK, HandlersOK, Fits, TypeOK
<1> QED BY <1>1, BookkeepingInit, TablesStep, HandlersStep, PTL DEF Spec

-----------------------------------------------------------------------------
(***************************************************************************)
(* What a step does to the inbox and the read marks.                       *)
(***************************************************************************)
Only(h) == \A g \in Handlers \ {h} : pc'[g] = pc[g] /\ loc'[g] = loc[g]

\* A step on the way to the statements the invariants are about.
Quiet(h) ==
    /\ Only(h)
    /\ UNCHANGED <<chats, messages, nextChat, nextMessage, lost, wiped, shown>>
    /\ {pc[h], pc'[h]} \subseteq {"idle", "find", "compose", "insert", "mark", "destroy"}

Outside == UNCHANGED <<chats, messages, nextChat, nextMessage, pc, loc, lost, wiped, shown>>

LEMMA StepKinds ==
    ASSUME HandlersOK, [Next]_vars
    PROVE  \/ Outside
           \/ \E h \in Handlers : Only(h) /\
                \/ Quiet(h)
                \/ FindChat(h) \/ OpenChat(h) \/ SetSubject(h) \/ InsertMessage(h)
                \/ UpdateInbox(h) \/ MarkMessages(h) \/ StampReader(h)
                \/ ListMessages(h) \/ DestroyChats(h) \/ Fail(h)
<1> USE DEF Only, Goto, Done, tables
<1>0. pc \in [Handlers -> Steps] /\ loc \in [Handlers -> Locals]
  BY DEF HandlersOK
<1>1. ASSUME NEW h \in Handlers, NEW u \in Users, NEW l \in Listings, ChatsCreate(h, u, l)
      PROVE  Quiet(h)
  BY <1>0, <1>1 DEF ChatsCreate, Quiet
<1>2. ASSUME NEW h \in Handlers, NEW u \in Users, NEW c \in DOMAIN chats,
             MessagesCreate(h, u, c) \/ MessagesIndex(h, u, c)
      PROVE  Quiet(h)
  BY <1>0, <1>2 DEF MessagesCreate, MessagesIndex, Quiet
<1>3. ASSUME NEW h \in Handlers, NEW l \in Listings, DestroyMessages(h, l)
      PROVE  Quiet(h)
  BY <1>0, <1>3 DEF DestroyMessages, Quiet
<1>4. ASSUME NEW h \in Handlers, RefuseBlank(h) \/ Compose(h) PROVE Quiet(h)
  BY <1>0, <1>4 DEF RefuseBlank, Compose, Quiet
<1>5. ASSUME NEW h \in Handlers,
             \/ FindChat(h) \/ OpenChat(h) \/ SetSubject(h) \/ InsertMessage(h)
             \/ UpdateInbox(h) \/ MarkMessages(h) \/ StampReader(h)
      PROVE  Only(h)
  BY <1>0, <1>5
  DEF FindChat, OpenChat, SetSubject, InsertMessage, UpdateInbox, MarkMessages, StampReader
<1>6. ASSUME NEW h \in Handlers, ListMessages(h) \/ DestroyChats(h) \/ Fail(h)
      PROVE  Only(h)
  BY <1>0, <1>6 DEF ListMessages, DestroyChats, Fail
<1>7. ASSUME NEW l \in Listings, SaveListing(l) PROVE Outside
  BY <1>7 DEF SaveListing, Outside
<1>8. ASSUME Tick \/ UNCHANGED vars PROVE Outside
  BY <1>8 DEF Tick, vars, Outside
<1> HIDE DEF Only, Goto, Done
<1> QED BY <1>1, <1>2, <1>3, <1>4, <1>5, <1>6, <1>7, <1>8 DEF Next, Quiet

\* UpdateInbox copies a message that is newer than the inbox.
LEMMA InboxUpdated ==
    ASSUME TablesOK, NEW h \in Handlers, UpdateInbox(h)
    PROVE  /\ DOMAIN chats' = DOMAIN chats
           /\ \A c \in DOMAIN chats :
                IF c = loc[h].chat /\ chats[c].lastAt < loc[h].at
                THEN chats'[c].lastAt = loc[h].at /\ chats'[c].last = loc[h].msg
                ELSE chats'[c] = chats[c]
BY DEF UpdateInbox, TablesOK, Chat

\* MarkMessages changes read times, and only those that were not set.
LEMMA MessagesMarked ==
    ASSUME TablesOK, NEW h \in Handlers, MarkMessages(h)
    PROVE  /\ DOMAIN messages' = DOMAIN messages
           /\ \A m \in DOMAIN messages :
                /\ messages'[m].chat = messages[m].chat
                /\ messages'[m].at = messages[m].at
                /\ messages'[m].user = messages[m].user
                /\ messages'[m].readAt # messages[m].readAt =>
                      m \in Unread(loc[h].chat, loc[h].user)
BY DEF MarkMessages, TablesOK, Message

\* SetSubject changes no inbox.
LEMMA SubjectSet ==
    ASSUME TablesOK, NEW h \in Handlers, SetSubject(h)
    PROVE  /\ DOMAIN chats' = DOMAIN chats
           /\ \A c \in DOMAIN chats :
                /\ chats'[c].lastAt = chats[c].lastAt /\ chats'[c].last = chats[c].last
                /\ chats'[c].hirer = chats[c].hirer /\ chats'[c].owner = chats[c].owner
                /\ chats'[c].booked = chats[c].booked
BY DEF SetSubject, TablesOK, Chat

-----------------------------------------------------------------------------
(***************************************************************************)
(* The inbox.                                                              *)
(***************************************************************************)
\* A handler before its inbox update knows its message: it is there, unless a
\* Destroy has deleted it, with its chat or while its chat changed the subject.
InboxReady == \A h \in Handlers : pc[h] = "inbox" =>
    /\ loc[h].msg \in DOMAIN messages =>
        /\ messages[loc[h].msg].chat = loc[h].chat
        /\ messages[loc[h].msg].at = loc[h].at
    /\ loc[h].chat \in DOMAIN chats \ wiped => loc[h].msg \in DOMAIN messages

LEMMA InboxInit == Init => InboxReady /\ InboxUpToDate /\ InboxNamesMessage
BY SeedAssumption DEF Init, InboxReady, InboxUpToDate, InboxNamesMessage

LEMMA InboxReadyStep ==
    TablesOK /\ HandlersOK /\ InboxReady /\ [Next]_vars => InboxReady'
<1> SUFFICES ASSUME TablesOK, HandlersOK, InboxReady, [Next]_vars PROVE InboxReady'
    OBVIOUS
<1>0. /\ pc \in [Handlers -> Steps] /\ loc \in [Handlers -> Locals]
      /\ \A h \in Handlers : loc[h].chat < nextChat /\ loc[h].msg < nextMessage
      /\ nextChat \in Nat /\ nextMessage \in Nat
      /\ DOMAIN chats \subseteq 1 .. nextChat - 1
      /\ DOMAIN messages \subseteq 1 .. nextMessage - 1
  BY DEF TablesOK, HandlersOK, Fits
<1> USE <1>0 DEF InboxReady, Only, Goto, Done, tables
<1>1. CASE Outside
  BY <1>1 DEF Outside
<1>2. ASSUME NEW h \in Handlers, Quiet(h) PROVE InboxReady'
  BY <1>2 DEF Quiet
<1>3. ASSUME NEW h \in Handlers, FindChat(h) \/ StampReader(h) \/ ListMessages(h) \/ Fail(h),
             Only(h)
      PROVE  InboxReady'
  <2>1. pc'[h] # "inbox" /\ UNCHANGED <<chats, messages, wiped>>
    BY <1>3 DEF FindChat, StampReader, ListMessages, Fail
  <2> QED BY <1>3, <2>1
<1>4. ASSUME NEW h \in Handlers, OpenChat(h), Only(h) PROVE InboxReady'
  <2>1. pc'[h] # "inbox" /\ UNCHANGED <<messages, wiped>>
        /\ DOMAIN chats' = DOMAIN chats \cup {nextChat}
    BY <1>4 DEF OpenChat
  <2>2. \A g \in Handlers : loc[g].chat # nextChat
    BY DEF Locals
  <2> QED BY <1>4, <2>1, <2>2
<1>5. ASSUME NEW h \in Handlers, SetSubject(h), Only(h) PROVE InboxReady'
  BY <1>5, SubjectSet DEF SetSubject
<1>6. ASSUME NEW h \in Handlers, InsertMessage(h), Only(h) PROVE InboxReady'
  <2>1. /\ DOMAIN messages' = DOMAIN messages \cup {nextMessage}
        /\ \A m \in DOMAIN messages : messages'[m] = messages[m]
        /\ messages'[nextMessage].chat = loc[h].chat
        /\ messages'[nextMessage].at = loc[h].at
        /\ UNCHANGED <<chats, wiped>>
    BY <1>6 DEF InsertMessage
  <2>2. loc'[h].msg = nextMessage /\ loc'[h].chat = loc[h].chat /\ loc'[h].at = loc[h].at
    BY <1>6 DEF InsertMessage, Locals
  <2>3. \A g \in Handlers \ {h} : loc[g].msg # nextMessage
    BY DEF Locals
  <2> QED BY <1>6, <2>1, <2>2, <2>3
<1>7. ASSUME NEW h \in Handlers, UpdateInbox(h), Only(h) PROVE InboxReady'
  <2>1. pc'[h] = "idle" /\ UNCHANGED <<messages, wiped>>
    BY <1>7 DEF UpdateInbox
  <2> QED BY <1>7, <2>1, InboxUpdated
<1>8. ASSUME NEW h \in Handlers, MarkMessages(h), Only(h) PROVE InboxReady'
  <2>1. pc'[h] = "stamp" /\ UNCHANGED <<chats, wiped>>
    BY <1>8 DEF MarkMessages
  <2> QED BY <1>8, <2>1, MessagesMarked
<1>9. ASSUME NEW h \in Handlers, DestroyChats(h), Only(h) PROVE InboxReady'
  <2>1. /\ pc'[h] = "idle"
        /\ DOMAIN messages' = DOMAIN messages \ loc[h].victims
        /\ \A m \in DOMAIN messages' : messages'[m] = messages[m]
        /\ DOMAIN chats' \subseteq DOMAIN chats
        /\ \A m \in loc[h].victims : messages[m].chat \notin DOMAIN chats' \ wiped'
        /\ wiped \cap DOMAIN chats' \subseteq wiped'
    BY <1>9 DEF DestroyChats
  <2> QED BY <1>9, <2>1
<1> HIDE DEF InboxReady, Only
<1> QED BY <1>1, <1>2, <1>3, <1>4, <1>5, <1>6, <1>7, <1>8, <1>9, StepKinds

LEMMA InboxUpToDateStep ==
    TablesOK /\ HandlersOK /\ InboxReady /\ InboxUpToDate /\ [Next]_vars => InboxUpToDate'
<1> SUFFICES ASSUME TablesOK, HandlersOK, InboxReady, InboxUpToDate, [Next]_vars
             PROVE  InboxUpToDate'
    OBVIOUS
<1>0. /\ pc \in [Handlers -> Steps] /\ loc \in [Handlers -> Locals]
      /\ \A c \in DOMAIN chats : chats[c].lastAt \in Nat
      /\ \A m \in DOMAIN messages : messages[m].at \in Nat /\ messages[m].chat \in DOMAIN chats
      /\ nextMessage \notin DOMAIN messages /\ nextChat \notin DOMAIN chats
  BY DEF TablesOK, HandlersOK, Chat, Message
<1> USE <1>0 DEF InboxUpToDate, InboxPending, Only, Goto, Done, tables
<1>1. CASE Outside
  BY <1>1 DEF Outside
<1>2. ASSUME NEW h \in Handlers, Quiet(h) PROVE InboxUpToDate'
  <2>1. InboxPending' = InboxPending
    BY <1>2 DEF Quiet
  <2> QED BY <1>2, <2>1 DEF Quiet
<1>3. ASSUME NEW h \in Handlers, FindChat(h) \/ StampReader(h) \/ ListMessages(h), Only(h)
      PROVE  InboxUpToDate'
  <2>1. /\ pc'[h] # "inbox" /\ pc[h] # "inbox" /\ UNCHANGED <<chats, messages, lost>>
    BY <1>3 DEF FindChat, StampReader, ListMessages
  <2>2. InboxPending' = InboxPending
    BY <1>3, <2>1
  <2> QED BY <2>1, <2>2
<1>4. ASSUME NEW h \in Handlers, OpenChat(h), Only(h) PROVE InboxUpToDate'
  <2>1. /\ pc'[h] # "inbox" /\ pc[h] # "inbox" /\ UNCHANGED <<messages, lost>>
        /\ \A c \in DOMAIN chats : chats'[c] = chats[c]
    BY <1>4 DEF OpenChat
  <2>2. InboxPending' = InboxPending
    BY <1>4, <2>1
  <2> QED BY <2>1, <2>2
<1>5. ASSUME NEW h \in Handlers, SetSubject(h), Only(h) PROVE InboxUpToDate'
  <2>1. /\ pc'[h] # "inbox" /\ pc[h] # "inbox" /\ UNCHANGED <<messages, lost>>
    BY <1>5 DEF SetSubject
  <2>2. InboxPending' = InboxPending
    BY <1>5, <2>1
  <2> QED BY <1>5, <2>1, <2>2, SubjectSet
<1>6. ASSUME NEW h \in Handlers, InsertMessage(h), Only(h) PROVE InboxUpToDate'
  <2>1. /\ DOMAIN messages' = DOMAIN messages \cup {nextMessage}
        /\ \A m \in DOMAIN messages : messages'[m] = messages[m]
        /\ UNCHANGED <<chats, lost>>
        /\ pc[h] # "inbox" /\ pc'[h] = "inbox"
    BY <1>6 DEF InsertMessage
  <2>2. loc'[h].msg = nextMessage
    BY <1>6 DEF InsertMessage, Locals
  <2>3. InboxPending' = InboxPending \cup {nextMessage}
    BY <1>6, <2>1, <2>2
  <2> QED BY <2>1, <2>3
<1>7. ASSUME NEW h \in Handlers, UpdateInbox(h), Only(h) PROVE InboxUpToDate'
  <2>1. pc[h] = "inbox" /\ pc'[h] = "idle" /\ UNCHANGED <<messages, lost>>
    BY <1>7 DEF UpdateInbox
  <2>2. InboxPending \subseteq InboxPending' \cup {loc[h].msg}
    BY <1>7, <2>1
  <2>3. \A c \in DOMAIN chats : chats'[c].lastAt \in Nat /\ chats[c].lastAt <= chats'[c].lastAt
    BY <1>7, InboxUpdated DEF Locals
  <2>4. ASSUME NEW m \in DOMAIN messages, m \notin InboxPending \cup lost
        PROVE  messages[m].at <= chats'[messages[m].chat].lastAt
    <3>1. messages[m].at <= chats[messages[m].chat].lastAt
      BY <2>4
    <3> QED BY <2>3, <3>1
  <2>5. ASSUME loc[h].msg \in DOMAIN messages
        PROVE  messages[loc[h].msg].at <= chats'[messages[loc[h].msg].chat].lastAt
    <3>1. messages[loc[h].msg].chat = loc[h].chat /\ messages[loc[h].msg].at = loc[h].at
      BY <2>1, <2>5 DEF InboxReady
    <3>2. loc[h].chat \in DOMAIN chats
      BY <2>5, <3>1
    <3>3. loc[h].at <= chats'[loc[h].chat].lastAt
      BY <1>7, <3>2, InboxUpdated DEF Locals
    <3> QED BY <3>1, <3>3
  <2> QED BY <2>1, <2>2, <2>4, <2>5
<1>8. ASSUME NEW h \in Handlers, MarkMessages(h), Only(h) PROVE InboxUpToDate'
  <2>1. pc[h] = "mark" /\ pc'[h] = "stamp" /\ UNCHANGED <<chats, lost>>
    BY <1>8 DEF MarkMessages
  <2>2. InboxPending' = InboxPending
    BY <1>8, <2>1
  <2> QED BY <1>8, <2>1, <2>2, MessagesMarked
<1>9. ASSUME NEW h \in Handlers, DestroyChats(h), Only(h) PROVE InboxUpToDate'
  <2>1. /\ pc[h] = "destroy" /\ pc'[h] = "idle"
        /\ DOMAIN messages' = DOMAIN messages \ loc[h].victims
        /\ \A m \in DOMAIN messages' : messages'[m] = messages[m]
        /\ \A c \in DOMAIN chats' : chats'[c] = chats[c]
        /\ lost' = lost \ loc[h].victims
    BY <1>9 DEF DestroyChats
  <2>2. InboxPending' = InboxPending
    BY <1>9, <2>1
  <2>3. \A m \in DOMAIN messages' : messages'[m].chat \in DOMAIN chats'
    BY TablesStep DEF TablesOK
  <2> QED BY <2>1, <2>2, <2>3
<1>10. ASSUME NEW h \in Handlers, Fail(h), Only(h) PROVE InboxUpToDate'
  <2>1. pc'[h] = "idle" /\ UNCHANGED <<chats, messages>>
    BY <1>10 DEF Fail
  <2>2. InboxPending \cup lost \subseteq InboxPending' \cup lost'
    BY <1>10, <2>1 DEF Fail
  <2> QED BY <2>1, <2>2
<1> HIDE DEF InboxUpToDate, InboxPending, Only
<1> QED BY <1>1, <1>2, <1>3, <1>4, <1>5, <1>6, <1>7, <1>8, <1>9, <1>10, StepKinds

\* The inbox that UpdateInbox writes names the message it copies.
LEMMA InboxNamesMessageStep ==
    TablesOK /\ HandlersOK /\ InboxReady /\ InboxNamesMessage /\ [Next]_vars
        => InboxNamesMessage'
<1> SUFFICES ASSUME TablesOK, HandlersOK, InboxReady, InboxNamesMessage, [Next]_vars
             PROVE  InboxNamesMessage'
    OBVIOUS
<1>0. /\ pc \in [Handlers -> Steps] /\ loc \in [Handlers -> Locals]
      /\ nextMessage \notin DOMAIN messages /\ nextChat \notin DOMAIN chats
  BY DEF TablesOK, HandlersOK
<1> USE <1>0 DEF InboxNamesMessage, Only, Goto, Done, tables
<1>1. CASE Outside
  BY <1>1 DEF Outside
<1>2. ASSUME NEW h \in Handlers,
             \/ Quiet(h) \/ FindChat(h) \/ StampReader(h) \/ ListMessages(h) \/ Fail(h)
      PROVE  InboxNamesMessage'
  <2>1. UNCHANGED <<chats, messages, wiped>>
    BY <1>2 DEF Quiet, FindChat, StampReader, ListMessages, Fail
  <2> QED BY <2>1
<1>3. ASSUME NEW h \in Handlers, OpenChat(h) PROVE InboxNamesMessage'
  <2>1. /\ DOMAIN chats' = DOMAIN chats \cup {nextChat}
        /\ \A c \in DOMAIN chats : chats'[c] = chats[c]
        /\ chats'[nextChat].lastAt = 0
        /\ UNCHANGED <<messages, wiped>>
    BY <1>3 DEF OpenChat
  <2> QED BY <2>1
<1>4. ASSUME NEW h \in Handlers, SetSubject(h) PROVE InboxNamesMessage'
  <2>1. UNCHANGED <<messages, wiped>>
    BY <1>4 DEF SetSubject
  <2> QED BY <1>4, <2>1, SubjectSet
<1>5. ASSUME NEW h \in Handlers, InsertMessage(h) PROVE InboxNamesMessage'
  <2>1. /\ DOMAIN messages' = DOMAIN messages \cup {nextMessage}
        /\ \A m \in DOMAIN messages : messages'[m] = messages[m]
        /\ UNCHANGED <<chats, wiped>>
    BY <1>5 DEF InsertMessage
  <2> QED BY <2>1
<1>6. ASSUME NEW h \in Handlers, UpdateInbox(h) PROVE InboxNamesMessage'
  <2>1. pc[h] = "inbox" /\ UNCHANGED <<messages, wiped>>
    BY <1>6 DEF UpdateInbox
  <2>2. loc[h].chat \in DOMAIN chats \ wiped =>
            /\ loc[h].msg \in DOMAIN messages
            /\ messages[loc[h].msg].chat = loc[h].chat
            /\ messages[loc[h].msg].at = loc[h].at
    BY <2>1 DEF InboxReady
  <2> QED BY <1>6, <2>1, <2>2, InboxUpdated
<1>7. ASSUME NEW h \in Handlers, MarkMessages(h) PROVE InboxNamesMessage'
  <2>1. UNCHANGED <<chats, wiped>>
    BY <1>7 DEF MarkMessages
  <2> QED BY <1>7, <2>1, MessagesMarked
<1>8. ASSUME NEW h \in Handlers, DestroyChats(h) PROVE InboxNamesMessage'
  <2>1. /\ DOMAIN messages' = DOMAIN messages \ loc[h].victims
        /\ \A m \in DOMAIN messages' : messages'[m] = messages[m]
        /\ DOMAIN chats' \subseteq DOMAIN chats
        /\ \A c \in DOMAIN chats' : chats'[c] = chats[c]
        /\ \A m \in loc[h].victims : messages[m].chat \notin DOMAIN chats' \ wiped'
        /\ wiped \cap DOMAIN chats' \subseteq wiped'
    BY <1>8 DEF DestroyChats
  <2> QED BY <2>1
<1> HIDE DEF InboxNamesMessage
<1> QED BY <1>1, <1>2, <1>3, <1>4, <1>5, <1>6, <1>7, <1>8, StepKinds

\* Once no inbox update is on its way, a chat's inbox is no older than any of
\* its messages, whatever order they were stamped, inserted and copied in:
\* createMessage's UPDATE compares before it writes.
THEOREM InboxKeepsUp == Spec => []InboxUpToDate
BY BookkeepingInit, TablesStep, HandlersStep, InboxInit, InboxReadyStep,
   InboxUpToDateStep, PTL DEF Spec

\* The time and the content in a chat's inbox are those of one message of it.
THEOREM InboxNames == Spec => []InboxNamesMessage
BY BookkeepingInit, TablesStep, HandlersStep, InboxInit, InboxReadyStep,
   InboxNamesMessageStep, PTL DEF Spec

\* A message has the time its handler took from the clock.
TimesSet ==
    /\ \A m \in DOMAIN messages : messages[m].at # 0
    /\ \A h \in Handlers : pc[h] = "insert" => loc[h].at # 0

LEMMA TimesSetStep == TablesOK /\ HandlersOK /\ TimesSet /\ [Next]_vars => TimesSet'
<1> SUFFICES ASSUME TablesOK, HandlersOK, TimesSet, [Next]_vars PROVE TimesSet'
    OBVIOUS
<1>0. pc \in [Handlers -> Steps] /\ loc \in [Handlers -> Locals] /\ clock # 0
  BY DEF TablesOK, HandlersOK
<1> USE <1>0 DEF TimesSet, Only, Goto, Done, tables
<1>1. CASE Outside
  BY <1>1 DEF Outside
<1>2. ASSUME NEW h \in Handlers, Compose(h) PROVE TimesSet'
  <2>1. loc'[h].at = clock /\ messages' = messages
    BY <1>2 DEF Compose, Locals
  <2> QED BY <1>2, <2>1 DEF Compose
<1>3. ASSUME NEW h \in Handlers, Only(h), pc'[h] # "insert", UNCHANGED messages
      PROVE  TimesSet'
  BY <1>3
<1>4. ASSUME NEW h \in Handlers, InsertMessage(h), Only(h) PROVE TimesSet'
  <2>1. /\ pc[h] = "insert" /\ pc'[h] = "inbox"
        /\ DOMAIN messages' = DOMAIN messages \cup {nextMessage}
        /\ \A m \in DOMAIN messages \ {nextMessage} : messages'[m] = messages[m]
        /\ messages'[nextMessage].at = loc[h].at
    BY <1>4 DEF InsertMessage
  <2> QED BY <1>4, <2>1
<1>5. ASSUME NEW h \in Handlers, MarkMessages(h), Only(h) PROVE TimesSet'
  <2>1. pc'[h] = "stamp"
    BY <1>5 DEF MarkMessages
  <2> QED BY <1>5, <2>1, MessagesMarked
<1>6. ASSUME NEW h \in Handlers, DestroyChats(h), Only(h) PROVE TimesSet'
  <2>1. /\ pc'[h] = "idle"
        /\ DOMAIN messages' = DOMAIN messages \ loc[h].victims
        /\ \A m \in DOMAIN messages' : messages'[m] = messages[m]
    BY <1>6 DEF DestroyChats
  <2> QED BY <1>6, <2>1
<1>7. ASSUME NEW h \in Handlers,
             \/ \E u \in Users, l \in Listings : ChatsCreate(h, u, l)
             \/ \E u \in Users, c \in DOMAIN chats : MessagesCreate(h, u, c)
             \/ \E u \in Users, c \in DOMAIN chats : MessagesIndex(h, u, c)
             \/ \E l \in Listings : DestroyMessages(h, l)
             \/ RefuseBlank(h)
      PROVE  Only(h) /\ pc'[h] # "insert" /\ UNCHANGED messages
  BY <1>7 DEF ChatsCreate, MessagesCreate, MessagesIndex, DestroyMessages, RefuseBlank
<1>8. ASSUME NEW h \in Handlers, Only(h),
             \/ FindChat(h) \/ OpenChat(h) \/ SetSubject(h) \/ UpdateInbox(h)
             \/ StampReader(h) \/ ListMessages(h) \/ Fail(h)
      PROVE  pc'[h] # "insert" /\ UNCHANGED messages
  BY <1>8 DEF FindChat, OpenChat, SetSubject, UpdateInbox, StampReader, ListMessages, Fail
<1>9. ASSUME NEW l \in Listings, SaveListing(l) PROVE Outside
  BY <1>9 DEF SaveListing, Outside
<1>10. ASSUME Tick \/ UNCHANGED vars PROVE Outside
  BY <1>10 DEF Tick, vars, Outside
<1>11. ASSUME NEW h \in Handlers,
              \/ FindChat(h) \/ OpenChat(h) \/ SetSubject(h) \/ InsertMessage(h)
              \/ UpdateInbox(h) \/ MarkMessages(h) \/ StampReader(h)
       PROVE  Only(h)
  BY <1>11
  DEF FindChat, OpenChat, SetSubject, InsertMessage, UpdateInbox, MarkMessages, StampReader
<1>12. ASSUME NEW h \in Handlers, ListMessages(h) \/ DestroyChats(h) \/ Fail(h)
       PROVE  Only(h)
  BY <1>12 DEF ListMessages, DestroyChats, Fail
<1> HIDE DEF TimesSet, Only, Goto, Done
<1> QED BY <1>1, <1>2, <1>3, <1>4, <1>5, <1>6, <1>7, <1>8, <1>9, <1>10, <1>11, <1>12 DEF Next

\* A chat at rest, with a message, no inbox update on its way and none that failed,
\* shows in the inbox the newest of its messages.
InboxShowsNewest == \A c \in DOMAIN chats \ wiped :
    LET mine == {m \in DOMAIN messages : messages[m].chat = c} IN
    mine # {} /\ mine \cap (InboxPending \cup lost) = {} =>
        /\ chats[c].last \in mine
        /\ chats[c].lastAt = messages[chats[c].last].at
        /\ \A m \in mine : messages[m].at <= messages[chats[c].last].at

\* What the two inbox properties come to for those who read the inbox: whatever
\* order messages were stamped, inserted and copied in, the inbox ends up with the
\* content and the time of one that no other message of the chat is newer than.
THEOREM InboxDoesShowNewest == Spec => []InboxShowsNewest
<1>1. Init => TimesSet
  BY DEF Init, TimesSet
<1>2. TablesOK /\ TimesSet /\ InboxUpToDate /\ InboxNamesMessage => InboxShowsNewest
  <2> SUFFICES ASSUME TablesOK, TimesSet, InboxUpToDate, InboxNamesMessage,
                      NEW c \in DOMAIN chats \ wiped,
                      NEW n \in DOMAIN messages, messages[n].chat = c,
                      \A m \in DOMAIN messages :
                          messages[m].chat = c => m \notin InboxPending \cup lost
               PROVE  /\ chats[c].last \in DOMAIN messages
                      /\ messages[chats[c].last].chat = c
                      /\ chats[c].lastAt = messages[chats[c].last].at
                      /\ \A m \in DOMAIN messages :
                            messages[m].chat = c =>
                                messages[m].at <= messages[chats[c].last].at
      BY DEF InboxShowsNewest
  <2>1. messages[n].at \in Nat \ {0} /\ chats[c].lastAt \in Nat
    BY DEF TablesOK, TimesSet, Message, Chat
  <2>2. \A m \in DOMAIN messages : messages[m].chat = c => messages[m].at <= chats[c].lastAt
    BY DEF InboxUpToDate
  <2>3. chats[c].lastAt # 0
    BY <2>1, <2>2
  <2> QED BY <2>2, <2>3 DEF InboxNamesMessage
<1> QED BY <1>1, <1>2, BookkeepingInit, TablesStep, HandlersStep, InboxInit,
           InboxReadyStep, InboxUpToDateStep, InboxNamesMessageStep, TimesSetStep, PTL
        DEF Spec

\* No step moves a chat back in the index.
THEOREM InboxMovesOn == Spec => InboxNeverGoesBack
<1> DEFINE Forward == \A c \in DOMAIN chats \cap DOMAIN chats' :
                          chats[c].lastAt <= chats'[c].lastAt
<1>1. ASSUME TablesOK, HandlersOK, [Next]_vars PROVE Forward
  <2>0. /\ \A c \in DOMAIN chats : chats[c].lastAt \in Nat
        /\ loc \in [Handlers -> Locals]
        /\ nextChat \notin DOMAIN chats
    BY <1>1 DEF TablesOK, HandlersOK, Chat
  <2>1. ASSUME NEW h \in Handlers,
               \/ Quiet(h) \/ FindChat(h) \/ InsertMessage(h) \/ MarkMessages(h)
               \/ StampReader(h) \/ ListMessages(h) \/ Fail(h)
        PROVE  chats' = chats
    BY <2>1 DEF Quiet, FindChat, InsertMessage, MarkMessages, StampReader, ListMessages,
                Fail, tables
  <2>2. ASSUME NEW h \in Handlers, OpenChat(h) \/ DestroyChats(h)
        PROVE  \A c \in DOMAIN chats \cap DOMAIN chats' : chats'[c] = chats[c]
    BY <2>0, <2>2 DEF OpenChat, DestroyChats
  <2>3. ASSUME NEW h \in Handlers, SetSubject(h) PROVE Forward
    BY <1>1, <2>0, <2>3, SubjectSet
  <2>4. ASSUME NEW h \in Handlers, UpdateInbox(h) PROVE Forward
    BY <1>1, <2>0, <2>4, InboxUpdated DEF Locals
  <2>5. CASE chats' = chats
    BY <2>0, <2>5
  <2>6. ASSUME \A c \in DOMAIN chats \cap DOMAIN chats' : chats'[c] = chats[c] PROVE Forward
    BY <2>0, <2>6
  <2> HIDE DEF Forward
  <2> QED BY <1>1, <2>1, <2>2, <2>3, <2>4, <2>5, <2>6, StepKinds DEF Outside
<1>2. TablesOK /\ HandlersOK /\ [Next]_vars => [Forward]_vars
  BY <1>1
<1> QED BY <1>2, BookkeepingInit, TablesStep, HandlersStep, PTL
        DEF Spec, InboxNeverGoesBack

-----------------------------------------------------------------------------
(***************************************************************************)
(* Read marks.                                                             *)
(***************************************************************************)
\* A step that marks nothing and ends no listing keeps every mark accounted for.
LEMMA MarksKept ==
    ASSUME HandlersOK, ReadMeansListed, NEW h \in Handlers, Only(h),
           {pc[h], pc'[h]} \cap {"stamp", "list"} = {},
           \A m \in DOMAIN messages \cap DOMAIN messages' : messages'[m] = messages[m],
           \A m \in DOMAIN messages' \ DOMAIN messages : messages'[m].readAt = 0,
           shown \cap DOMAIN messages' \subseteq shown'
    PROVE  ReadMeansListed'
<1> SUFFICES ASSUME NEW m \in DOMAIN messages', messages'[m].readAt # 0
             PROVE  m \in shown' \/ \E g \in Handlers :
                        pc'[g] \in {"stamp", "list"} /\ m \in MarkedFor(g)'
    BY DEF ReadMeansListed
<1>1. m \in DOMAIN messages /\ messages'[m] = messages[m]
  OBVIOUS
<1>2. CASE m \in shown
  BY <1>2
<1>3. ASSUME NEW g \in Handlers, pc[g] \in {"stamp", "list"}, m \in MarkedFor(g)
      PROVE  pc'[g] \in {"stamp", "list"} /\ m \in MarkedFor(g)'
  <2>1. g # h
    BY <1>3
  <2> QED BY <1>1, <1>3, <2>1 DEF MarkedFor, Only
<1> QED BY <1>1, <1>2, <1>3 DEF ReadMeansListed

LEMMA ReadMeansListedStep ==
    TablesOK /\ HandlersOK /\ ReadMeansListed /\ [Next]_vars => ReadMeansListed'
<1> SUFFICES ASSUME TablesOK, HandlersOK, ReadMeansListed, [Next]_vars
             PROVE  ReadMeansListed'
    OBVIOUS
<1>0. /\ pc \in [Handlers -> Steps] /\ loc \in [Handlers -> Locals]
      /\ nextMessage \notin DOMAIN messages
  BY DEF TablesOK, HandlersOK
<1> USE <1>0 DEF Goto, Done, tables
<1>1. CASE Outside
  BY <1>1 DEF Outside, ReadMeansListed, MarkedFor
<1>2. ASSUME NEW h \in Handlers, Only(h),
             \/ Quiet(h) \/ FindChat(h) \/ OpenChat(h) \/ SetSubject(h) \/ UpdateInbox(h)
      PROVE  ReadMeansListed'
  <2>1. {pc[h], pc'[h]} \cap {"stamp", "list"} = {} /\ UNCHANGED <<messages, shown>>
    BY <1>2 DEF Quiet, FindChat, OpenChat, SetSubject, UpdateInbox
  <2> QED BY <1>2, <2>1, MarksKept
<1>3. ASSUME NEW h \in Handlers, Only(h), InsertMessage(h) PROVE ReadMeansListed'
  <2>1. /\ {pc[h], pc'[h]} \cap {"stamp", "list"} = {} /\ UNCHANGED shown
        /\ DOMAIN messages' = DOMAIN messages \cup {nextMessage}
        /\ \A m \in DOMAIN messages : messages'[m] = messages[m]
        /\ messages'[nextMessage].readAt = 0
    BY <1>3 DEF InsertMessage
  <2> QED BY <1>3, <2>1, MarksKept
<1>4. ASSUME NEW h \in Handlers, Only(h), DestroyChats(h) PROVE ReadMeansListed'
  <2>1. /\ {pc[h], pc'[h]} \cap {"stamp", "list"} = {} /\ shown' = shown \ loc[h].victims
        /\ DOMAIN messages' = DOMAIN messages \ loc[h].victims
        /\ \A m \in DOMAIN messages' : messages'[m] = messages[m]
    BY <1>4 DEF DestroyChats
  <2> QED BY <1>4, <2>1, MarksKept
<1>5. ASSUME NEW h \in Handlers, Only(h), MarkMessages(h) PROVE ReadMeansListed'
  <2>1. /\ pc[h] = "mark" /\ pc'[h] = "stamp" /\ UNCHANGED shown
        /\ loc'[h].chat = loc[h].chat /\ loc'[h].user = loc[h].user
    BY <1>5 DEF MarkMessages, Locals
  <2>2. \A m \in Unread(loc[h].chat, loc[h].user) :
            messages'[m].readAt # 0 => m \in MarkedFor(h)'
    BY <1>5, <2>1, MessagesMarked DEF Unread, MarkedFor
  <2>3. \A m \in DOMAIN messages : messages[m].readAt # 0 =>
            messages'[m].readAt = messages[m].readAt
    BY <1>5, MessagesMarked DEF Unread
  <2>4. ASSUME NEW g \in Handlers, pc[g] \in {"stamp", "list"}, NEW m \in MarkedFor(g)
        PROVE  pc'[g] \in {"stamp", "list"} /\ m \in MarkedFor(g)'
    BY <1>5, <2>1, <2>3, <2>4, MessagesMarked DEF MarkedFor, Only
  <2>5. DOMAIN messages' = DOMAIN messages
    BY <1>5, MessagesMarked
  <2> SUFFICES ASSUME NEW m \in DOMAIN messages, messages'[m].readAt # 0
               PROVE  m \in shown' \/ \E g \in Handlers :
                          pc'[g] \in {"stamp", "list"} /\ m \in MarkedFor(g)'
      BY <2>5 DEF ReadMeansListed
  <2>6. CASE messages[m].readAt # 0
    BY <2>1, <2>4, <2>6 DEF ReadMeansListed
  <2>7. CASE messages[m].readAt = 0
    <3>1. m \in Unread(loc[h].chat, loc[h].user)
      BY <1>5, <2>7, MessagesMarked
    <3> QED BY <2>1, <2>2, <3>1
  <2> QED BY <2>6, <2>7
<1>6. ASSUME NEW h \in Handlers, Only(h), StampReader(h) PROVE ReadMeansListed'
  <2>1. pc'[h] = "list" /\ UNCHANGED <<messages, loc, shown>>
    BY <1>6 DEF StampReader
  <2> QED BY <1>6, <2>1 DEF ReadMeansListed, MarkedFor, Only
<1>7. ASSUME NEW h \in Handlers, Only(h), ListMessages(h) \/ Fail(h) PROVE ReadMeansListed'
  <2>1. UNCHANGED messages /\ shown \subseteq shown'
    BY <1>7 DEF ListMessages, Fail
  <2>2. pc[h] \in {"stamp", "list"} => MarkedFor(h) \subseteq shown'
    BY <1>7 DEF ListMessages, Fail, Listed, MarkedFor
  <2> QED BY <1>7, <2>1, <2>2 DEF ReadMeansListed, MarkedFor, Only
<1> QED BY <1>1, <1>2, <1>3, <1>4, <1>5, <1>6, <1>7, StepKinds

\* A message counts as read only after its reader was shown it, or while the
\* request that marked it is about to list it: MarkRead comes before ListMessages.
THEOREM ReadIsListed == Spec => []ReadMeansListed
<1>1. Init => ReadMeansListed
  BY DEF Init, ReadMeansListed
<1> QED BY <1>1, BookkeepingInit, TablesStep, HandlersStep, ReadMeansListedStep, PTL
        DEF Spec

\* A read time is set once, by a reader who is not the author: MarkRead's UPDATE
\* takes only unread messages of the other participant.
THEOREM ReadTimesStay == Spec => ReadOnce
<1> DEFINE Once == \A m \in DOMAIN messages \cap DOMAIN messages' :
        messages'[m].readAt # messages[m].readAt =>
            /\ messages[m].readAt = 0
            /\ \E h \in Handlers : pc[h] = "mark" /\ loc[h].user # messages[m].user
<1>1. ASSUME TablesOK, HandlersOK, [Next]_vars PROVE Once
  <2>1. ASSUME \A m \in DOMAIN messages \cap DOMAIN messages' : messages'[m] = messages[m]
        PROVE  Once
    BY <2>1
  <2>2. ASSUME NEW h \in Handlers,
               \/ Quiet(h) \/ FindChat(h) \/ OpenChat(h) \/ SetSubject(h) \/ UpdateInbox(h)
               \/ StampReader(h) \/ ListMessages(h) \/ Fail(h)
        PROVE  messages' = messages
    BY <2>2 DEF Quiet, FindChat, OpenChat, SetSubject, UpdateInbox, StampReader,
                ListMessages, Fail, tables
  <2>3. ASSUME NEW h \in Handlers, InsertMessage(h) \/ DestroyChats(h)
        PROVE  \A m \in DOMAIN messages \cap DOMAIN messages' : messages'[m] = messages[m]
    <3>1. nextMessage \notin DOMAIN messages
      BY <1>1 DEF TablesOK
    <3> QED BY <2>3, <3>1 DEF InsertMessage, DestroyChats
  <2>4. ASSUME NEW h \in Handlers, MarkMessages(h) PROVE Once
    <3>1. pc[h] = "mark"
      BY <2>4 DEF MarkMessages
    <3> QED BY <1>1, <2>4, <3>1, MessagesMarked DEF Unread
  <2> HIDE DEF Once
  <2> QED BY <1>1, <2>1, <2>2, <2>3, <2>4, StepKinds DEF Outside
<1>2. TablesOK /\ HandlersOK /\ [Next]_vars => [Once]_vars
  BY <1>1
<1> QED BY <1>2, BookkeepingInit, TablesStep, HandlersStep, PTL DEF Spec, ReadOnce

-----------------------------------------------------------------------------
(***************************************************************************)
(* How many chats a pair of users can have.                                *)
(***************************************************************************)
\* The handlers that found no chat of the pair and have not opened one yet.
Opening(u, o) == {h \in Handlers :
    pc[h] = "open" /\ loc[h].user = u /\ OwnerOf[loc[h].listing] = o}

LEMMA FinitePairs ==
    ASSUME TablesOK, NEW u, NEW o
    PROVE  /\ IsFiniteSet(Unbooked(u, o)) /\ IsFiniteSet(Opening(u, o))
           /\ Cardinality(Unbooked(u, o)) \in Nat /\ Cardinality(Opening(u, o)) \in Nat
           /\ Cardinality(Opening(u, o)) <= Cardinality(Handlers)
           /\ Cardinality(Handlers) \in Nat
<1>1. IsFiniteSet(DOMAIN chats)
  <2>1. nextChat - 1 \in Int /\ DOMAIN chats \subseteq 1 .. nextChat - 1
    BY DEF TablesOK
  <2> QED BY <2>1, FS_Interval, FS_Subset
<1>2. Unbooked(u, o) \subseteq DOMAIN chats /\ Opening(u, o) \subseteq Handlers
  BY DEF Unbooked, Opening
<1> QED BY <1>1, <1>2, SeedPairs, FS_Subset, FS_CardinalityType

\* Fewer chats and fewer handlers about to open one keep the bound.
LEMMA BoundShrinks ==
    ASSUME TablesOK, NEW u \in Users, NEW o \in Users, DuplicatesBounded,
           Unbooked(u, o)' \subseteq Unbooked(u, o), Opening(u, o)' \subseteq Opening(u, o)
    PROVE  Cardinality(Unbooked(u, o)') + Cardinality(Opening(u, o)')
               <= Cardinality(Handlers)
<1>1. /\ Cardinality(Unbooked(u, o)') <= Cardinality(Unbooked(u, o))
      /\ Cardinality(Opening(u, o)') <= Cardinality(Opening(u, o))
      /\ Cardinality(Unbooked(u, o)') \in Nat /\ Cardinality(Opening(u, o)') \in Nat
  BY FinitePairs, FS_Subset, FS_CardinalityType
<1>2. Cardinality(Unbooked(u, o)) + Cardinality(Opening(u, o)) <= Cardinality(Handlers)
  BY DEF DuplicatesBounded, Opening
<1> QED BY <1>1, <1>2, FinitePairs

LEMMA DuplicatesBoundedStep ==
    TablesOK /\ HandlersOK /\ DuplicatesBounded /\ [Next]_vars => DuplicatesBounded'
<1> SUFFICES ASSUME TablesOK, HandlersOK, DuplicatesBounded, [Next]_vars,
                    NEW u \in Users, NEW o \in Users
             PROVE  Cardinality(Unbooked(u, o)') + Cardinality(Opening(u, o)')
                        <= Cardinality(Handlers)
    BY DEF DuplicatesBounded, Opening
<1>0. /\ pc \in [Handlers -> Steps] /\ loc \in [Handlers -> Locals]
      /\ nextChat \notin DOMAIN chats
      /\ TablesOK'
  BY TablesStep DEF TablesOK, HandlersOK
<1> USE <1>0 DEF Goto, Done, tables
<1>1. ASSUME Unbooked(u, o)' \subseteq Unbooked(u, o), Opening(u, o)' \subseteq Opening(u, o)
      PROVE  Cardinality(Unbooked(u, o)') + Cardinality(Opening(u, o)')
                 <= Cardinality(Handlers)
  BY <1>1, BoundShrinks
<1>2. ASSUME NEW h \in Handlers, Only(h), pc'[h] # "open"
      PROVE  Opening(u, o)' \subseteq Opening(u, o)
  BY <1>2 DEF Only, Opening
<1>3. CASE Outside
  BY <1>1, <1>3 DEF Outside, Unbooked, Opening
<1>4. ASSUME NEW h \in Handlers, Only(h),
             \/ Quiet(h) \/ InsertMessage(h) \/ MarkMessages(h) \/ StampReader(h)
             \/ ListMessages(h) \/ Fail(h)
      PROVE  Cardinality(Unbooked(u, o)') + Cardinality(Opening(u, o)')
                 <= Cardinality(Handlers)
  <2>1. UNCHANGED chats /\ pc'[h] # "open"
    BY <1>4 DEF Quiet, InsertMessage, MarkMessages, StampReader, ListMessages, Fail
  <2>2. Unbooked(u, o)' = Unbooked(u, o)
    BY <2>1 DEF Unbooked
  <2> QED BY <1>1, <1>2, <1>4, <2>1, <2>2
<1>5. ASSUME NEW h \in Handlers, Only(h),
             SetSubject(h) \/ UpdateInbox(h) \/ DestroyChats(h)
      PROVE  Cardinality(Unbooked(u, o)') + Cardinality(Opening(u, o)')
                 <= Cardinality(Handlers)
  <2>1. pc'[h] # "open"
    BY <1>5 DEF SetSubject, UpdateInbox, DestroyChats
  <2>2. CASE DestroyChats(h)
    <3>1. Unbooked(u, o)' \subseteq Unbooked(u, o)
      BY <2>2 DEF DestroyChats, Unbooked
    <3> QED BY <1>1, <1>2, <1>5, <2>1, <3>1
  <2>3. CASE SetSubject(h)
    <3>1. Unbooked(u, o)' \subseteq Unbooked(u, o)
      BY <2>3, SubjectSet DEF Unbooked
    <3> QED BY <1>1, <1>2, <1>5, <2>1, <3>1
  <2>4. CASE UpdateInbox(h)
    <3>1. /\ DOMAIN chats' = DOMAIN chats
          /\ \A c \in DOMAIN chats : /\ chats'[c].hirer = chats[c].hirer
                                    /\ chats'[c].owner = chats[c].owner
                                    /\ chats'[c].booked = chats[c].booked
      BY <2>4 DEF UpdateInbox, TablesOK, Chat
    <3>2. Unbooked(u, o)' \subseteq Unbooked(u, o)
      BY <3>1 DEF Unbooked
    <3> QED BY <1>1, <1>2, <1>5, <2>1, <3>2
  <2> QED BY <1>5, <2>2, <2>3, <2>4
<1>6. ASSUME NEW h \in Handlers, Only(h), FindChat(h)
      PROVE  Cardinality(Unbooked(u, o)') + Cardinality(Opening(u, o)')
                 <= Cardinality(Handlers)
  <2>1. Unbooked(u, o)' = Unbooked(u, o)
    BY <1>6 DEF FindChat, Unbooked
  <2>2. CASE pc'[h] # "open"
    BY <1>1, <1>2, <1>6, <2>1, <2>2
  <2>3. CASE pc'[h] = "open" /\ ~(loc[h].user = u /\ OwnerOf[loc[h].listing] = o)
    <3>1. loc' = loc
      BY <1>6, <2>3 DEF FindChat
    <3>2. Opening(u, o)' \subseteq Opening(u, o)
      BY <1>6, <2>3, <3>1 DEF Only, Opening
    <3> QED BY <1>1, <2>1, <3>2
  <2>4. CASE pc'[h] = "open" /\ loc[h].user = u /\ OwnerOf[loc[h].listing] = o
    <3>1. Unbooked(u, o) = {}
      BY <1>6, <2>4 DEF FindChat
    <3>2. Cardinality(Unbooked(u, o)') = 0
      BY <2>1, <3>1, FS_EmptySet
    <3>3. /\ Cardinality(Opening(u, o)') <= Cardinality(Handlers)
          /\ Cardinality(Opening(u, o)') \in Nat /\ Cardinality(Handlers) \in Nat
      <4>1. Opening(u, o)' \subseteq Handlers
        BY DEF Opening
      <4> QED BY <4>1, SeedPairs, FS_Subset, FS_CardinalityType
    <3> QED BY <3>2, <3>3
  <2> QED BY <2>2, <2>3, <2>4
<1>7. ASSUME NEW h \in Handlers, Only(h), OpenChat(h)
      PROVE  Cardinality(Unbooked(u, o)') + Cardinality(Opening(u, o)')
                 <= Cardinality(Handlers)
  <2>1. /\ DOMAIN chats' = DOMAIN chats \cup {nextChat}
        /\ \A c \in DOMAIN chats : chats'[c] = chats[c]
        /\ chats'[nextChat].hirer = loc[h].user
        /\ chats'[nextChat].owner = OwnerOf[loc[h].listing]
        /\ chats'[nextChat].booked = FALSE
        /\ pc[h] = "open" /\ pc'[h] = "compose"
    BY <1>7 DEF OpenChat
  <2>2. CASE ~(loc[h].user = u /\ OwnerOf[loc[h].listing] = o)
    <3>1. Unbooked(u, o)' = Unbooked(u, o)
      BY <2>1, <2>2 DEF Unbooked
    <3> QED BY <1>1, <1>2, <1>7, <2>1, <3>1
  <2>3. CASE loc[h].user = u /\ OwnerOf[loc[h].listing] = o
    <3>1. Unbooked(u, o)' = Unbooked(u, o) \cup {nextChat} /\ nextChat \notin Unbooked(u, o)
      BY <2>1, <2>3 DEF Unbooked
    <3>2. Opening(u, o)' = Opening(u, o) \ {h} /\ h \in Opening(u, o)
      BY <1>7, <2>1, <2>3 DEF Only, Opening
    <3>3. Cardinality(Unbooked(u, o)') = Cardinality(Unbooked(u, o)) + 1
      BY <3>1, FinitePairs, FS_AddElement
    <3>4. Cardinality(Opening(u, o)') = Cardinality(Opening(u, o)) - 1
      BY <3>2, FinitePairs, FS_RemoveElement
    <3>5. Cardinality(Unbooked(u, o)) + Cardinality(Opening(u, o)) <= Cardinality(Handlers)
      BY DEF DuplicatesBounded, Opening
    <3> QED BY <3>3, <3>4, <3>5, FinitePairs
  <2> QED BY <2>2, <2>3
<1> QED BY <1>3, <1>4, <1>5, <1>6, <1>7, StepKinds

\* The race between CreateFromListing's First and its Create leaves a pair of
\* users with no more unbooked chats than there are handlers at once.
THEOREM DuplicatesAreBounded == Spec => []DuplicatesBounded
<1>1. ASSUME Init PROVE DuplicatesBounded
  <2> SUFFICES ASSUME NEW u \in Users, NEW o \in Users
               PROVE  Cardinality(Unbooked(u, o)) + Cardinality(Opening(u, o))
                          <= Cardinality(Handlers)
      BY DEF DuplicatesBounded, Opening
  <2>1. Opening(u, o) = {}
    BY <1>1 DEF Init, Opening
  <2>2. Cardinality(Unbooked(u, o)) <= Cardinality(Handlers)
    BY <1>1, SeedPairs DEF Init, Unbooked
  <2> QED BY <1>1, <2>1, <2>2, FinitePairs, FS_EmptySet, BookkeepingInit
<1> QED BY <1>1, BookkeepingInit, TablesStep, HandlersStep, DuplicatesBoundedStep, PTL
        DEF Spec

=============================================================================
