------------------------------- MODULE Chats -------------------------------
(***************************************************************************)
(* Conversations between hirers and owners: ChatService and the handlers   *)
(* that call it, with ListingService.Destroy as far as it deletes chats.   *)
(* Nothing in ChatService runs in a transaction of its own: each SQL       *)
(* statement commits by itself, so each is a step, and other handlers run  *)
(* between any two.  Destroy is one transaction; its deletions stay        *)
(* invisible, and lock their rows, until it commits.                       *)
(*                                                                         *)
(* A chat keeps two inbox columns, last_message_at and                     *)
(* last_message_content, that repeat its newest message.  Content is       *)
(* represented by the message's id, and a NULL time by 0, which is before  *)
(* every reading of the clock.  hirer_last_read_at and owner_last_read_at  *)
(* are left out: nothing here depends on them.                             *)
(***************************************************************************)
EXTENDS Naturals, FiniteSets

CONSTANTS
    Users,
    Listings,
    OwnerOf,       \* the owner of each listing
    Handlers,      \* request handlers in flight at once (a bound in TLC)
    None,          \* no user, no listing
    Seed,          \* the chats the Rails application left, from id to row
    MaxRows,       \* bound on the chats and messages ever inserted
    MaxTime        \* bound on the clock

VARIABLES
    chats,        \* rows of chats, by id
    messages,     \* rows of messages, by id
    nextChat,     \* the chats id sequence
    nextMessage,  \* the messages id sequence
    live,         \* listings that exist
    clock,        \* time.Now() of the server
    pc,           \* the next statement of each handler
    loc,          \* its local variables, while a later statement reads them
    lost,         \* history: messages whose handler failed before the inbox update
    wiped,        \* history: chats that outlived a deletion of their messages
    shown         \* history: read messages listed for their reader, or marked by
                  \* a request that failed before it listed them

vars == <<chats, messages, nextChat, nextMessage, live, clock, pc, loc, lost, wiped, shown>>
tables == <<chats, messages, nextChat, nextMessage, live>>

Chat == [hirer : Users, owner : Users, listing : Listings, booked : BOOLEAN,
         lastAt : Nat, last : Nat]
Message == [chat : Nat, user : Users, at : Nat, readAt : Nat]
Locals == [user : Users \cup {None}, listing : Listings \cup {None}, chat : Nat,
           at : Nat, msg : Nat, victims : SUBSET Nat]
NoLocals == [user |-> None, listing |-> None, chat |-> 0, at |-> 0,
              msg |-> 0, victims |-> {}]
Steps == {"idle", "find", "open", "subject", "compose", "insert", "inbox",
          "mark", "stamp", "list", "destroy"}

\* Legacy chats carry no messages here: the inbox columns of those that do are
\* whatever Rails left in them.
ASSUME OwnerAssumption == OwnerOf \in [Listings -> Users]
ASSUME SeedAssumption ==
    /\ DOMAIN Seed = 1 .. Cardinality(DOMAIN Seed)
    /\ Cardinality(DOMAIN Seed) \in Nat
    /\ Seed \in [DOMAIN Seed -> Chat]
    /\ \A c \in DOMAIN Seed : /\ Seed[c].lastAt = 0
                            /\ OwnerOf[Seed[c].listing] = Seed[c].owner
\* Rails left no more unbooked chats of a pair than there are handlers; as a rule
\* it left one.
ASSUME SeedPairs ==
    /\ IsFiniteSet(Handlers)
    /\ \A u, o \in Users : Cardinality({c \in DOMAIN Seed :
            Seed[c].hirer = u /\ Seed[c].owner = o /\ ~Seed[c].booked}) <= Cardinality(Handlers)

isParticipant(c, u) == chats[c].hirer = u \/ chats[c].owner = u

\* hirer_id = ? AND owner_id = ? AND booking_id IS NULL
Unbooked(u, o) == {c \in DOMAIN chats :
    chats[c].hirer = u /\ chats[c].owner = o /\ ~chats[c].booked}

Goto(h, step) == pc' = [pc EXCEPT ![h] = step]
Done(h) == Goto(h, "idle") /\ loc' = [loc EXCEPT ![h] = NoLocals]

\* Rows that an open Destroy transaction has deleted; writers wait for them.
Doomed == UNION {loc[h].victims : h \in Handlers}

-----------------------------------------------------------------------------
Init ==
    /\ chats = Seed
    /\ messages = [m \in {} |-> 0]
    /\ nextChat = Cardinality(DOMAIN Seed) + 1
    /\ nextMessage = 1
    /\ live = Listings
    /\ clock = 1
    /\ pc = [h \in Handlers |-> "idle"]
    /\ loc = [h \in Handlers |-> NoLocals]
    /\ lost = {}
    /\ wiped = {}
    /\ shown = {}

\* chatsCreate, up to the call of CreateFromListing.  Owners are not refused.
ChatsCreate(h, u, l) ==
    /\ pc[h] = "idle"
    /\ l \in live
    /\ Goto(h, "find")
    /\ loc' = [loc EXCEPT ![h] = [NoLocals EXCEPT !.user = u, !.listing = l]]
    /\ UNCHANGED <<tables, clock, lost, wiped, shown>>

\* Mutant: looks only among the chats about this listing.
FindChatAbout(h) ==
    LET found == {c \in Unbooked(loc[h].user, OwnerOf[loc[h].listing]) :
                    chats[c].listing = loc[h].listing} IN
    /\ pc[h] = "find"
    /\ \/ found = {} /\ Goto(h, "open") /\ UNCHANGED loc
       \/ \E c \in found :
            /\ \A d \in found : c <= d
            /\ Goto(h, "subject")
            /\ loc' = [loc EXCEPT ![h].chat = c]
    /\ UNCHANGED <<tables, clock, lost, wiped, shown>>

\* First: the lowest id.
FindChat(h) ==
    LET found == Unbooked(loc[h].user, OwnerOf[loc[h].listing]) IN
    /\ pc[h] = "find"
    /\ \/ found = {} /\ Goto(h, "open") /\ UNCHANGED loc
       \/ \E c \in found :
            /\ \A d \in found : c <= d
            /\ Goto(h, "subject")
            /\ loc' = [loc EXCEPT ![h].chat = c]
    /\ UNCHANGED <<tables, clock, lost, wiped, shown>>

\* A bound, not a guard of the code.
RoomForOne == nextChat + nextMessage <= MaxRows + 1

OpenChat(h) ==
    /\ pc[h] = "open"
    /\ loc[h].listing \in live
    /\ RoomForOne
    /\ nextChat' = nextChat + 1
    /\ chats' = [c \in DOMAIN chats \cup {nextChat} |->
            IF c = nextChat
            THEN [hirer |-> loc[h].user, owner |-> OwnerOf[loc[h].listing],
                  listing |-> loc[h].listing, booked |-> FALSE, lastAt |-> 0,
                  last |-> 0]
            ELSE chats[c]]
    /\ Goto(h, "compose")
    /\ loc' = [loc EXCEPT ![h].chat = nextChat, ![h].listing = None]
    /\ UNCHANGED <<messages, nextMessage, live, clock, lost, wiped, shown>>

\* UPDATE chats SET rv_listing_id; of a chat that is gone it updates nothing.
SetSubject(h) ==
    /\ pc[h] = "subject"
    /\ loc[h].listing \in live
    /\ chats' = [c \in DOMAIN chats |->
            IF c = loc[h].chat THEN [chats[c] EXCEPT !.listing = loc[h].listing]
            ELSE chats[c]]
    /\ Goto(h, "compose")
    /\ loc' = [loc EXCEPT ![h].listing = None]
    /\ UNCHANGED <<messages, nextChat, nextMessage, live, clock, lost, wiped, shown>>

MessagesCreate(h, u, c) ==
    /\ pc[h] = "idle"
    /\ c \in DOMAIN chats
    /\ isParticipant(c, u)
    /\ Goto(h, "compose")
    /\ loc' = [loc EXCEPT ![h] = [NoLocals EXCEPT !.user = u, !.chat = c]]
    /\ UNCHANGED <<tables, clock, lost, wiped, shown>>

\* createMessage refuses the request if its content is blank; what
\* CreateFromListing did before stays.
RefuseBlank(h) ==
    /\ pc[h] = "compose"
    /\ Done(h)
    /\ UNCHANGED <<tables, clock, lost, wiped, shown>>

\* gorm takes created_at from the clock before it sends the INSERT.
Compose(h) ==
    /\ pc[h] = "compose"
    /\ Goto(h, "insert")
    /\ loc' = [loc EXCEPT ![h].at = clock]
    /\ UNCHANGED <<tables, clock, lost, wiped, shown>>

InsertMessage(h) ==
    /\ pc[h] = "insert"
    /\ loc[h].chat \in DOMAIN chats
    /\ RoomForOne
    /\ nextMessage' = nextMessage + 1
    /\ messages' = [m \in DOMAIN messages \cup {nextMessage} |->
            IF m = nextMessage
            THEN [chat |-> loc[h].chat, user |-> loc[h].user, at |-> loc[h].at,
                  readAt |-> 0]
            ELSE messages[m]]
    /\ Goto(h, "inbox")
    /\ loc' = [loc EXCEPT ![h].msg = nextMessage, ![h].user = None]
    /\ UNCHANGED <<chats, nextChat, live, clock, lost, wiped, shown>>

\* Mutant: only the first message reaches the inbox.
UpdateInboxOnce(h) ==
    /\ pc[h] = "inbox"
    /\ chats' = [c \in DOMAIN chats |->
            IF c = loc[h].chat /\ chats[c].lastAt = 0
            THEN [chats[c] EXCEPT !.lastAt = loc[h].at, !.last = loc[h].msg]
            ELSE chats[c]]
    /\ Done(h)
    /\ UNCHANGED <<messages, nextChat, nextMessage, live, clock, lost, wiped, shown>>

\* Mutant: the last writer wins.
UpdateInboxAlways(h) ==
    /\ pc[h] = "inbox"
    /\ chats' = [c \in DOMAIN chats |->
            IF c = loc[h].chat
            THEN [chats[c] EXCEPT !.lastAt = loc[h].at, !.last = loc[h].msg]
            ELSE chats[c]]
    /\ Done(h)
    /\ UNCHANGED <<messages, nextChat, nextMessage, live, clock, lost, wiped, shown>>

\* Mutant: only the time is conditional, the content is always copied.
UpdateInboxContent(h) ==
    /\ pc[h] = "inbox"
    /\ chats' = [c \in DOMAIN chats |->
            IF c # loc[h].chat THEN chats[c]
            ELSE [chats[c] EXCEPT !.last = loc[h].msg,
                                  !.lastAt = IF @ < loc[h].at THEN loc[h].at ELSE @]]
    /\ Done(h)
    /\ UNCHANGED <<messages, nextChat, nextMessage, live, clock, lost, wiped, shown>>

\* UPDATE ... WHERE last_message_at IS NULL OR last_message_at < created_at
UpdateInbox(h) ==
    /\ pc[h] = "inbox"
    /\ chats' = [c \in DOMAIN chats |->
            IF c = loc[h].chat /\ chats[c].lastAt < loc[h].at
            THEN [chats[c] EXCEPT !.lastAt = loc[h].at, !.last = loc[h].msg]
            ELSE chats[c]]
    /\ Done(h)
    /\ UNCHANGED <<messages, nextChat, nextMessage, live, clock, lost, wiped, shown>>

\* messagesIndex, up to MarkRead's reading of the clock.
MessagesIndex(h, u, c) ==
    /\ pc[h] = "idle"
    /\ c \in DOMAIN chats
    /\ isParticipant(c, u)
    /\ Goto(h, "mark")
    /\ loc' = [loc EXCEPT ![h] = [NoLocals EXCEPT !.user = u, !.chat = c, !.at = clock]]
    /\ UNCHANGED <<tables, clock, lost, wiped, shown>>

\* The messages that h's request marks, or another of the same reader has.
MarkedFor(h) == {m \in DOMAIN messages :
    /\ messages[m].chat = loc[h].chat
    /\ messages[m].user # loc[h].user
    /\ messages[m].readAt # 0}

\* Mutant: without read_at IS NULL.
UnreadOrRead(c, u) == {m \in DOMAIN messages :
    messages[m].chat = c /\ messages[m].user # u}

Unread(c, u) == {m \in DOMAIN messages :
    messages[m].chat = c /\ messages[m].user # u /\ messages[m].readAt = 0}

MarkMessages(h) ==
    LET unread == Unread(loc[h].chat, loc[h].user) IN
    /\ pc[h] = "mark"
    /\ unread \cap Doomed = {}
    /\ messages' = [m \in DOMAIN messages |->
            IF m \in unread THEN [messages[m] EXCEPT !.readAt = loc[h].at]
            ELSE messages[m]]
    /\ Goto(h, "stamp")
    /\ loc' = [loc EXCEPT ![h].at = 0]
    /\ UNCHANGED <<chats, nextChat, nextMessage, live, clock, lost, wiped, shown>>

\* MarkRead's UPDATE of the reader's last-read time, which is left out; it may
\* fail when the messages are already marked.
StampReader(h) ==
    /\ pc[h] = "stamp"
    /\ Goto(h, "list")
    /\ UNCHANGED <<tables, clock, loc, lost, wiped, shown>>

\* Mutant: only what is still unread.
ListedUnread(c) == {m \in DOMAIN messages : messages[m].chat = c /\ messages[m].readAt = 0}

Listed(c) == {m \in DOMAIN messages : messages[m].chat = c}

\* ListMessages, after MarkRead, and the answer.
ListMessages(h) ==
    /\ pc[h] = "list"
    /\ shown' = shown \cup (Listed(loc[h].chat) \cap MarkedFor(h))
    /\ Done(h)
    /\ UNCHANGED <<tables, clock, lost, wiped>>

MessagesAbout(l) == {m \in DOMAIN messages : chats[messages[m].chat].listing = l}

\* DELETE FROM messages WHERE chat_id IN (chats now about the listing)
DestroyMessages(h, l) ==
    /\ pc[h] = "idle"
    /\ l \in live
    /\ MessagesAbout(l) \cap Doomed = {}
    /\ Goto(h, "destroy")
    /\ loc' = [loc EXCEPT ![h] = [NoLocals EXCEPT !.listing = l, !.victims = MessagesAbout(l)]]
    /\ UNCHANGED <<tables, clock, lost, wiped, shown>>

\* Mutant: no foreign key from messages to chats.
DestroyChatsUnchecked(h) ==
    LET l == loc[h].listing
        gone == {c \in DOMAIN chats : chats[c].listing = l} IN
    /\ pc[h] = "destroy"
    /\ chats' = [c \in DOMAIN chats \ gone |-> chats[c]]
    /\ messages' = [m \in DOMAIN messages \ loc[h].victims |-> messages[m]]
    /\ live' = live \ {l}
    /\ Done(h)
    /\ UNCHANGED <<nextChat, nextMessage, clock, lost, wiped, shown>>

\* DELETE FROM chats (those about the listing by now), the listing, COMMIT.  The
\* foreign key from messages refuses a chat with a message that is not deleted.
DestroyChats(h) ==
    LET l == loc[h].listing
        gone == {c \in DOMAIN chats : chats[c].listing = l}
        victims == loc[h].victims IN
    /\ pc[h] = "destroy"
    /\ MessagesAbout(l) \subseteq victims
    /\ chats' = [c \in DOMAIN chats \ gone |-> chats[c]]
    /\ messages' = [m \in DOMAIN messages \ victims |-> messages[m]]
    /\ live' = live \ {l}
    /\ wiped' = (wiped \cup {messages[m].chat : m \in victims}) \ gone
    /\ lost' = lost \ victims
    /\ shown' = shown \ victims
    /\ Done(h)
    /\ UNCHANGED <<nextChat, nextMessage, clock>>

\* An Update, or a booking's SetStatus, that loaded a listing before its Destroy
\* saves it again.
SaveListing(l) ==
    /\ l \notin live
    /\ live' = live \cup {l}
    /\ UNCHANGED <<chats, messages, nextChat, nextMessage, clock, pc, loc, lost, wiped, shown>>

\* A statement fails (a foreign key refuses it, the connection breaks) or the
\* server stops.  What earlier statements committed stays; an open Destroy is
\* rolled back.
Fail(h) ==
    /\ pc[h] # "idle"
    /\ lost' = IF pc[h] = "inbox" THEN lost \cup {loc[h].msg} ELSE lost
    /\ shown' = IF pc[h] \in {"stamp", "list"}
                THEN shown \cup MarkedFor(h) ELSE shown
    /\ Done(h)
    /\ UNCHANGED <<tables, clock, wiped>>

Tick ==
    /\ clock < MaxTime
    /\ clock' = clock + 1
    /\ UNCHANGED <<tables, pc, loc, lost, wiped, shown>>

Next ==
    \/ \E h \in Handlers :
        \/ \E u \in Users, l \in Listings : ChatsCreate(h, u, l)
        \/ \E u \in Users, c \in DOMAIN chats : MessagesCreate(h, u, c)
        \/ \E u \in Users, c \in DOMAIN chats : MessagesIndex(h, u, c)
        \/ \E l \in Listings : DestroyMessages(h, l)
        \/ FindChat(h)
        \/ OpenChat(h)
        \/ SetSubject(h)
        \/ RefuseBlank(h)
        \/ Compose(h)
        \/ InsertMessage(h)
        \/ UpdateInbox(h)
        \/ MarkMessages(h)
        \/ StampReader(h)
        \/ ListMessages(h)
        \/ DestroyChats(h)
        \/ Fail(h)
    \/ \E l \in Listings : SaveListing(l)
    \/ Tick

Spec == Init /\ [][Next]_vars

-----------------------------------------------------------------------------
\* Rows and locals are of their types, ids come from their sequences, and the
\* foreign keys hold: a message is of a chat, a chat is about a listing.
TypeOK ==
    /\ {nextChat, nextMessage, clock} \subseteq Nat \ {0}
    /\ chats \in [DOMAIN chats -> Chat]
    /\ DOMAIN chats \subseteq 1 .. nextChat - 1
    /\ messages \in [DOMAIN messages -> Message]
    /\ DOMAIN messages \subseteq 1 .. nextMessage - 1
    /\ live \subseteq Listings
    /\ pc \in [Handlers -> Steps]
    /\ loc \in [Handlers -> Locals]
    /\ \A h \in Handlers :
        /\ pc[h] \notin {"idle", "inbox", "destroy"} => loc[h].user \in Users
        /\ pc[h] \in {"find", "open", "subject", "destroy"} => loc[h].listing \in Listings
        /\ pc[h] # "destroy" => loc[h].victims = {}
        /\ loc[h].victims \subseteq DOMAIN messages
    /\ \A m \in DOMAIN messages : messages[m].chat \in DOMAIN chats
    /\ \A c \in DOMAIN chats : chats[c].listing \in live

\* The messages whose inbox update is still to come.
InboxPending == {loc[h].msg : h \in {g \in Handlers : pc[g] = "inbox"}}

\* The inbox keeps up: last_message_at is no earlier than any message of the
\* chat, in whatever order the messages were stamped, inserted and copied,
\* except for a message whose handler has not made, or never made, its update.
InboxUpToDate == \A m \in DOMAIN messages \ (InboxPending \cup lost) :
    messages[m].at <= chats[messages[m].chat].lastAt

\* The two inbox columns belong together: they repeat one and the same message,
\* and it is a message of this chat, unless Destroy has erased it while another
\* handler made the chat be about a different listing.
InboxNamesMessage == \A c \in DOMAIN chats \ wiped :
    chats[c].lastAt # 0 =>
        /\ chats[c].last \in DOMAIN messages
        /\ messages[chats[c].last].chat = c
        /\ messages[chats[c].last].at = chats[c].lastAt

\* A chat's place in the index, ordered by last_message_at, never goes back.
InboxNeverGoesBack == [][\A c \in DOMAIN chats \cap DOMAIN chats' :
    chats[c].lastAt <= chats'[c].lastAt]_vars

\* Two readers, or a reader and a poster, never undo a read mark: the first
\* time a message was read stays, and its own author never sets it.
ReadOnce == [][\A m \in DOMAIN messages \cap DOMAIN messages' :
    messages'[m].readAt # messages[m].readAt =>
        /\ messages[m].readAt = 0
        /\ \E h \in Handlers : pc[h] = "mark" /\ loc[h].user # messages[m].user]_vars

\* A message that counts as read has been listed for its reader, or is about to
\* be by the request that marked it: one that arrives between the marking and the
\* listing stays unread.
ReadMeansListed == \A m \in DOMAIN messages :
    messages[m].readAt # 0 =>
        m \in shown \/ \E h \in Handlers : pc[h] \in {"stamp", "list"} /\ m \in MarkedFor(h)

\* The race between find and create opens at most one chat per handler that
\* was between the two: once a pair has a chat, later creates go into it.
DuplicatesBounded == \A u, o \in Users :
    Cardinality(Unbooked(u, o)) +
        Cardinality({h \in Handlers : /\ pc[h] = "open"
                                      /\ loc[h].user = u
                                      /\ OwnerOf[loc[h].listing] = o})
    <= Cardinality(Handlers)

\* ChatService's comment: "find-or-create of the single unbooked chat per
\* (hirer, owner) pair".
SingleUnbookedChat == \A u, o \in Users : Cardinality(Unbooked(u, o)) <= 1

=============================================================================
