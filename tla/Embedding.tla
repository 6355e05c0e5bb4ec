----------------------------- MODULE Embedding -----------------------------
(***************************************************************************)
(* Keeping a listing's semantic-search embedding up to date.  A write of a *)
(* listing (ListingService.Create or Update, in the API process) commits   *)
(* and then enqueues a listing:embed task; a worker process takes the task *)
(* and runs EmbedListing: read the listing, read the embedding row, ask    *)
(* Ollama, save.  Workers run concurrently (asynq's default is one per     *)
(* CPU), EmbedListing runs in no transaction, and asynq runs a task that   *)
(* returned an error, or whose worker died, again.                         *)
(*                                                                         *)
(* A document is represented by a value: two documents are equal when      *)
(* their content hashes are.                                               *)
(***************************************************************************)
EXTENDS Naturals

CONSTANTS
    Listings,
    Docs,       \* the documents a listing's text can compose to
    Workers,    \* goroutines of the worker processes
    None,       \* no listing row, no embedding row, no document
    MaxTasks,   \* bound on the tasks ever enqueued, and on the writes
    MaxRetry    \* asynq gives a task up after this many retries

ASSUME NoneAssumption == None \notin Docs
ASSUME BoundsAssumption == MaxTasks \in Nat /\ MaxRetry \in Nat

VARIABLES
    doc,       \* the document of each listing's current text
    embedded,  \* the document each listing's embedding row was made from
    writes,    \* how many writes there have been (bounded)
    owed,      \* writes of each listing committed but not yet enqueued
    tasks,     \* asynq's tasks, by number
    pc,        \* the next step of each worker
    task,      \* the task it runs
    text,      \* the document it composed
    found,     \* the embedding row it found: none, one, one deleted since
    missed,    \* history: listings one of whose tasks was not enqueued or given up
    raced      \* history: listings embedded by two workers at once

vars == <<doc, embedded, writes, owed, tasks, pc, task, text, found, missed, raced>>
worker == <<pc, task, text, found>>

TaskIds == 1 .. MaxTasks
Task == [listing : Listings, state : {"pending", "active", "done", "archived"},
         retried : Nat]

ListingOf(w) == tasks[task[w]].listing
Composed == {"compare", "call", "save"}

Finish(w, state, retried) ==
    /\ tasks' = [tasks EXCEPT ![task[w]] = [@ EXCEPT !.state = state, !.retried = retried]]
    /\ pc' = [pc EXCEPT ![w] = "idle"]
    /\ task' = [task EXCEPT ![w] = 0]
    /\ text' = [text EXCEPT ![w] = None]
    /\ found' = [found EXCEPT ![w] = "none"]

Complete(w) == Finish(w, "done", tasks[task[w]].retried)

\* Mutant: a failed task counts as done.
RetryNever(w) == Complete(w) /\ UNCHANGED missed

\* EmbedListing returned an error, or its process died and asynq noticed.
Retry(w) ==
    IF tasks[task[w]].retried < MaxRetry
    THEN Finish(w, "pending", tasks[task[w]].retried + 1) /\ UNCHANGED missed
    ELSE Finish(w, "archived", MaxRetry) /\ missed' = missed \cup {ListingOf(w)}

-----------------------------------------------------------------------------
Init ==
    /\ doc = [l \in Listings |-> None]
    /\ embedded = [l \in Listings |-> None]
    /\ writes = 0
    /\ owed = [l \in Listings |-> 0]
    /\ tasks = [t \in {} |-> 0]
    /\ pc = [w \in Workers |-> "idle"]
    /\ task = [w \in Workers |-> 0]
    /\ text = [w \in Workers |-> None]
    /\ found = [w \in Workers |-> "none"]
    /\ missed = {}
    /\ raced = {}

\* Create, or an Update, of the text or of fields outside it.  (An Update that
\* saves after a Destroy inserts the listing again.)
Write(l, d) ==
    /\ writes < MaxTasks
    /\ writes' = writes + 1
    /\ doc' = [doc EXCEPT ![l] = d]
    /\ owed' = [owed EXCEPT ![l] = @ + 1]
    /\ UNCHANGED <<embedded, tasks, worker, missed, raced>>

\* refreshEmbedding, after the commit.
Enqueue(l) ==
    /\ owed[l] > 0
    /\ owed' = [owed EXCEPT ![l] = @ - 1]
    /\ \E t \in TaskIds \ DOMAIN tasks :
        /\ \A u \in TaskIds \ DOMAIN tasks : t <= u
        /\ tasks' = [u \in DOMAIN tasks \cup {t} |->
                IF u = t THEN [listing |-> l, state |-> "pending", retried |-> 0]
                ELSE tasks[u]]
    /\ UNCHANGED <<doc, embedded, writes, worker, missed, raced>>

\* Redis refuses the task, which is only logged, or the server stops first.
EnqueueFails(l) ==
    /\ owed[l] > 0
    /\ owed' = [owed EXCEPT ![l] = @ - 1]
    /\ missed' = missed \cup {l}
    /\ UNCHANGED <<doc, embedded, writes, tasks, worker, raced>>

\* Destroy deletes the embedding row with the listing.
Destroy(l) ==
    /\ doc[l] # None
    /\ doc' = [doc EXCEPT ![l] = None]
    /\ embedded' = [embedded EXCEPT ![l] = None]
    /\ found' = [w \in Workers |->
            IF found[w] = "row" /\ ListingOf(w) = l THEN "deleted" ELSE found[w]]
    /\ UNCHANGED <<writes, owed, tasks, pc, task, text, missed, raced>>

Dequeue(w, t) ==
    /\ pc[w] = "idle"
    /\ t \in DOMAIN tasks
    /\ tasks[t].state = "pending"
    /\ tasks' = [tasks EXCEPT ![t].state = "active"]
    /\ pc' = [pc EXCEPT ![w] = "read"]
    /\ task' = [task EXCEPT ![w] = t]
    /\ UNCHANGED <<doc, embedded, writes, owed, text, found, missed, raced>>

ReadListing(w) ==
    LET l == ListingOf(w) IN
    /\ pc[w] = "read"
    /\ \/ doc[l] = None /\ Complete(w) /\ UNCHANGED raced
       \/ /\ doc[l] # None
          /\ pc' = [pc EXCEPT ![w] = "compare"]
          /\ text' = [text EXCEPT ![w] = doc[l]]
          /\ raced' = IF \E v \in Workers : pc[v] \in Composed /\ ListingOf(v) = l
                      THEN raced \cup {l} ELSE raced
          /\ UNCHANGED <<tasks, task, found>>
    /\ UNCHANGED <<doc, embedded, writes, owed, missed>>

\* Mutant: a listing that has an embedding keeps it.
ReadAnyRecord(w) ==
    LET l == ListingOf(w) IN
    /\ pc[w] = "compare"
    /\ \/ embedded[l] # None /\ Complete(w)
       \/ /\ embedded[l] = None
          /\ pc' = [pc EXCEPT ![w] = "call"]
          /\ found' = [found EXCEPT ![w] = "none"]
          /\ UNCHANGED <<tasks, task, text>>
    /\ UNCHANGED <<doc, embedded, writes, owed, missed, raced>>

\* The embedding row is skipped when it was made from this very document.
ReadRecord(w) ==
    LET l == ListingOf(w) IN
    /\ pc[w] = "compare"
    /\ \/ embedded[l] = text[w] /\ Complete(w)
       \/ /\ embedded[l] # text[w]
          /\ pc' = [pc EXCEPT ![w] = "call"]
          /\ found' = [found EXCEPT ![w] = IF embedded[l] = None THEN "none" ELSE "row"]
          /\ UNCHANGED <<tasks, task, text>>
    /\ UNCHANGED <<doc, embedded, writes, owed, missed, raced>>

CallOllama(w) ==
    /\ pc[w] = "call"
    /\ pc' = [pc EXCEPT ![w] = "save"]
    /\ UNCHANGED <<doc, embedded, writes, owed, tasks, task, text, found, missed, raced>>

\* Mutant: no foreign key, no unique index.
AcceptsAny(l, row) == TRUE

\* Save updates the row that was found, and inserts one if none was or if it is
\* gone.  The foreign key refuses it when the listing is gone, the unique index
\* on the listing when another row has taken its place.
Accepts(l, row) == doc[l] # None /\ (embedded[l] = None \/ row = "row")

Save(w) ==
    LET l == ListingOf(w) IN
    /\ pc[w] = "save"
    /\ Accepts(l, found[w])
    /\ embedded' = [embedded EXCEPT ![l] = text[w]]
    /\ pc' = [pc EXCEPT ![w] = "ack"]
    /\ UNCHANGED <<doc, writes, owed, tasks, task, text, found, missed, raced>>

\* asynq marks the task done.  A worker that dies before it does runs again.
Ack(w) ==
    /\ pc[w] = "ack"
    /\ Complete(w)
    /\ UNCHANGED <<doc, embedded, writes, owed, missed, raced>>

SaveRefused(w) ==
    /\ pc[w] = "save"
    /\ ~Accepts(ListingOf(w), found[w])
    /\ Retry(w)
    /\ UNCHANGED <<doc, embedded, writes, owed, raced>>

\* Ollama or the database fails, or the worker dies.
JobFails(w) ==
    /\ pc[w] # "idle"
    /\ Retry(w)
    /\ UNCHANGED <<doc, embedded, writes, owed, raced>>

Work(w) ==
    \/ \E t \in TaskIds : Dequeue(w, t)
    \/ ReadListing(w)
    \/ ReadRecord(w)
    \/ CallOllama(w)
    \/ Save(w)
    \/ SaveRefused(w)
    \/ Ack(w)

Next ==
    \/ \E l \in Listings :
        \/ \E d \in Docs : Write(l, d)
        \/ Enqueue(l)
        \/ EnqueueFails(l)
        \/ Destroy(l)
    \/ \E w \in Workers : Work(w) \/ JobFails(w)

Spec == Init /\ [][Next]_vars

\* The API process goes on after a commit, workers poll the queue and run what
\* they take, and Ollama answers unless it fails.
FairSpec ==
    /\ Spec
    /\ \A l \in Listings : WF_vars(Enqueue(l))
    /\ \A w \in Workers : WF_vars(Work(w))

-----------------------------------------------------------------------------
\* Rows, tasks and locals are of their types; a worker runs a task that no
\* other worker runs; only an existing listing has an embedding row.
TypeOK ==
    /\ doc \in [Listings -> Docs \cup {None}]
    /\ embedded \in [Listings -> Docs \cup {None}]
    /\ writes \in 0 .. MaxTasks
    /\ owed \in [Listings -> Nat]
    /\ DOMAIN tasks \subseteq TaskIds
    /\ tasks \in [DOMAIN tasks -> Task]
    /\ pc \in [Workers -> Composed \cup {"idle", "read", "ack"}]
    /\ text \in [Workers -> Docs \cup {None}]
    /\ found \in [Workers -> {"none", "row", "deleted"}]
    /\ \A w \in Workers :
        /\ pc[w] # "idle" => task[w] \in DOMAIN tasks /\ tasks[task[w]].state = "active"
        /\ pc[w] \in Composed => text[w] # None
    /\ \A v, w \in Workers : v # w /\ pc[v] # "idle" /\ pc[w] # "idle" => task[v] # task[w]
    /\ \A l \in Listings : embedded[l] # None => doc[l] # None

Fresh(l) == doc[l] # None => embedded[l] = doc[l]

\* A run of EmbedListing for l is coming that has not read the listing yet.
Coming(l) ==
    \/ owed[l] > 0
    \/ \E t \in DOMAIN tasks : tasks[t].listing = l /\ tasks[t].state = "pending"
    \/ \E w \in Workers : pc[w] = "read" /\ ListingOf(w) = l

Embedding(l) == \E w \in Workers :
    pc[w] \in Composed /\ ListingOf(w) = l /\ text[w] = doc[l]

\* No listing is left with an embedding of an older text and nobody to renew
\* it: a run that will read the text is coming, or one that has read it is
\* under way, unless a task was missed or two runs overlapped.
NoSilentStaleness == \A l \in Listings \ (missed \cup raced) :
    Fresh(l) \/ Coming(l) \/ Embedding(l)

\* EmbedListing's comment and test, "a changed document must re-embed": once no
\* run is outstanding and none was missed, each embedding is of the current
\* text.
ChangedDocumentReembeds == \A l \in Listings \ missed :
    Fresh(l) \/ Coming(l) \/ (\E w \in Workers : pc[w] \in Composed /\ ListingOf(w) = l)

\* When writing stops, every embedding becomes current and stays so, unless a
\* task was missed or two runs overlapped.
Converges == \A l \in Listings : <>[](l \in missed \cup raced \/ Fresh(l))

=============================================================================
