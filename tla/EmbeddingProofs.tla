--------------------------- MODULE EmbeddingProofs ---------------------------
(***************************************************************************)
(* Proofs about Embedding, for any listings and texts, any number of       *)
(* workers, of tasks and of retries.                                       *)
(***************************************************************************)
EXTENDS Embedding, TLAPS

RowsOK == TypeOK /\ task \in [Workers -> Nat]

\* Two runs compose for one listing at once only if it is in raced.
AloneUnlessRaced == \A v, w \in Workers :
    /\ pc[v] \in Composed /\ pc[w] \in Composed
    /\ ListingOf(v) = ListingOf(w) /\ ListingOf(v) \notin raced
    => v = w

\* A run that composed a text the listing no longer has is followed by one that
\* has not read yet: its save cannot be the last.
OutdatedIsFollowed == \A w \in Workers :
    LET l == ListingOf(w) IN
        pc[w] \in Composed /\ l \notin missed \cup raced /\ doc[l] \notin {None, text[w]}
            => Coming(l)

-----------------------------------------------------------------------------
(***************************************************************************)
(* Rows, tasks and locals.                                                 *)
(***************************************************************************)
\* What a worker that is not idle runs.
LEMMA Running ==
    ASSUME RowsOK, NEW w \in Workers, pc[w] # "idle"
    PROVE  /\ task[w] \in DOMAIN tasks /\ tasks[task[w]] \in Task
           /\ tasks[task[w]].state = "active" /\ ListingOf(w) \in Listings
BY DEF RowsOK, TypeOK, Task, ListingOf

\* The end of a run changes its task's state, and its own worker.
LEMMA Finished ==
    ASSUME RowsOK, NEW w \in Workers, pc[w] # "idle",
           NEW s \in {"pending", "done", "archived"}, NEW r \in Nat, Finish(w, s, r)
    PROVE  /\ DOMAIN tasks' = DOMAIN tasks
           /\ \A t \in DOMAIN tasks : tasks'[t].listing = tasks[t].listing
           /\ \A t \in DOMAIN tasks \ {task[w]} : tasks'[t] = tasks[t]
           /\ tasks'[task[w]].state = s
           /\ tasks' \in [DOMAIN tasks -> Task]
           /\ pc'[w] = "idle" /\ text'[w] = None
           /\ \A v \in Workers \ {w} : /\ pc'[v] = pc[v] /\ task'[v] = task[v]
                                     /\ text'[v] = text[v]
           /\ pc' \in [Workers -> Composed \cup {"idle", "read", "ack"}]
           /\ task' \in [Workers -> Nat]
           /\ text' \in [Workers -> Docs \cup {None}]
           /\ found' \in [Workers -> {"none", "row", "deleted"}]
<1>1. task[w] \in DOMAIN tasks /\ tasks[task[w]] \in Task
  BY Running
<1> DEFINE new == [tasks[task[w]] EXCEPT !.state = s, !.retried = r]
<1>2. new \in Task /\ new.state = s /\ new.listing = tasks[task[w]].listing
  BY <1>1 DEF Task
<1>3. tasks' = [tasks EXCEPT ![task[w]] = new]
  BY DEF Finish
<1> HIDE DEF new
<1>4. /\ DOMAIN tasks' = DOMAIN tasks
      /\ \A t \in DOMAIN tasks : tasks'[t].listing = tasks[t].listing
      /\ \A t \in DOMAIN tasks \ {task[w]} : tasks'[t] = tasks[t]
      /\ tasks'[task[w]].state = s
      /\ tasks' \in [DOMAIN tasks -> Task]
  BY <1>1, <1>2, <1>3 DEF RowsOK, TypeOK
<1>5. /\ pc'[w] = "idle" /\ text'[w] = None
      /\ \A v \in Workers \ {w} : /\ pc'[v] = pc[v] /\ task'[v] = task[v]
                                /\ text'[v] = text[v]
  BY DEF Finish, RowsOK, TypeOK
<1>6. /\ pc' \in [Workers -> Composed \cup {"idle", "read", "ack"}]
      /\ task' \in [Workers -> Nat]
      /\ text' \in [Workers -> Docs \cup {None}]
      /\ found' \in [Workers -> {"none", "row", "deleted"}]
  BY DEF Finish, RowsOK, TypeOK
<1> QED BY <1>4, <1>5, <1>6

LEMMA RowsFinished ==
    ASSUME RowsOK, NEW w \in Workers, pc[w] # "idle",
           NEW s \in {"pending", "done", "archived"}, NEW r \in Nat, Finish(w, s, r),
           UNCHANGED <<doc, embedded, writes, owed>>
    PROVE  RowsOK'
<1>1. \A v \in Workers : pc'[v] # "idle" => v # w
  BY Finished
<1>2. ASSUME NEW v \in Workers, pc'[v] # "idle"
      PROVE  /\ task'[v] \in DOMAIN tasks' /\ tasks'[task'[v]].state = "active"
             /\ pc'[v] \in Composed => text'[v] # None
  <2>1. v # w /\ pc[v] # "idle" /\ task'[v] = task[v] /\ text'[v] = text[v] /\ pc'[v] = pc[v]
    BY <1>1, <1>2, Finished
  <2>2. task[v] # task[w] /\ task[v] \in DOMAIN tasks /\ tasks[task[v]].state = "active"
    BY <2>1 DEF RowsOK, TypeOK
  <2>3. pc[v] \in Composed => text[v] # None
    BY DEF RowsOK, TypeOK
  <2> QED BY <2>1, <2>2, <2>3, Finished
<1>3. \A u, v \in Workers : u # v /\ pc'[u] # "idle" /\ pc'[v] # "idle" => task'[u] # task'[v]
  BY <1>1, Finished DEF RowsOK, TypeOK
<1>4. \A v \in Workers : pc'[v] \in Composed => text'[v] # None
  BY <1>2 DEF Composed
<1>5. DOMAIN tasks' \subseteq TaskIds /\ tasks' \in [DOMAIN tasks' -> Task]
  BY Finished DEF RowsOK, TypeOK
<1>6. /\ doc' \in [Listings -> Docs \cup {None}]
      /\ embedded' \in [Listings -> Docs \cup {None}]
      /\ writes' \in 0 .. MaxTasks
      /\ owed' \in [Listings -> Nat]
      /\ \A l \in Listings : embedded'[l] # None => doc'[l] # None
  BY DEF RowsOK, TypeOK
<1> QED BY <1>2, <1>3, <1>4, <1>5, <1>6, Finished DEF RowsOK, TypeOK

\* A run that failed is put back, or given up and remembered.
LEMMA Retried ==
    ASSUME RowsOK, NEW w \in Workers, pc[w] # "idle", Retry(w)
    PROVE  \E s \in {"pending", "archived"}, r \in Nat :
               /\ Finish(w, s, r)
               /\ missed \subseteq missed'
               /\ s = "archived" => ListingOf(w) \in missed'
<1>1. tasks[task[w]].retried \in Nat
  BY Running DEF Task
<1> QED BY <1>1, BoundsAssumption DEF Retry

\* A run that ended well.
LEMMA Completed ==
    ASSUME RowsOK, NEW w \in Workers, pc[w] # "idle", Complete(w)
    PROVE  \E r \in Nat : Finish(w, "done", r)
<1>1. tasks[task[w]].retried \in Nat
  BY Running DEF Task
<1> QED BY <1>1 DEF Complete

\* A worker that goes from one statement to the next with its task.
LEMMA WorkerMoves ==
    ASSUME RowsOK, NEW w \in Workers, pc[w] # "idle",
           NEW step \in Composed \cup {"read", "ack"}, pc' = [pc EXCEPT ![w] = step],
           text' \in [Workers -> Docs \cup {None}],
           \A v \in Workers \ {w} : text'[v] = text[v],
           step \in Composed => text'[w] # None,
           found' \in [Workers -> {"none", "row", "deleted"}],
           embedded' \in [Listings -> Docs \cup {None}],
           \A l \in Listings : embedded'[l] # None => doc[l] # None,
           UNCHANGED <<doc, writes, owed, tasks, task>>
    PROVE  RowsOK'
<1>1. pc' \in [Workers -> Composed \cup {"idle", "read", "ack"}]
  BY DEF RowsOK, TypeOK
<1>2. pc'[w] = step /\ \A v \in Workers \ {w} : pc'[v] = pc[v]
  BY DEF RowsOK, TypeOK
<1>3. \A v \in Workers : pc'[v] # "idle" => pc[v] # "idle"
  BY <1>2
<1>4. \A v \in Workers : /\ pc'[v] # "idle" => /\ task'[v] \in DOMAIN tasks'
                                               /\ tasks'[task'[v]].state = "active"
                         /\ pc'[v] \in Composed => text'[v] # None
  BY <1>2, <1>3 DEF RowsOK, TypeOK
<1>5. \A u, v \in Workers : u # v /\ pc'[u] # "idle" /\ pc'[v] # "idle" => task'[u] # task'[v]
  BY <1>3 DEF RowsOK, TypeOK
<1> QED BY <1>1, <1>4, <1>5 DEF RowsOK, TypeOK

LEMMA RowsInit == Init => RowsOK
<1> SUFFICES ASSUME Init PROVE RowsOK
    OBVIOUS
<1>1. DOMAIN tasks = {} /\ tasks \in [DOMAIN tasks -> Task]
  BY DEF Init
<1>2. /\ doc \in [Listings -> Docs \cup {None}] /\ embedded \in [Listings -> Docs \cup {None}]
      /\ owed \in [Listings -> Nat] /\ writes \in 0 .. MaxTasks
      /\ \A l \in Listings : embedded[l] = None
  BY BoundsAssumption DEF Init
<1>3. /\ pc \in [Workers -> Composed \cup {"idle", "read", "ack"}]
      /\ task \in [Workers -> Nat] /\ text \in [Workers -> Docs \cup {None}]
      /\ found \in [Workers -> {"none", "row", "deleted"}]
      /\ \A w \in Workers : pc[w] = "idle" /\ pc[w] \notin Composed
  BY DEF Init, Composed
<1> QED BY <1>1, <1>2, <1>3 DEF RowsOK, TypeOK

LEMMA RowsStep == RowsOK /\ [Next]_vars => RowsOK'
<1> SUFFICES ASSUME RowsOK, [Next]_vars PROVE RowsOK'
    OBVIOUS
<1> USE DEF worker
<1>1. ASSUME NEW l \in Listings, NEW d \in Docs, Write(l, d) PROVE RowsOK'
  <2>1. writes' \in 0 .. MaxTasks
    BY <1>1, BoundsAssumption DEF Write, RowsOK, TypeOK
  <2>2. /\ doc' \in [Listings -> Docs \cup {None}] /\ owed' \in [Listings -> Nat]
        /\ \A k \in Listings : embedded'[k] # None => doc'[k] # None
    BY <1>1, NoneAssumption DEF Write, RowsOK, TypeOK
  <2> QED BY <1>1, <2>1, <2>2 DEF Write, RowsOK, TypeOK
<1>2. ASSUME NEW l \in Listings, Enqueue(l) PROVE RowsOK'
  <2>1. owed' \in [Listings -> Nat]
    BY <1>2 DEF Enqueue, RowsOK, TypeOK
  <2>2. PICK t \in TaskIds \ DOMAIN tasks :
            tasks' = [u \in DOMAIN tasks \cup {t} |->
                IF u = t THEN [listing |-> l, state |-> "pending", retried |-> 0]
                ELSE tasks[u]]
    BY <1>2 DEF Enqueue
  <2>3. [listing |-> l, state |-> "pending", retried |-> 0] \in Task
    BY DEF Task
  <2>4. /\ DOMAIN tasks' = DOMAIN tasks \cup {t}
        /\ \A u \in DOMAIN tasks : tasks'[u] = tasks[u]
        /\ tasks' \in [DOMAIN tasks' -> Task]
    BY <2>2, <2>3 DEF RowsOK, TypeOK
  <2>5. UNCHANGED <<doc, embedded, writes, pc, task, text, found>>
    BY <1>2 DEF Enqueue
  <2>6. \A w \in Workers : pc'[w] # "idle" => /\ task'[w] \in DOMAIN tasks'
                                              /\ tasks'[task'[w]].state = "active"
    BY <2>4, <2>5 DEF RowsOK, TypeOK
  <2> QED BY <2>1, <2>4, <2>5, <2>6 DEF RowsOK, TypeOK
<1>3. ASSUME NEW l \in Listings, EnqueueFails(l) PROVE RowsOK'
  <2>1. owed' \in [Listings -> Nat]
    BY <1>3 DEF EnqueueFails, RowsOK, TypeOK
  <2> QED BY <1>3, <2>1 DEF EnqueueFails, RowsOK, TypeOK
<1>4. ASSUME NEW l \in Listings, Destroy(l) PROVE RowsOK'
  <2>1. /\ doc' \in [Listings -> Docs \cup {None}]
        /\ embedded' \in [Listings -> Docs \cup {None}]
        /\ \A k \in Listings : embedded'[k] # None => doc'[k] # None
    BY <1>4 DEF Destroy, RowsOK, TypeOK
  <2>2. found' \in [Workers -> {"none", "row", "deleted"}]
    BY <1>4 DEF Destroy, RowsOK, TypeOK
  <2> QED BY <1>4, <2>1, <2>2 DEF Destroy, RowsOK, TypeOK
<1>5. ASSUME NEW w \in Workers, NEW t \in TaskIds, Dequeue(w, t) PROVE RowsOK'
  <2> DEFINE new == [tasks[t] EXCEPT !.state = "active"]
  <2>1. t \in DOMAIN tasks /\ tasks[t] \in Task /\ tasks[t].state = "pending"
    BY <1>5 DEF Dequeue, RowsOK, TypeOK
  <2>2. new \in Task /\ new.state = "active"
    BY <2>1 DEF Task
  <2>3. tasks' = [tasks EXCEPT ![t] = new]
    BY <1>5 DEF Dequeue
  <2> HIDE DEF new
  <2>4. /\ DOMAIN tasks' = DOMAIN tasks /\ tasks' \in [DOMAIN tasks' -> Task]
        /\ tasks'[t].state = "active"
        /\ \A u \in DOMAIN tasks \ {t} : tasks'[u] = tasks[u]
    BY <2>1, <2>2, <2>3 DEF RowsOK, TypeOK
  <2>5. /\ pc[w] = "idle" /\ pc'[w] = "read" /\ task'[w] = t
        /\ \A v \in Workers \ {w} : pc'[v] = pc[v] /\ task'[v] = task[v]
        /\ pc' \in [Workers -> Composed \cup {"idle", "read", "ack"}]
        /\ task' \in [Workers -> Nat]
        /\ UNCHANGED <<doc, embedded, writes, owed, text, found>>
    BY <1>5 DEF Dequeue, RowsOK, TypeOK, TaskIds
  <2>6. \A v \in Workers \ {w} : pc[v] # "idle" => task[v] # t
    BY <2>1 DEF RowsOK, TypeOK
  <2>7. \A v \in Workers : /\ pc'[v] # "idle" => /\ task'[v] \in DOMAIN tasks'
                                                 /\ tasks'[task'[v]].state = "active"
                           /\ pc'[v] \in Composed => text'[v] # None
    BY <2>1, <2>4, <2>5, <2>6 DEF RowsOK, TypeOK, Composed
  <2>8. \A u, v \in Workers : u # v /\ pc'[u] # "idle" /\ pc'[v] # "idle" => task'[u] # task'[v]
    BY <2>5, <2>6 DEF RowsOK, TypeOK
  <2> QED BY <2>4, <2>5, <2>7, <2>8 DEF RowsOK, TypeOK
<1>6. ASSUME NEW w \in Workers, ReadListing(w) PROVE RowsOK'
  <2>1. pc[w] # "idle" /\ ListingOf(w) \in Listings
    BY <1>6, Running DEF ReadListing
  <2>2. CASE Complete(w)
    BY <1>6, <2>1, <2>2, Completed, RowsFinished DEF ReadListing
  <2>3. CASE ~Complete(w)
    <3>1. /\ pc' = [pc EXCEPT ![w] = "compare"]
          /\ text' = [text EXCEPT ![w] = doc[ListingOf(w)]] /\ doc[ListingOf(w)] # None
          /\ UNCHANGED <<doc, embedded, writes, owed, tasks, task, found>>
      BY <1>6, <2>3 DEF ReadListing
    <3>2. /\ text' \in [Workers -> Docs \cup {None}] /\ text'[w] # None
          /\ \A v \in Workers \ {w} : text'[v] = text[v]
      BY <2>1, <3>1 DEF RowsOK, TypeOK
    <3> QED BY <2>1, <3>1, <3>2, WorkerMoves DEF Composed, RowsOK, TypeOK
  <2> QED BY <2>2, <2>3
<1>7. ASSUME NEW w \in Workers, ReadRecord(w) PROVE RowsOK'
  <2>1. pc[w] # "idle" /\ pc[w] \in Composed
    BY <1>7 DEF ReadRecord, Composed
  <2>2. CASE Complete(w)
    BY <1>7, <2>1, <2>2, Completed, RowsFinished DEF ReadRecord
  <2>3. CASE ~Complete(w)
    <3>1. /\ pc' = [pc EXCEPT ![w] = "call"]
          /\ found' \in [Workers -> {"none", "row", "deleted"}]
          /\ UNCHANGED <<doc, embedded, writes, owed, tasks, task, text>>
      BY <1>7, <2>3 DEF ReadRecord, RowsOK, TypeOK
    <3> QED BY <2>1, <3>1, WorkerMoves DEF Composed, RowsOK, TypeOK
  <2> QED BY <2>2, <2>3
<1>8. ASSUME NEW w \in Workers, CallOllama(w) PROVE RowsOK'
  BY <1>8, WorkerMoves DEF CallOllama, Composed, RowsOK, TypeOK
<1>9. ASSUME NEW w \in Workers, Save(w) PROVE RowsOK'
  <2>1. pc[w] # "idle" /\ ListingOf(w) \in Listings
    BY <1>9, Running DEF Save
  <2>2. /\ embedded' \in [Listings -> Docs \cup {None}]
        /\ \A l \in Listings : embedded'[l] # None => doc[l] # None
    BY <1>9, <2>1 DEF Save, Accepts, RowsOK, TypeOK
  <2> QED BY <1>9, <2>1, <2>2, WorkerMoves DEF Save, Composed, RowsOK, TypeOK
<1>10. ASSUME NEW w \in Workers, Ack(w) PROVE RowsOK'
  BY <1>10, Completed, RowsFinished DEF Ack
<1>11. ASSUME NEW w \in Workers, SaveRefused(w) \/ JobFails(w) PROVE RowsOK'
  BY <1>11, Retried, RowsFinished DEF SaveRefused, JobFails
<1>12. ASSUME UNCHANGED vars PROVE RowsOK'
  BY <1>12 DEF vars, RowsOK, TypeOK
<1> QED
  BY <1>1, <1>2, <1>3, <1>4, <1>5, <1>6, <1>7, <1>8, <1>9, <1>10, <1>11, <1>12
  DEF Next, Work

\* Every row, task and local is of its type, no task is run by two workers, and
\* Destroy and the foreign key leave no embedding without its listing.
THEOREM TypeCorrect == Spec => []TypeOK
<1>1. RowsOK => TypeOK
  BY DEF RowsOK
<1> QED BY <1>1, RowsInit, RowsStep, PTL DEF Spec

-----------------------------------------------------------------------------
(***************************************************************************)
(* No listing is left with an old embedding.                               *)
(***************************************************************************)
StalenessInv == AloneUnlessRaced /\ OutdatedIsFollowed /\ NoSilentStaleness

\* A commit, a deletion or an enqueueing for l after which a run for l is coming,
\* or none is needed or owed.
LEMMA ServerStep ==
    ASSUME RowsOK, StalenessInv, NEW l \in Listings,
           UNCHANGED <<pc, task, text, raced>>, missed \subseteq missed',
           DOMAIN tasks \subseteq DOMAIN tasks', \A t \in DOMAIN tasks : tasks'[t] = tasks[t],
           \A k \in Listings \ {l} :
               doc'[k] = doc[k] /\ embedded'[k] = embedded[k] /\ owed'[k] = owed[k],
           l \in missed' \/ doc'[l] = None \/ Coming(l)'
    PROVE  StalenessInv'
<1>1. \A w \in Workers : pc[w] # "idle" => ListingOf(w)' = ListingOf(w)
  BY Running DEF ListingOf
<1>2. \A k \in Listings \ {l} : Coming(k) => Coming(k)'
  BY <1>1 DEF Coming
<1>3. \A w \in Workers : pc[w] \in Composed =>
          ListingOf(w)' = ListingOf(w) /\ ListingOf(w) \in Listings
  BY <1>1, Running DEF Composed
<1>4. AloneUnlessRaced'
  BY <1>3 DEF StalenessInv, AloneUnlessRaced
<1>5. OutdatedIsFollowed'
  BY <1>2, <1>3 DEF StalenessInv, OutdatedIsFollowed
<1>6. NoSilentStaleness'
  BY <1>2, <1>3 DEF StalenessInv, NoSilentStaleness, Fresh, Embedding
<1> QED BY <1>4, <1>5, <1>6 DEF StalenessInv

\* The end of a run: put back, given up and remembered, or with the embedding
\* current or saved.
LEMMA RunEnds ==
    ASSUME RowsOK, StalenessInv, NEW w \in Workers, pc[w] # "idle",
           NEW s \in {"pending", "done", "archived"}, NEW r \in Nat, Finish(w, s, r),
           UNCHANGED <<doc, embedded, owed, raced>>, missed \subseteq missed',
           \/ s = "pending"
           \/ ListingOf(w) \in missed'
           \/ pc[w] = "ack"
           \/ pc[w] = "read" /\ doc[ListingOf(w)] = None
           \/ pc[w] = "compare" /\ embedded[ListingOf(w)] = text[w]
    PROVE  StalenessInv'
<1>1. \A v \in Workers : pc'[v] # "idle" =>
          /\ v # w /\ pc[v] = pc'[v] /\ text'[v] = text[v] /\ task'[v] = task[v]
          /\ ListingOf(v)' = ListingOf(v) /\ ListingOf(v) \in Listings
  BY Finished, Running DEF ListingOf
<1>2. \A v \in Workers : pc'[v] \in Composed =>
          /\ v # w /\ pc[v] = pc'[v] /\ text'[v] = text[v]
          /\ ListingOf(v)' = ListingOf(v) /\ ListingOf(v) \in Listings
  BY <1>1 DEF Composed
<1>3. ASSUME NEW k \in Listings, s = "pending", ListingOf(w) = k PROVE Coming(k)'
  <2>1. task[w] \in DOMAIN tasks' /\ tasks'[task[w]].state = "pending"
        /\ tasks'[task[w]].listing = k
    BY <1>3, Running, Finished DEF ListingOf
  <2> QED BY <2>1 DEF Coming
<1>4. ASSUME NEW k \in Listings, Coming(k), ~(pc[w] = "read" /\ ListingOf(w) = k)
      PROVE  Coming(k)'
  <2>1. CASE owed[k] > 0
    BY <2>1 DEF Coming
  <2>2. ASSUME NEW t \in DOMAIN tasks, tasks[t].listing = k, tasks[t].state = "pending"
        PROVE  Coming(k)'
    <3>1. t # task[w]
      BY <2>2, Running
    <3> QED BY <2>2, <3>1, Finished DEF Coming
  <2>3. ASSUME NEW v \in Workers, pc[v] = "read", ListingOf(v) = k PROVE Coming(k)'
    <3>1. v # w
      BY <1>4, <2>3
    <3>2. pc'[v] = "read"
      BY <2>3, <3>1, Finished
    <3> QED BY <1>1, <2>3, <3>2 DEF Coming
  <2> QED BY <1>4, <2>1, <2>2, <2>3 DEF Coming
<1>5. AloneUnlessRaced'
  BY <1>2 DEF StalenessInv, AloneUnlessRaced
<1>6. ASSUME NEW k \in Listings, k \notin missed', Coming(k), doc[k] # None PROVE Coming(k)'
  <2>1. CASE pc[w] = "read" /\ ListingOf(w) = k
    BY <1>3, <1>6, <2>1
  <2> QED BY <1>4, <1>6, <2>1
<1>7. OutdatedIsFollowed'
  BY <1>2, <1>6 DEF StalenessInv, OutdatedIsFollowed
<1>8. ASSUME NEW k \in Listings, k \notin missed', k \notin raced
      PROVE  (Fresh(k) \/ Coming(k) \/ Embedding(k))'
  <2>1. Fresh(k) => Fresh(k)'
    BY DEF Fresh
  <2>2. CASE doc[k] = None
    BY <2>1, <2>2 DEF Fresh
  <2>3. CASE doc[k] # None /\ Coming(k)
    BY <1>6, <1>8, <2>3
  <2>4. ASSUME NEW v \in Workers, pc[v] \in Composed, ListingOf(v) = k, text[v] = doc[k]
        PROVE  (Fresh(k) \/ Coming(k) \/ Embedding(k))'
    <3>1. CASE v # w
      <4>1. pc'[v] = pc[v] /\ text'[v] = text[v]
        BY <3>1, Finished
      <4> QED BY <1>2, <2>4, <4>1 DEF Embedding
    <3>2. CASE v = w
      BY <1>3, <1>8, <2>1, <2>4, <3>2 DEF Fresh, Composed
    <3> QED BY <3>1, <3>2
  <2> QED BY <1>8, <2>1, <2>2, <2>3, <2>4 DEF StalenessInv, NoSilentStaleness, Embedding
<1>9. NoSilentStaleness'
  BY <1>8 DEF NoSilentStaleness
<1> QED BY <1>5, <1>7, <1>9 DEF StalenessInv

LEMMA StalenessInit == Init => StalenessInv
BY DEF Init, StalenessInv, AloneUnlessRaced, OutdatedIsFollowed, NoSilentStaleness, Fresh,
       Composed

LEMMA StalenessStep == RowsOK /\ StalenessInv /\ [Next]_vars => StalenessInv'
<1> SUFFICES ASSUME RowsOK, StalenessInv, [Next]_vars PROVE StalenessInv'
    OBVIOUS
<1> USE DEF worker
<1>1. ASSUME NEW l \in Listings, NEW d \in Docs, Write(l, d) PROVE StalenessInv'
  <2>1. /\ UNCHANGED <<embedded, tasks, pc, task, text, missed, raced>>
        /\ owed'[l] > 0
        /\ \A k \in Listings \ {l} : doc'[k] = doc[k] /\ owed'[k] = owed[k]
    BY <1>1 DEF Write, RowsOK, TypeOK
  <2>2. Coming(l)'
    BY <2>1 DEF Coming
  <2> QED BY <2>1, <2>2, ServerStep
<1>2. ASSUME NEW l \in Listings, Enqueue(l) PROVE StalenessInv'
  <2>1. PICK t \in TaskIds \ DOMAIN tasks :
            tasks' = [u \in DOMAIN tasks \cup {t} |->
                IF u = t THEN [listing |-> l, state |-> "pending", retried |-> 0]
                ELSE tasks[u]]
    BY <1>2 DEF Enqueue
  <2>2. /\ DOMAIN tasks' = DOMAIN tasks \cup {t}
        /\ \A u \in DOMAIN tasks : tasks'[u] = tasks[u]
        /\ tasks'[t].listing = l /\ tasks'[t].state = "pending"
    BY <2>1
  <2>3. Coming(l)'
    BY <2>2 DEF Coming
  <2>4. /\ UNCHANGED <<doc, embedded, pc, task, text, missed, raced>>
        /\ \A k \in Listings \ {l} : owed'[k] = owed[k]
    BY <1>2 DEF Enqueue, RowsOK, TypeOK
  <2> QED BY <2>2, <2>3, <2>4, ServerStep
<1>3. ASSUME NEW l \in Listings, EnqueueFails(l) PROVE StalenessInv'
  <2>1. /\ UNCHANGED <<doc, embedded, tasks, pc, task, text, raced>>
        /\ missed \subseteq missed' /\ l \in missed'
        /\ \A k \in Listings \ {l} : owed'[k] = owed[k]
    BY <1>3 DEF EnqueueFails, RowsOK, TypeOK
  <2> QED BY <2>1, ServerStep
<1>4. ASSUME NEW l \in Listings, Destroy(l) PROVE StalenessInv'
  <2>1. /\ UNCHANGED <<owed, tasks, pc, task, text, missed, raced>>
        /\ doc'[l] = None
        /\ \A k \in Listings \ {l} : doc'[k] = doc[k] /\ embedded'[k] = embedded[k]
    BY <1>4 DEF Destroy, RowsOK, TypeOK
  <2> QED BY <2>1, ServerStep
<1>5. ASSUME NEW w \in Workers, NEW t \in TaskIds, Dequeue(w, t) PROVE StalenessInv'
  <2>1. /\ t \in DOMAIN tasks /\ tasks[t] \in Task /\ tasks[t].state = "pending"
        /\ pc[w] = "idle" /\ pc' = [pc EXCEPT ![w] = "read"]
        /\ task' = [task EXCEPT ![w] = t]
        /\ UNCHANGED <<doc, embedded, owed, text, missed, raced>>
    BY <1>5 DEF Dequeue, RowsOK, TypeOK
  <2>2. /\ DOMAIN tasks' = DOMAIN tasks
        /\ \A u \in DOMAIN tasks \ {t} : tasks'[u] = tasks[u]
        /\ tasks'[t].listing = tasks[t].listing
    BY <1>5, <2>1 DEF Dequeue, Task, RowsOK, TypeOK
  <2>3. /\ pc'[w] = "read" /\ task'[w] = t
        /\ \A v \in Workers \ {w} : pc'[v] = pc[v] /\ task'[v] = task[v]
    BY <2>1 DEF RowsOK, TypeOK
  <2>4. \A v \in Workers : pc[v] # "idle" =>
            v # w /\ ListingOf(v)' = ListingOf(v) /\ ListingOf(v) \in Listings
    BY <2>1, <2>2, <2>3, Running DEF ListingOf
  <2>5. \A v \in Workers : pc'[v] \in Composed =>
            /\ v # w /\ pc'[v] = pc[v] /\ text'[v] = text[v]
            /\ ListingOf(v)' = ListingOf(v) /\ ListingOf(v) \in Listings
    BY <2>1, <2>3, <2>4 DEF Composed
  <2>6. \A v \in Workers : pc[v] \in Composed => pc'[v] \in Composed
    BY <2>1, <2>3 DEF Composed
  <2>7. ListingOf(w)' = tasks[t].listing
    BY <2>2, <2>3 DEF ListingOf
  <2>8. ASSUME NEW k \in Listings, Coming(k) PROVE Coming(k)'
    <3>1. CASE owed[k] > 0
      BY <2>1, <3>1 DEF Coming
    <3>2. ASSUME NEW u \in DOMAIN tasks, tasks[u].listing = k, tasks[u].state = "pending"
          PROVE  Coming(k)'
      BY <2>2, <2>3, <2>7, <3>2 DEF Coming
    <3>3. ASSUME NEW v \in Workers, pc[v] = "read", ListingOf(v) = k PROVE Coming(k)'
      BY <2>3, <2>4, <3>3 DEF Coming
    <3> QED BY <2>8, <3>1, <3>2, <3>3 DEF Coming
  <2>9. AloneUnlessRaced'
    BY <2>1, <2>5 DEF StalenessInv, AloneUnlessRaced
  <2>10. OutdatedIsFollowed'
    BY <2>1, <2>5, <2>8 DEF StalenessInv, OutdatedIsFollowed
  <2>11. NoSilentStaleness'
    BY <2>1, <2>5, <2>6, <2>8 DEF StalenessInv, NoSilentStaleness, Fresh, Embedding
  <2> QED BY <2>9, <2>10, <2>11 DEF StalenessInv
<1>6. ASSUME NEW w \in Workers, ReadListing(w) PROVE StalenessInv'
  <2>1. pc[w] = "read" /\ ListingOf(w) \in Listings
    BY <1>6, Running DEF ReadListing
  <2>2. CASE doc[ListingOf(w)] = None
    BY <1>6, <2>1, <2>2, Completed, RunEnds DEF ReadListing
  <2>3. CASE doc[ListingOf(w)] # None
    <3>1. /\ pc' = [pc EXCEPT ![w] = "compare"]
          /\ text' = [text EXCEPT ![w] = doc[ListingOf(w)]]
          /\ raced \subseteq raced'
          /\ (\E v \in Workers : pc[v] \in Composed /\ ListingOf(v) = ListingOf(w))
                => ListingOf(w) \in raced'
          /\ UNCHANGED <<doc, embedded, owed, tasks, task, missed>>
      BY <1>6, <2>3 DEF ReadListing
    <3>2. /\ pc'[w] = "compare" /\ text'[w] = doc[ListingOf(w)]
          /\ \A v \in Workers \ {w} : pc'[v] = pc[v] /\ text'[v] = text[v]
      BY <3>1 DEF RowsOK, TypeOK
    <3>3. \A v \in Workers : ListingOf(v)' = ListingOf(v)
      BY <3>1 DEF ListingOf
    <3>4. \A v \in Workers : pc[v] \in Composed => v # w /\ ListingOf(v) \in Listings
      BY <2>1, Running DEF Composed
    <3>5. \A v \in Workers \ {w} : pc'[v] \in Composed =>
              pc[v] \in Composed /\ ListingOf(v) \in Listings
      BY <3>2, <3>4
    <3>6. ASSUME NEW k \in Listings, k # ListingOf(w), Coming(k) PROVE Coming(k)'
      BY <3>1, <3>2, <3>3, <3>6 DEF Coming
    <3>7. AloneUnlessRaced'
      BY <3>1, <3>3, <3>5 DEF StalenessInv, AloneUnlessRaced
    <3>8. ASSUME NEW v \in Workers, NEW k \in Listings, pc'[v] \in Composed, ListingOf(v) = k,
                 k \notin missed' \cup raced', doc'[k] \notin {None, text'[v]}
          PROVE  Coming(k)'
      <4>1. v # w /\ pc[v] \in Composed
        BY <3>1, <3>2, <3>5, <3>8
      <4>2. k # ListingOf(w)
        BY <3>1, <3>8, <4>1
      <4>3. Coming(k)
        BY <3>1, <3>2, <3>8, <4>1 DEF StalenessInv, OutdatedIsFollowed
      <4> QED BY <3>6, <4>2, <4>3
    <3>9. OutdatedIsFollowed'
      BY <2>1, <3>3, <3>5, <3>8 DEF OutdatedIsFollowed
    <3>10. ASSUME NEW k \in Listings, k \notin missed', k \notin raced'
           PROVE  (Fresh(k) \/ Coming(k) \/ Embedding(k))'
      <4>1. CASE k = ListingOf(w)
        BY <3>1, <3>2, <3>3, <4>1 DEF Embedding, Composed
      <4>2. CASE k # ListingOf(w)
        <5>1. Fresh(k) => Fresh(k)'
          BY <3>1 DEF Fresh
        <5>2. Embedding(k) => Embedding(k)'
          BY <3>1, <3>2, <3>3, <3>4 DEF Embedding
        <5> QED BY <3>1, <3>6, <3>10, <4>2, <5>1, <5>2 DEF StalenessInv, NoSilentStaleness
      <4> QED BY <4>1, <4>2
    <3>11. NoSilentStaleness'
      BY <3>10 DEF NoSilentStaleness
    <3> QED BY <3>7, <3>9, <3>11 DEF StalenessInv
  <2> QED BY <2>2, <2>3
<1>7. ASSUME NEW w \in Workers, pc[w] \in Composed, NEW step \in Composed,
             pc' = [pc EXCEPT ![w] = step],
             UNCHANGED <<doc, embedded, owed, tasks, task, text, missed, raced>>
      PROVE  StalenessInv'
  <2>1. \A v \in Workers : (pc'[v] \in Composed <=> pc[v] \in Composed)
                           /\ (pc'[v] = "read" <=> pc[v] = "read")
    BY <1>7 DEF RowsOK, TypeOK, Composed
  <2>2. \A v \in Workers : ListingOf(v)' = ListingOf(v)
    BY <1>7 DEF ListingOf
  <2>3. \A v \in Workers : pc[v] \in Composed => ListingOf(v) \in Listings
    BY Running DEF Composed
  <2>4. \A k \in Listings : Coming(k)' <=> Coming(k)
    BY <1>7, <2>1, <2>2 DEF Coming
  <2>5. AloneUnlessRaced'
    BY <1>7, <2>1, <2>2 DEF StalenessInv, AloneUnlessRaced
  <2>6. OutdatedIsFollowed'
    BY <1>7, <2>1, <2>2, <2>3, <2>4 DEF StalenessInv, OutdatedIsFollowed
  <2>7. NoSilentStaleness'
    BY <1>7, <2>1, <2>2, <2>4 DEF StalenessInv, NoSilentStaleness, Fresh, Embedding
  <2> QED BY <2>5, <2>6, <2>7 DEF StalenessInv
<1>8. ASSUME NEW w \in Workers, ReadRecord(w) PROVE StalenessInv'
  <2>1. pc[w] = "compare" /\ pc[w] # "idle"
    BY <1>8 DEF ReadRecord
  <2>2. CASE embedded[ListingOf(w)] = text[w]
    BY <1>8, <2>1, <2>2, Completed, RunEnds DEF ReadRecord
  <2>3. CASE embedded[ListingOf(w)] # text[w]
    BY <1>7, <1>8, <2>1, <2>3 DEF ReadRecord, Composed
  <2> QED BY <2>2, <2>3
<1>9. ASSUME NEW w \in Workers, CallOllama(w) PROVE StalenessInv'
  BY <1>7, <1>9 DEF CallOllama, Composed
<1>10. ASSUME NEW w \in Workers, Save(w) PROVE StalenessInv'
  <2> DEFINE l == ListingOf(w)
  <2>1. pc[w] \in Composed /\ l \in Listings
    BY <1>10, Running DEF Save, Composed
  <2>2. /\ pc'[w] = "ack"
        /\ \A v \in Workers \ {w} : pc'[v] = pc[v]
        /\ embedded'[l] = text[w]
        /\ \A k \in Listings \ {l} : embedded'[k] = embedded[k]
        /\ UNCHANGED <<doc, owed, tasks, task, text, missed, raced>>
    BY <1>10, <2>1 DEF Save, RowsOK, TypeOK
  <2>3. \A v \in Workers : ListingOf(v)' = ListingOf(v)
    BY <2>2 DEF ListingOf
  <2>4. \A v \in Workers : pc[v] \in Composed => ListingOf(v) \in Listings
    BY Running DEF Composed
  <2>5. \A v \in Workers : pc'[v] \in Composed => v # w /\ pc'[v] = pc[v]
    BY <2>2 DEF Composed
  <2>6. \A k \in Listings : Coming(k) => Coming(k)'
    BY <2>1, <2>2, <2>3 DEF Coming, Composed
  <2>7. AloneUnlessRaced'
    BY <2>2, <2>3, <2>5 DEF StalenessInv, AloneUnlessRaced
  <2>8. OutdatedIsFollowed'
    BY <2>2, <2>3, <2>4, <2>5, <2>6 DEF StalenessInv, OutdatedIsFollowed
  <2>9. ASSUME NEW k \in Listings, k \notin missed \cup raced
        PROVE  (Fresh(k) \/ Coming(k) \/ Embedding(k))'
    <3>1. CASE k = l
      <4>1. CASE doc[k] \in {None, text[w]}
        BY <2>2, <3>1, <4>1 DEF Fresh
      <4>2. CASE doc[k] \notin {None, text[w]}
        <5>1. Coming(k)
          BY <2>1, <2>9, <3>1, <4>2 DEF StalenessInv, OutdatedIsFollowed
        <5> QED BY <2>6, <5>1
      <4> QED BY <4>1, <4>2
    <3>2. CASE k # l
      <4>1. Fresh(k) => Fresh(k)'
        BY <2>2, <3>2 DEF Fresh
      <4>2. Embedding(k) => Embedding(k)'
        BY <2>2, <2>3, <3>2 DEF Embedding
      <4> QED BY <2>6, <2>9, <4>1, <4>2 DEF StalenessInv, NoSilentStaleness
    <3> QED BY <3>1, <3>2
  <2>10. NoSilentStaleness'
    BY <2>2, <2>9 DEF NoSilentStaleness
  <2> QED BY <2>7, <2>8, <2>10 DEF StalenessInv
<1>11. ASSUME NEW w \in Workers, Ack(w) PROVE StalenessInv'
  BY <1>11, Completed, RunEnds DEF Ack
<1>12. ASSUME NEW w \in Workers, SaveRefused(w) \/ JobFails(w) PROVE StalenessInv'
  <2>1. pc[w] # "idle" /\ Retry(w) /\ UNCHANGED <<doc, embedded, owed, raced>>
    BY <1>12 DEF SaveRefused, JobFails
  <2> QED BY <2>1, Retried, RunEnds
<1>13. ASSUME UNCHANGED vars PROVE StalenessInv'
  BY <1>13 DEF vars, StalenessInv, AloneUnlessRaced, OutdatedIsFollowed, NoSilentStaleness,
               Fresh, Coming, Embedding, ListingOf
<1> QED
  BY <1>1, <1>2, <1>3, <1>4, <1>5, <1>6, <1>8, <1>9, <1>10, <1>11, <1>12, <1>13
  DEF Next, Work

\* A listing with an older text's embedding is never left alone: unless a task was
\* missed or two runs overlapped, a run that reads the text is coming or one that
\* has read it is under way.  EmbedListing reads the text before it saves, and
\* asynq runs a failed task again.
THEOREM StalenessIsRepaired == Spec => []NoSilentStaleness
<1>1. StalenessInv => NoSilentStaleness
  BY DEF StalenessInv
<1> QED BY <1>1, RowsInit, RowsStep, StalenessInit, StalenessStep, PTL DEF Spec

\* No two workers run EmbedListing for l at once, from its read of the listing to its
\* save.
RunsAlone(l) == \A v, w \in Workers :
    /\ pc[v] \in Composed /\ ListingOf(v) = l
    /\ pc[w] \in Composed /\ ListingOf(w) = l
    => v = w

\* Only a listing whose runs overlap is raced.
LEMMA RacedByTwo ==
    ASSUME TypeOK, NEW l \in Listings, l \notin raced, RunsAlone(l)', [Next]_vars
    PROVE  l \notin raced'
<1>1. ASSUME NEW w \in Workers, ReadListing(w), l \in raced' PROVE FALSE
  <2>1. PICK v \in Workers : pc[v] \in Composed /\ ListingOf(v) = l
    BY <1>1 DEF ReadListing
  <2>2. /\ ListingOf(w) = l /\ pc[w] = "read" /\ pc' = [pc EXCEPT ![w] = "compare"]
        /\ UNCHANGED <<tasks, task>>
    BY <1>1 DEF ReadListing
  <2>3. v # w /\ pc'[v] = pc[v] /\ pc'[w] = "compare"
    BY <2>1, <2>2 DEF Composed, TypeOK
  <2>4. ListingOf(v)' = l /\ ListingOf(w)' = l
    BY <2>1, <2>2 DEF ListingOf
  <2> QED BY <2>1, <2>3, <2>4 DEF RunsAlone, Composed
<1>2. ASSUME NEW w \in Workers, Work(w), ~ReadListing(w) PROVE raced' = raced
  BY <1>2 DEF Work, Dequeue, ReadRecord, CallOllama, Save, SaveRefused, Ack
<1>3. ASSUME NEW w \in Workers, JobFails(w) PROVE raced' = raced
  BY <1>3 DEF JobFails
<1>4. ASSUME NEW k \in Listings,
             (\E d \in Docs : Write(k, d)) \/ Enqueue(k) \/ EnqueueFails(k) \/ Destroy(k)
      PROVE  raced' = raced
  BY <1>4 DEF Write, Enqueue, EnqueueFails, Destroy
<1>5. ASSUME UNCHANGED vars PROVE raced' = raced
  BY <1>5 DEF vars
<1> QED BY <1>1, <1>2, <1>3, <1>4, <1>5 DEF Next

\* On any number of workers (cmd/worker leaves asynq's Concurrency at its default, the
\* number of processors), a listing whose own runs never overlap keeps what
\* EmbedListing's comment says, "a changed document must re-embed": while its embedding
\* is of an older text, a run that will read the text is coming or one that has read it
\* is under way.  Runs for other listings, retries, failures, and writes and Destroy
\* while a run is under way do not break it.
THEOREM RunsAloneReembed ==
    ASSUME NEW l \in Listings
    PROVE  Spec /\ []RunsAlone(l) =>
               [](l \notin missed => Fresh(l) \/ Coming(l) \/ Embedding(l))
<1>1. Init => l \notin raced
  BY DEF Init
<1>2. RowsOK /\ l \notin raced /\ RunsAlone(l)' /\ [Next]_vars => (l \notin raced)'
  BY RacedByTwo DEF RowsOK
<1>3. StalenessInv /\ l \notin raced =>
          (l \notin missed => Fresh(l) \/ Coming(l) \/ Embedding(l))
  BY DEF StalenessInv, NoSilentStaleness
<1> QED BY <1>1, <1>2, <1>3, RowsInit, RowsStep, StalenessInit, StalenessStep, PTL DEF Spec

=============================================================================
