-------------------------- MODULE KnowledgeSources --------------------------
(***************************************************************************)
(* The knowledge sources of the assistants and the ingestion jobs of their *)
(* documents, as the request threads of the admin API and of               *)
(* POST /ingestion/jobs change them while workers run the jobs.            *)
(*                                                                         *)
(* A source owns exactly one document, created and deleted with it, so the *)
(* document is named by its source. A statement that takes a row or an     *)
(* advisory lock, and what a transaction does without giving others the    *)
(* chance to interfere, is one step; every read that a later step relies   *)
(* on without a lock is a step of its own.                                 *)
(***************************************************************************)
EXTENDS Naturals, FiniteSets

CONSTANTS
    Sources,      \* identities uuid4 hands out to sources
    Jobs,         \* identities uuid4 hands out to jobs
    Assistants,
    Threads,      \* request threads
    Keys,         \* Idempotency-Key values
    CreationKeys, \* what requests of each kind carry as their key
    ReingestKeys,
    PostKeys,
    Bodies,       \* creation requests: [url, name]
    Urls,         \* normalized URLs
    NoUrl,        \* the url of a direct-text request
    NoKey,        \* no Idempotency-Key header
    NoJob,        \* no active job was found
    None,         \* an identity that is not in use yet
    Gone          \* a deleted row; uuid4 does not hand its identity out again

Free == "free"    \* a lock nobody holds
Idle == [at |-> "idle"]
States == {"enabled", "disabled"}
Statuses == {"queued", "running", "completed", "failed"}
KeyOrNone == Keys \union {NoKey}

SourceRows == [assistant : Assistants, body : Bodies, key : KeyOrNone, state : States]
JobRows == [source : Sources, status : Statuses, key : KeyOrNone, origin : {"source", "post"}]
Receipts == [assistant : Assistants, key : Keys, source : Sources, job : Jobs]

ASSUME SourcesAssumption ==
    /\ Bodies \subseteq [url : Urls \union {NoUrl}, name : STRING]
    /\ CreationKeys \union ReingestKeys \union PostKeys \subseteq KeyOrNone
    /\ NoUrl \notin Urls
    /\ NoKey \notin Keys
    /\ NoJob \notin Jobs
    /\ None # Gone
    /\ {None, Gone} \intersect (SourceRows \union JobRows \union States) = {}
    /\ Free \notin Threads

VARIABLES
    sources,      \* the knowledge_sources rows
    documents,    \* the retrieval_state of each source's documents row
    jobs,         \* the document_ingestion_jobs rows
    receipts,     \* knowledge_source_reingestion_requests
    results,      \* jobs with a row in ingestion_persistence_results
    thread,       \* what each request thread is doing
    rowLock,      \* who holds the lock of a knowledge_sources row
    keyLock,      \* who holds the advisory lock of an assistant's key
    answers       \* history: what keyed requests were answered, of rows that still exist

tables == <<sources, documents, jobs, receipts, results>>
requestVars == <<thread, rowLock, keyLock, answers>>
sourcesVars == <<tables, requestVars>>

Live(s) == sources[s] \notin {None, Gone}
Exists(j) == jobs[j] \notin {None, Gone}
IsActive(j) == Exists(j) /\ jobs[j].status \in {"queued", "running"}
ActiveJobs(s) == {j \in Jobs : IsActive(j) /\ jobs[j].source = s}

\* At the start at most one source exists, created long ago without a key: the
\* retention of terminal jobs has removed its jobs.
EarlierRow(a, b) == [assistant |-> a, body |-> b, key |-> NoKey, state |-> "enabled"]
EarlierRows == {[s \in Sources |-> IF s = x THEN EarlierRow(a, b) ELSE None] :
                    x \in Sources, a \in Assistants, b \in Bodies}

Init ==
    /\ sources \in {[s \in Sources |-> None]} \union EarlierRows
    /\ documents = [s \in Sources |-> IF sources[s] = None THEN None ELSE sources[s].state]
    /\ jobs = [j \in Jobs |-> None]
    /\ receipts = {}
    /\ results = {}
    /\ thread = [t \in Threads |-> Idle]
    /\ rowLock = [s \in Sources |-> Free]
    /\ keyLock = [k \in Assistants \X Keys |-> Free]
    /\ answers = {}

-----------------------------------------------------------------------------
\* Thread t ends its request; what it locked is released with its transaction.
Return(t) ==
    /\ thread' = [thread EXCEPT ![t] = Idle]
    /\ rowLock' = [s \in Sources |-> IF rowLock[s] = t THEN Free ELSE rowLock[s]]
    /\ keyLock' = [k \in Assistants \X Keys |-> IF keyLock[k] = t THEN Free ELSE keyLock[k]]

\* The response names a source or a job. Only keyed requests promise anything.
Answer(t, op, scope, key, request, named) ==
    /\ Return(t)
    /\ answers' = IF key = NoKey THEN answers
                  ELSE answers \union {[op |-> op, scope |-> scope, key |-> key,
                                        request |-> request, named |-> named]}

\* A 404, 409 or 500: nothing is written and nothing is promised.
Reject(t) == Return(t) /\ UNCHANGED answers

Continue(t, state) == thread' = [thread EXCEPT ![t] = state] /\ UNCHANGED answers

NewJob(s, key, origin) == [source |-> s, status |-> "queued", key |-> key, origin |-> origin]

-----------------------------------------------------------------------------
(* POST /admin/assistants/{id}/knowledge-sources *)

FindCreation(a, k) == {s \in Sources : Live(s) /\ sources[s].assistant = a /\ sources[s].key = k}
FindByUrl(a, u) == {s \in Sources : Live(s) /\ sources[s].assistant = a /\ sources[s].body.url = u}

\* find_creation, when the request has a key: a replay, a conflict, or go on.
RequestCreation(t, a, k, body) ==
    LET previous == IF k = NoKey THEN {} ELSE FindCreation(a, k) IN
    /\ thread[t] = Idle
    /\ \/ /\ previous = {}
          /\ Continue(t, [at |-> "create", assistant |-> a, key |-> k, body |-> body])
          /\ UNCHANGED <<rowLock, keyLock>>
       \/ \E s \in previous :
            IF sources[s].body = body THEN Answer(t, "create", a, k, body, s) ELSE Reject(t)
    /\ UNCHANGED tables

\* Bug: the index on the creation key is missing.
UniqueViolationOfUrl(a, k, body) == body.url # NoUrl /\ FindByUrl(a, body.url) # {}

\* The unique indexes (assistant, url) and (assistant, creation key).
UniqueViolation(a, k, body) ==
    \/ k # NoKey /\ FindCreation(a, k) # {}
    \/ body.url # NoUrl /\ FindByUrl(a, body.url) # {}

\* One transaction inserts the pending document, the source and its first job.
InsertSource(t) ==
    LET r == thread[t] IN
    /\ r.at = "create"
    /\ IF UniqueViolation(r.assistant, r.key, r.body)
       THEN /\ Continue(t, [r EXCEPT !.at = "lost"])
            /\ UNCHANGED <<tables, rowLock, keyLock>>
       ELSE \E s \in Sources, j \in Jobs :
            /\ sources[s] = None /\ jobs[j] = None
            /\ sources' = [sources EXCEPT ![s] = [assistant |-> r.assistant, body |-> r.body,
                                                  key |-> r.key, state |-> "enabled"]]
            /\ documents' = [documents EXCEPT ![s] = "enabled"]
            /\ jobs' = [jobs EXCEPT ![j] = NewJob(s, NoKey, "source")]
            /\ Answer(t, "create", r.assistant, r.key, r.body, s)
            /\ UNCHANGED <<receipts, results>>

\* The creation lost to another one: perhaps to its own retry, under its key.
ResolveByKey(t) ==
    LET r == thread[t]
        previous == IF r.key = NoKey THEN {}
                    ELSE {s \in FindCreation(r.assistant, r.key) : sources[s].body = r.body}
    IN
    /\ r.at = "lost"
    /\ \/ \E s \in previous : Answer(t, "create", r.assistant, r.key, r.body, s)
       \/ /\ previous = {} /\ r.body.url # NoUrl
          /\ Continue(t, [r EXCEPT !.at = "by_url"])
          /\ UNCHANGED <<rowLock, keyLock>>
       \/ previous = {} /\ r.body.url = NoUrl /\ Reject(t)
    /\ UNCHANGED tables

\* ... or to the source that has its URL, which is returned as reused.
ResolveByUrl(t) ==
    LET r == thread[t]
        winner == FindByUrl(r.assistant, r.body.url)
    IN
    /\ r.at = "by_url"
    /\ \/ \E s \in winner : Answer(t, "create", r.assistant, r.key, r.body, s)
       \/ winner = {} /\ Reject(t)
    /\ UNCHANGED tables

-----------------------------------------------------------------------------
(* PATCH: both rows in one transaction, serialised by the source's row lock *)

UpdateRetrievalState(s, state) ==
    /\ Live(s) /\ rowLock[s] = Free
    /\ sources' = [sources EXCEPT ![s].state = state]
    /\ documents' = [documents EXCEPT ![s] = state]
    /\ UNCHANGED <<jobs, receipts, results, requestVars>>

-----------------------------------------------------------------------------
(* POST .../{source_id}/reingestions *)

RequestReingestion(t, s, k) ==
    /\ thread[t] = Idle /\ Live(s)
    /\ Continue(t, [at |-> "reingest", source |-> s, key |-> k,
                    assistant |-> sources[s].assistant])
    /\ UNCHANGED <<tables, rowLock, keyLock>>

\* Bug: the SELECT of re-ingestion and deletion has no FOR UPDATE.
MayLockAnyway(s) == TRUE

MayLock(s) == rowLock[s] = Free

\* SELECT ... FOR UPDATE of the source; it may have been deleted since it was read.
LockSource(t) ==
    LET r == thread[t] IN
    /\ r.at = "reingest" /\ MayLock(r.source)
    /\ IF ~Live(r.source) THEN Reject(t)
       ELSE /\ Continue(t, [r EXCEPT !.at = "receipt"])
            /\ rowLock' = [rowLock EXCEPT ![r.source] = t]
            /\ UNCHANGED keyLock
    /\ UNCHANGED tables

ReceiptsOf(a, k) == {x \in receipts : x.assistant = a /\ x.key = k}

\* Under the key's advisory lock: a stored receipt decides; else look for an
\* active job of the document.
CheckReceipt(t) ==
    LET r == thread[t]
        stored == IF r.key = NoKey THEN {} ELSE ReceiptsOf(r.assistant, r.key)
        found == ActiveJobs(r.source)
    IN
    /\ r.at = "receipt"
    /\ r.key # NoKey => keyLock[<<r.assistant, r.key>>] = Free
    /\ \/ \E x \in stored :
            IF x.source # r.source THEN Reject(t)
            ELSE Answer(t, "reingest", r.assistant, r.key, r.source, x.job)
       \/ /\ stored = {}
          /\ \E j \in IF found = {} THEN {NoJob} ELSE found :
               Continue(t, [at |-> "select", source |-> r.source, key |-> r.key,
                            assistant |-> r.assistant, job |-> j])
          /\ keyLock' = IF r.key = NoKey THEN keyLock
                        ELSE [keyLock EXCEPT ![<<r.assistant, r.key>>] = t]
          /\ UNCHANGED rowLock
    /\ UNCHANGED tables

\* Queue a new job unless one was found active, record the receipt, commit. (The
\* foreign keys would refuse a deleted source; the row lock keeps it.)
QueueReingestion(t) ==
    LET r == thread[t] IN
    /\ r.at = "select" /\ Live(r.source)
    /\ \E j \in IF r.job = NoJob THEN {x \in Jobs : jobs[x] = None} ELSE {r.job} :
         /\ jobs' = IF r.job = NoJob
                    THEN [jobs EXCEPT ![j] = NewJob(r.source, NoKey, "source")]
                    ELSE jobs
         /\ receipts' = IF r.key = NoKey THEN receipts
                        ELSE receipts \union {[assistant |-> r.assistant, key |-> r.key,
                                               source |-> r.source, job |-> j]}
         /\ Answer(t, "reingest", r.assistant, r.key, r.source, j)
    /\ UNCHANGED <<sources, documents, results>>

-----------------------------------------------------------------------------
(* DELETE .../{source_id} *)

\* Under the source's row lock: refuse while a job of its document is active.
CheckDeletion(t, s) ==
    /\ thread[t] = Idle /\ Live(s) /\ MayLock(s)
    /\ ActiveJobs(s) = {}
    /\ Continue(t, [at |-> "delete", source |-> s])
    /\ rowLock' = [rowLock EXCEPT ![s] = t]
    /\ UNCHANGED <<tables, keyLock>>

JobsOf(s) == {j \in Jobs : Exists(j) /\ jobs[j].source = s}

\* A persistence result of the document forbids its deletion (ON DELETE RESTRICT).
Restricted(s) == JobsOf(s) \intersect results # {}

\* DELETE FROM documents takes the source, its jobs and receipts along (ON
\* DELETE CASCADE), or fails with an error that nobody handles.
DeleteDocument(t) ==
    LET s == thread[t].source IN
    /\ thread[t].at = "delete"
    /\ IF Restricted(s)
       THEN Reject(t) /\ UNCHANGED tables
       ELSE /\ sources' = [sources EXCEPT ![s] = Gone]
            /\ documents' = [documents EXCEPT ![s] = Gone]
            /\ jobs' = [j \in Jobs |-> IF j \in JobsOf(s) THEN Gone ELSE jobs[j]]
            /\ receipts' = {x \in receipts : x.source # s}
            /\ Return(t)
            /\ answers' = {x \in answers : x.named \notin JobsOf(s) \union {s}}
            /\ UNCHANGED results

-----------------------------------------------------------------------------
(* POST /ingestion/jobs: no lock, a key that is unique among all jobs *)

JobWithKey(k) == {j \in Jobs : k # NoKey /\ Exists(j) /\ jobs[j].key = k}

\* _resolve_idempotent_request
Resolve(t, s, k, existing) ==
    \E j \in existing :
        IF jobs[j].source = s THEN Answer(t, "post", "jobs", k, s, j) ELSE Reject(t)

\* document_exists and get_by_idempotency_key.
RequestJob(t, s, k) ==
    /\ thread[t] = Idle /\ Live(s)
    /\ IF JobWithKey(k) # {} THEN Resolve(t, s, k, JobWithKey(k))
       ELSE /\ Continue(t, [at |-> "post", source |-> s, key |-> k])
            /\ UNCHANGED <<rowLock, keyLock>>
    /\ UNCHANGED tables

\* INSERT: the foreign key refuses a deleted document, the unique key a second
\* job, whose owner is then returned.
InsertJob(t) ==
    LET r == thread[t] IN
    /\ r.at = "post"
    /\ \/ ~Live(r.source) /\ Reject(t) /\ UNCHANGED tables
       \/ Live(r.source) /\ Resolve(t, r.source, r.key, JobWithKey(r.key)) /\ UNCHANGED tables
       \/ /\ Live(r.source) /\ JobWithKey(r.key) = {}
          /\ \E j \in Jobs :
               /\ jobs[j] = None
               /\ jobs' = [jobs EXCEPT ![j] = NewJob(r.source, r.key, "post")]
               /\ Answer(t, "post", "jobs", r.key, r.source, j)
          /\ UNCHANGED <<sources, documents, receipts, results>>

-----------------------------------------------------------------------------
(* The worker, as far as these tables see it *)

SetStatus(j, status) == jobs' = [jobs EXCEPT ![j].status = status]

StartJob(j) ==
    /\ Exists(j) /\ jobs[j].status = "queued"
    /\ SetStatus(j, "running")
    /\ UNCHANGED <<sources, documents, receipts, results, requestVars>>

\* Bug: an upsert that writes the whole row, with the default state.
CommittedStateOfUpsert(s) == "enabled"

\* The columns the persistence transaction writes do not include retrieval_state.
CommittedState(s) == documents[s]

CommitJob(j) ==
    /\ Exists(j) /\ jobs[j].status = "running" /\ j \notin results
    /\ LET s == jobs[j].source IN documents' = [documents EXCEPT ![s] = CommittedState(s)]
    /\ results' = results \union {j}
    /\ UNCHANGED <<sources, jobs, receipts, requestVars>>

EndJob(j) ==
    /\ Exists(j) /\ jobs[j].status = "running"
    /\ SetStatus(j, IF j \in results THEN "completed" ELSE "failed")
    /\ UNCHANGED <<sources, documents, receipts, results, requestVars>>

-----------------------------------------------------------------------------
CreateSource(t) ==
    \/ \E a \in Assistants, k \in CreationKeys, b \in Bodies : RequestCreation(t, a, k, b)
    \/ InsertSource(t)
    \/ ResolveByKey(t)
    \/ ResolveByUrl(t)

Reingest(t) ==
    \/ \E s \in Sources, k \in ReingestKeys : RequestReingestion(t, s, k)
    \/ LockSource(t)
    \/ CheckReceipt(t)
    \/ QueueReingestion(t)

Delete(t) == (\E s \in Sources : CheckDeletion(t, s)) \/ DeleteDocument(t)

PostJob(t) == (\E s \in Sources, k \in PostKeys : RequestJob(t, s, k)) \/ InsertJob(t)

Next ==
    \/ \E t \in Threads : CreateSource(t) \/ Reingest(t) \/ Delete(t) \/ PostJob(t)
    \/ \E s \in Sources, state \in States : UpdateRetrievalState(s, state)
    \/ \E j \in Jobs : StartJob(j) \/ CommitJob(j) \/ EndJob(j)

Spec == Init /\ [][Next]_sourcesVars

-----------------------------------------------------------------------------
TypeOK ==
    /\ sources \in [Sources -> SourceRows \union {None, Gone}]
    /\ documents \in [Sources -> States \union {None, Gone}]
    /\ jobs \in [Jobs -> JobRows \union {None, Gone}]
    /\ receipts \subseteq Receipts
    /\ results \subseteq Jobs
    /\ \A s \in Sources : rowLock[s] \in Threads \union {Free}
    /\ \A k \in DOMAIN keyLock : keyLock[k] \in Threads \union {Free}

\* The rows are well typed, and what an administrator set on a source is what
\* retrieval reads on its document, whatever ingestion commits at the same time.
RetrievalAgrees ==
    /\ TypeOK
    /\ \A s \in Sources : Live(s) => documents[s] = sources[s].state

\* Whatever a keyed request was answered, its repetitions are answered the same,
\* by replay, by a lost race or by the duplicate URL, until the named row is
\* deleted.
KeyedAnswersAgree ==
    \A x, y \in answers :
        \/ x.op # y.op \/ <<x.scope, x.key, x.request>> # <<y.scope, y.key, y.request>>
        \/ x.named = y.named

QueuedBySource(j) == Exists(j) /\ jobs[j].origin = "source"

\* While a job that creation or re-ingestion has queued is active, neither of them
\* queues another for its source, and no deletion removes it, however requests and
\* workers interleave (jobs that POST /ingestion/jobs adds may join it: it takes no
\* lock).
ActiveSourceJobKept ==
    [][\A j \in Jobs : IsActive(j) /\ QueuedBySource(j) =>
          /\ jobs'[j] # Gone
          /\ \A i \in Jobs : ~Exists(i) /\ QueuedBySource(i)' => jobs'[i].source # jobs[j].source]_sourcesVars

\* "Otherwise it removes the source-owned document": a deletion that was not
\* refused for an active job does not fail.
DeletionRemoves == \A t \in Threads : thread[t].at = "delete" => ~Restricted(thread[t].source)
=============================================================================
