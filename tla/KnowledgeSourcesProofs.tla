----------------------- MODULE KnowledgeSourcesProofs -----------------------
(***************************************************************************)
(* What KnowledgeSources keeps, for any number of sources, jobs, threads   *)
(* and keys: the rows agree with what retrieval reads, keyed requests are  *)
(* answered alike, and an active job that a source has queued is neither   *)
(* doubled nor deleted.                                                    *)
(*                                                                         *)
(* None of this follows from the tables alone: a request looks in one step *)
(* and writes in a later one. SourcesInv therefore says which locks a      *)
(* thread holds at each of its steps (LockInv), that what it found under   *)
(* them is still so (FindingsHold), which rows the unique indexes keep     *)
(* apart, and which row accounts for each answer (AnswerInv).              *)
(***************************************************************************)
EXTENDS KnowledgeSources, TLAPS

-----------------------------------------------------------------------------
(* The inductive invariant                                                 *)

\* What a request thread keeps between two of its steps.
CreateStates ==
    [at : {"create", "lost", "by_url"}, assistant : Assistants, key : KeyOrNone, body : Bodies]
ReingestStates ==
    [at : {"reingest", "receipt"}, source : Sources, key : KeyOrNone, assistant : Assistants]
SelectStates ==
    [at : {"select"}, source : Sources, key : KeyOrNone, assistant : Assistants,
     job : Jobs \union {NoJob}]
DeleteStates == [at : {"delete"}, source : Sources]
PostStates == [at : {"post"}, source : Sources, key : KeyOrNone]

Locks == Assistants \X Keys

TypeInv ==
    /\ TypeOK
    /\ thread \in [Threads -> {Idle} \union CreateStates \union ReingestStates
                                \union SelectStates \union DeleteStates \union PostStates]
    /\ rowLock \in [Sources -> Threads \union {Free}]
    /\ keyLock \in [Locks -> Threads \union {Free}]

\* A thread past the SELECT .. FOR UPDATE of its source has locked it, and the
\* source is still there; one past the receipt has locked its key as well.
HoldsLocks(t) ==
    /\ thread[t].at \in {"receipt", "select", "delete"} =>
          /\ rowLock[thread[t].source] = t
          /\ Live(thread[t].source)
    /\ thread[t].at = "select" /\ thread[t].key # NoKey =>
          keyLock[<<thread[t].assistant, thread[t].key>>] = t

LockInv == \A t \in Threads : HoldsLocks(t)

StateAgrees(s) == Live(s) => documents[s] = sources[s].state

JobHasSource(j) == Exists(j) => Live(jobs[j].source)

\* No job that creation or re-ingestion has queued is active for the source.
Quiet(s) == \A j \in Jobs : IsActive(j) /\ QueuedBySource(j) => jobs[j].source # s

\* What a thread under its locks has found stays so.
FindingsHold(t) ==
    /\ thread[t].at = "delete" => Quiet(thread[t].source)
    /\ thread[t].at = "select" =>
          /\ thread[t].job = NoJob => Quiet(thread[t].source)
          /\ thread[t].job # NoJob =>
                Exists(thread[t].job) /\ jobs[thread[t].job].source = thread[t].source
          /\ thread[t].key # NoKey => ReceiptsOf(thread[t].assistant, thread[t].key) = {}
    /\ thread[t].at = "by_url" => thread[t].body.url # NoUrl

\* The unique indexes.
SourcesDistinct ==
    \A r, s \in Sources :
        Live(r) /\ Live(s) /\ sources[r].assistant = sources[s].assistant =>
            /\ sources[r].key # NoKey /\ sources[r].key = sources[s].key => r = s
            /\ sources[r].body.url # NoUrl /\ sources[r].body.url = sources[s].body.url => r = s

JobKeysDistinct ==
    \A i, j \in Jobs :
        Exists(i) /\ Exists(j) /\ jobs[i].key # NoKey /\ jobs[i].key = jobs[j].key => i = j

ReceiptsDistinct ==
    \A x, y \in receipts : x.assistant = y.assistant /\ x.key = y.key => x = y

ReceiptSound(x) == Exists(x.job) /\ jobs[x.job].source = x.source

RowInv ==
    /\ \A s \in Sources : StateAgrees(s)
    /\ \A j \in Jobs : JobHasSource(j)
    /\ \A t \in Threads : FindingsHold(t)
    /\ SourcesDistinct
    /\ JobKeysDistinct
    /\ ReceiptsDistinct
    /\ \A x \in receipts : ReceiptSound(x)

\* An answer names a row that still says why.
AnswerSound(x) ==
    \/ /\ x.op = "create"
       /\ x.named \in Sources
       /\ Live(x.named)
       /\ sources[x.named].assistant = x.scope
       /\ sources[x.named].body.url = x.request.url
       /\ x.request.url = NoUrl => sources[x.named].key = x.key
    \/ /\ x.op = "reingest"
       /\ [assistant |-> x.scope, key |-> x.key, source |-> x.request, job |-> x.named]
             \in receipts
    \/ /\ x.op = "post"
       /\ x.named \in Jobs
       /\ Exists(x.named)
       /\ jobs[x.named].key = x.key

AnswerInv == \A x \in answers : x.key # NoKey /\ AnswerSound(x)

SourcesInv == TypeInv /\ LockInv /\ RowInv /\ AnswerInv
-----------------------------------------------------------------------------
(* Types                                                                   *)

ThreadStates == {Idle} \union CreateStates \union ReingestStates
                  \union SelectStates \union DeleteStates \union PostStates

\* A thread has the state its place in the request calls for.
LEMMA ThreadFields ==
  ASSUME TypeInv, NEW t \in Threads
  PROVE  /\ thread[t] \in ThreadStates
         /\ thread[t].at \in {"create", "lost", "by_url"} => thread[t] \in CreateStates
         /\ thread[t].at \in {"reingest", "receipt"} => thread[t] \in ReingestStates
         /\ thread[t].at = "select" => thread[t] \in SelectStates
         /\ thread[t].at = "delete" => thread[t] \in DeleteStates
         /\ thread[t].at = "post" => thread[t] \in PostStates
<1>1. thread[t] \in ThreadStates
  BY DEF TypeInv, ThreadStates
<1> QED
  BY <1>1 DEF ThreadStates, Idle, CreateStates, ReingestStates, SelectStates, DeleteStates,
              PostStates

\* What a row of each table holds.
LEMMA RowFields ==
  ASSUME TypeInv
  PROVE  /\ \A s \in Sources : Live(s) <=> sources[s] \in SourceRows
         /\ \A j \in Jobs : Exists(j) <=> jobs[j] \in JobRows
         /\ \A s \in Sources : Live(s) =>
               /\ sources[s].assistant \in Assistants /\ sources[s].body \in Bodies
               /\ sources[s].key \in KeyOrNone /\ sources[s].state \in States
         /\ \A j \in Jobs : Exists(j) =>
               /\ jobs[j].source \in Sources /\ jobs[j].status \in Statuses
               /\ jobs[j].key \in KeyOrNone /\ jobs[j].origin \in {"source", "post"}
         /\ \A x \in receipts :
               x.assistant \in Assistants /\ x.key \in Keys /\ x.source \in Sources /\ x.job \in Jobs
<1>1. /\ \A s \in Sources : sources[s] \in SourceRows \union {None, Gone}
      /\ \A j \in Jobs : jobs[j] \in JobRows \union {None, Gone}
      /\ receipts \subseteq Receipts
  BY DEF TypeInv, TypeOK
<1>2. /\ \A s \in Sources : Live(s) <=> sources[s] \in SourceRows
      /\ \A j \in Jobs : Exists(j) <=> jobs[j] \in JobRows
  BY <1>1, SourcesAssumption DEF Live, Exists
<1> QED
  BY <1>1, <1>2 DEF SourceRows, JobRows, Receipts

\* A new job is a row.
LEMMA NewJobTyped ==
  ASSUME NEW s \in Sources, NEW key \in KeyOrNone, NEW origin \in {"source", "post"}
  PROVE  /\ NewJob(s, key, origin) \in JobRows
         /\ NewJob(s, key, origin).source = s
         /\ NewJob(s, key, origin).key = key
         /\ NewJob(s, key, origin).origin = origin
         /\ NewJob(s, key, origin).status = "queued"
  BY DEF NewJob, JobRows, Statuses

ThreadsTyped ==
    /\ thread' \in [Threads -> ThreadStates]
    /\ rowLock' \in [Sources -> Threads \union {Free}]
    /\ keyLock' \in [Locks -> Threads \union {Free}]

\* Ending a request keeps the types of threads and locks.
LEMMA ReturnTyped ==
  ASSUME TypeInv, NEW t \in Threads, Return(t)
  PROVE  ThreadsTyped
  BY DEF TypeInv, Return, ThreadsTyped, Locks, ThreadStates

\* So does going on with a request.
LEMMA ContinueTyped ==
  ASSUME TypeInv, NEW t \in Threads, NEW x \in ThreadStates, Continue(t, x),
         rowLock' = rowLock \/ (\E s \in Sources : rowLock' = [rowLock EXCEPT ![s] = t]),
         keyLock' = keyLock \/ (\E k \in Locks : keyLock' = [keyLock EXCEPT ![k] = t])
  PROVE  ThreadsTyped
<1>1. thread' \in [Threads -> ThreadStates]
  BY DEF TypeInv, Continue, ThreadStates
<1>2. rowLock' \in [Sources -> Threads \union {Free}]
  BY DEF TypeInv
<1>3. keyLock' \in [Locks -> Threads \union {Free}]
  BY DEF TypeInv
<1> QED
  BY <1>1, <1>2, <1>3 DEF ThreadsTyped

RowsTyped ==
    /\ sources' \in [Sources -> SourceRows \union {None, Gone}]
    /\ documents' \in [Sources -> States \union {None, Gone}]
    /\ jobs' \in [Jobs -> JobRows \union {None, Gone}]
    /\ receipts' \subseteq Receipts
    /\ results' \subseteq Jobs

\* Types are kept part by part.
LEMMA TypeParts ==
  ASSUME TypeInv, RowsTyped, ThreadsTyped
  PROVE  TypeInv'
<1>1. /\ \A s \in Sources : rowLock'[s] \in Threads \union {Free}
      /\ \A k \in DOMAIN keyLock' : keyLock'[k] \in Threads \union {Free}
  BY DEF ThreadsTyped
<1> QED
  BY <1>1 DEF TypeInv, TypeOK, RowsTyped, ThreadsTyped, ThreadStates

\* Tables that do not change keep their types.
LEMMA TablesTyped ==
  ASSUME TypeInv
  PROVE  /\ UNCHANGED tables => RowsTyped
         /\ UNCHANGED requestVars => ThreadsTyped
  BY DEF TypeInv, TypeOK, tables, requestVars, RowsTyped, ThreadsTyped, ThreadStates

\* Creation keeps the types.
LEMMA CreateTyped ==
  ASSUME TypeInv, NEW t \in Threads, CreateSource(t)
  PROVE  TypeInv'
<1>1. ASSUME NEW a \in Assistants, NEW k \in CreationKeys, NEW b \in Bodies,
             RequestCreation(t, a, k, b)
      PROVE  TypeInv'
  <2>1. [at |-> "create", assistant |-> a, key |-> k, body |-> b] \in ThreadStates
    BY SourcesAssumption DEF ThreadStates, CreateStates
  <2>2. RowsTyped
    BY <1>1, TablesTyped DEF RequestCreation
  <2>3. ThreadsTyped
    BY <1>1, <2>1, ReturnTyped, ContinueTyped DEF RequestCreation, Answer, Reject
  <2> QED
    BY <2>2, <2>3, TypeParts
<1>2. ASSUME InsertSource(t) PROVE TypeInv'
  <2>1. PICK r : r = thread[t]
    OBVIOUS
  <2>2. r \in CreateStates /\ r.at = "create"
    BY <1>2, <2>1, ThreadFields DEF InsertSource
  <2>3. CASE UniqueViolation(r.assistant, r.key, r.body)
    <3>1. [r EXCEPT !.at = "lost"] \in ThreadStates
      BY <2>2 DEF ThreadStates, CreateStates
    <3>2. RowsTyped /\ ThreadsTyped
      BY <1>2, <2>1, <2>3, <3>1, ContinueTyped, TablesTyped DEF InsertSource
    <3> QED
      BY <3>2, TypeParts
  <2>4. CASE ~UniqueViolation(r.assistant, r.key, r.body)
    <3>1. PICK s \in Sources, j \in Jobs :
             /\ sources' = [sources EXCEPT ![s] = [assistant |-> r.assistant, body |-> r.body,
                                                   key |-> r.key, state |-> "enabled"]]
             /\ documents' = [documents EXCEPT ![s] = "enabled"]
             /\ jobs' = [jobs EXCEPT ![j] = NewJob(s, NoKey, "source")]
             /\ Answer(t, "create", r.assistant, r.key, r.body, s)
             /\ UNCHANGED <<receipts, results>>
      BY <1>2, <2>1, <2>4 DEF InsertSource
    <3>2. [assistant |-> r.assistant, body |-> r.body, key |-> r.key, state |-> "enabled"]
             \in SourceRows
      BY <2>2 DEF SourceRows, CreateStates, States
    <3>3. NewJob(s, NoKey, "source") \in JobRows
      BY NewJobTyped DEF KeyOrNone
    <3>4. RowsTyped
      BY <3>1, <3>2, <3>3 DEF TypeInv, TypeOK, RowsTyped, States
    <3>5. ThreadsTyped
      BY <3>1, ReturnTyped DEF Answer
    <3> QED
      BY <3>4, <3>5, TypeParts
  <2> QED
    BY <2>3, <2>4
<1>3. ASSUME ResolveByKey(t) \/ ResolveByUrl(t) PROVE TypeInv'
  <2>1. thread[t].at = "lost" => [thread[t] EXCEPT !.at = "by_url"] \in ThreadStates
    BY ThreadFields DEF ThreadStates, CreateStates
  <2>2. RowsTyped
    BY <1>3, TablesTyped DEF ResolveByKey, ResolveByUrl
  <2>3. ThreadsTyped
    BY <1>3, <2>1, ReturnTyped, ContinueTyped DEF ResolveByKey, ResolveByUrl, Answer, Reject
  <2> QED
    BY <2>2, <2>3, TypeParts
<1> QED
  BY <1>1, <1>2, <1>3 DEF CreateSource

\* Re-ingestion keeps the types.
LEMMA ReingestTyped ==
  ASSUME TypeInv, NEW t \in Threads, Reingest(t)
  PROVE  TypeInv'
<1>1. ASSUME NEW s \in Sources, NEW k \in ReingestKeys, RequestReingestion(t, s, k)
      PROVE  TypeInv'
  <2>1. [at |-> "reingest", source |-> s, key |-> k, assistant |-> sources[s].assistant]
           \in ThreadStates
    BY <1>1, SourcesAssumption, RowFields DEF RequestReingestion, ThreadStates, ReingestStates
  <2>2. RowsTyped /\ ThreadsTyped
    BY <1>1, <2>1, TablesTyped, ContinueTyped DEF RequestReingestion
  <2> QED
    BY <2>2, TypeParts
<1>2. ASSUME LockSource(t) PROVE TypeInv'
  <2>1. /\ thread[t].source \in Sources
        /\ [thread[t] EXCEPT !.at = "receipt"] \in ThreadStates
    BY <1>2, ThreadFields DEF LockSource, ThreadStates, ReingestStates
  <2>2. RowsTyped
    BY <1>2, TablesTyped DEF LockSource
  <2>3. ThreadsTyped
    BY <1>2, <2>1, ReturnTyped, ContinueTyped DEF LockSource, Reject
  <2> QED
    BY <2>2, <2>3, TypeParts
<1>3. ASSUME CheckReceipt(t) PROVE TypeInv'
  <2>1. thread[t] \in ReingestStates
    BY <1>3, ThreadFields DEF CheckReceipt
  <2>2. RowsTyped
    BY <1>3, TablesTyped DEF CheckReceipt
  <2>3. ASSUME NEW j \in Jobs \union {NoJob}
        PROVE  [at |-> "select", source |-> thread[t].source, key |-> thread[t].key,
                assistant |-> thread[t].assistant, job |-> j] \in ThreadStates
    BY <2>1 DEF ThreadStates, ReingestStates, SelectStates
  <2>4. thread[t].key = NoKey \/ <<thread[t].assistant, thread[t].key>> \in Locks
    BY <2>1 DEF ReingestStates, KeyOrNone, Locks
  <2>5. ASSUME ~Return(t) PROVE ThreadsTyped
    <3>1. PICK j \in Jobs \union {NoJob} :
             Continue(t, [at |-> "select", source |-> thread[t].source, key |-> thread[t].key,
                          assistant |-> thread[t].assistant, job |-> j])
      BY <1>3, <2>5 DEF CheckReceipt, Answer, Reject, ActiveJobs
    <3>2. /\ rowLock' = rowLock
          /\ keyLock' = keyLock \/ \E k \in Locks : keyLock' = [keyLock EXCEPT ![k] = t]
      BY <1>3, <2>4, <2>5 DEF CheckReceipt, Answer, Reject
    <3> QED
      BY <2>3, <3>1, <3>2, ContinueTyped
  <2> QED
    BY <2>2, <2>5, ReturnTyped, TypeParts
<1>4. ASSUME QueueReingestion(t) PROVE TypeInv'
  <2>1. PICK r \in SelectStates : r = thread[t]
    BY <1>4, ThreadFields DEF QueueReingestion
  <2>2. PICK j \in Jobs :
           /\ jobs' = jobs \/ jobs' = [jobs EXCEPT ![j] = NewJob(r.source, NoKey, "source")]
           /\ receipts' = IF r.key = NoKey THEN receipts
                          ELSE receipts \union {[assistant |-> r.assistant, key |-> r.key,
                                                 source |-> r.source, job |-> j]}
           /\ Answer(t, "reingest", r.assistant, r.key, r.source, j)
    BY <1>4, <2>1 DEF QueueReingestion, SelectStates
  <2>3. NewJob(r.source, NoKey, "source") \in JobRows
    BY <2>1, NewJobTyped DEF SelectStates, KeyOrNone
  <2>4. receipts' \subseteq Receipts
    BY <2>1, <2>2 DEF TypeInv, TypeOK, SelectStates, KeyOrNone, Receipts
  <2>5. RowsTyped
    BY <1>4, <2>2, <2>3, <2>4 DEF QueueReingestion, TypeInv, TypeOK, RowsTyped
  <2>6. ThreadsTyped
    BY <2>2, ReturnTyped DEF Answer
  <2> QED
    BY <2>5, <2>6, TypeParts
<1> QED
  BY <1>1, <1>2, <1>3, <1>4 DEF Reingest

\* Deletion keeps the types.
LEMMA DeleteTyped ==
  ASSUME TypeInv, NEW t \in Threads, Delete(t)
  PROVE  TypeInv'
<1>1. ASSUME NEW s \in Sources, CheckDeletion(t, s) PROVE TypeInv'
  <2>1. [at |-> "delete", source |-> s] \in ThreadStates
    BY DEF ThreadStates, DeleteStates
  <2>2. RowsTyped /\ ThreadsTyped
    BY <1>1, <2>1, TablesTyped, ContinueTyped DEF CheckDeletion
  <2> QED
    BY <2>2, TypeParts
<1>2. ASSUME DeleteDocument(t) PROVE TypeInv'
  <2>1. ThreadsTyped
    BY <1>2, ReturnTyped DEF DeleteDocument, Reject
  <2>2. RowsTyped
    <3>1. CASE UNCHANGED tables
      BY <3>1, TablesTyped
    <3>2. CASE ~UNCHANGED tables
      BY <1>2, <3>2 DEF DeleteDocument, TypeInv, TypeOK, RowsTyped
    <3> QED
      BY <3>1, <3>2
  <2> QED
    BY <2>1, <2>2, TypeParts
<1> QED
  BY <1>1, <1>2 DEF Delete

\* So does POST /ingestion/jobs.
LEMMA PostTyped ==
  ASSUME TypeInv, NEW t \in Threads, PostJob(t)
  PROVE  TypeInv'
<1>1. ASSUME NEW s \in Sources, NEW k \in PostKeys, RequestJob(t, s, k) PROVE TypeInv'
  <2>1. [at |-> "post", source |-> s, key |-> k] \in ThreadStates
    BY SourcesAssumption DEF ThreadStates, PostStates
  <2>2. RowsTyped
    BY <1>1, TablesTyped DEF RequestJob
  <2>3. ThreadsTyped
    BY <1>1, <2>1, ReturnTyped, ContinueTyped DEF RequestJob, Resolve, Answer, Reject
  <2> QED
    BY <2>2, <2>3, TypeParts
<1>2. ASSUME InsertJob(t) PROVE TypeInv'
  <2>1. PICK r \in PostStates : r = thread[t]
    BY <1>2, ThreadFields DEF InsertJob
  <2>2. ThreadsTyped
    BY <1>2, ReturnTyped DEF InsertJob, Resolve, Answer, Reject
  <2>3. RowsTyped
    <3>1. CASE UNCHANGED tables
      BY <3>1, TablesTyped
    <3>2. CASE ~UNCHANGED tables
      <4>1. PICK j \in Jobs : /\ jobs' = [jobs EXCEPT ![j] = NewJob(r.source, r.key, "post")]
                              /\ UNCHANGED <<sources, documents, receipts, results>>
        BY <1>2, <2>1, <3>2 DEF InsertJob
      <4>2. NewJob(r.source, r.key, "post") \in JobRows
        BY <2>1, NewJobTyped DEF PostStates
      <4> QED
        BY <4>1, <4>2 DEF TypeInv, TypeOK, RowsTyped
    <3> QED
      BY <3>1, <3>2
  <2> QED
    BY <2>2, <2>3, TypeParts
<1> QED
  BY <1>1, <1>2 DEF PostJob

\* A job whose status changes is a row still, with the same source, key and origin.
LEMMA StatusTyped ==
  ASSUME TypeInv, NEW j \in Jobs, Exists(j), NEW status \in Statuses, SetStatus(j, status)
  PROVE  /\ jobs' \in [Jobs -> JobRows \union {None, Gone}]
         /\ \A i \in Jobs \ {j} : jobs'[i] = jobs[i]
         /\ jobs'[j] \in JobRows
         /\ jobs'[j] = [jobs[j] EXCEPT !.status = status]
<1>1. jobs[j] \in JobRows
  BY RowFields
<1>2. [jobs[j] EXCEPT !.status = status] \in JobRows
  BY <1>1 DEF JobRows
<1>3. jobs' = [jobs EXCEPT ![j] = [jobs[j] EXCEPT !.status = status]]
  BY DEF SetStatus
<1> QED
  BY <1>2, <1>3 DEF TypeInv, TypeOK

\* Every step keeps the types.
LEMMA TypeStep == TypeInv /\ [Next]_sourcesVars => TypeInv'
<1> SUFFICES ASSUME TypeInv, [Next]_sourcesVars PROVE TypeInv'
  OBVIOUS
<1>1. ASSUME NEW s \in Sources, NEW state \in States, UpdateRetrievalState(s, state)
      PROVE  TypeInv'
  <2>1. sources[s] \in SourceRows
    BY <1>1, RowFields DEF UpdateRetrievalState
  <2>2. [sources[s] EXCEPT !.state = state] \in SourceRows
    BY <2>1 DEF SourceRows
  <2>3. sources' = [sources EXCEPT ![s] = [sources[s] EXCEPT !.state = state]]
    BY <1>1 DEF UpdateRetrievalState
  <2>4. RowsTyped
    BY <1>1, <2>2, <2>3 DEF UpdateRetrievalState, TypeInv, TypeOK, RowsTyped
  <2>5. ThreadsTyped
    BY <1>1, TablesTyped DEF UpdateRetrievalState
  <2> QED
    BY <2>4, <2>5, TypeParts
<1>2. ASSUME NEW j \in Jobs, StartJob(j) \/ EndJob(j) PROVE TypeInv'
  <2>1. Exists(j) /\ \E status \in Statuses : SetStatus(j, status)
    BY <1>2 DEF StartJob, EndJob, Statuses
  <2>2. RowsTyped
    BY <1>2, <2>1, StatusTyped DEF StartJob, EndJob, TypeInv, TypeOK, RowsTyped
  <2>3. ThreadsTyped
    BY <1>2, TablesTyped DEF StartJob, EndJob
  <2> QED
    BY <2>2, <2>3, TypeParts
<1>3. ASSUME NEW j \in Jobs, CommitJob(j) PROVE TypeInv'
  <2>1. jobs[j].source \in Sources
    BY <1>3, RowFields DEF CommitJob
  <2>2. RowsTyped
    BY <1>3, <2>1 DEF CommitJob, CommittedState, TypeInv, TypeOK, RowsTyped
  <2>3. ThreadsTyped
    BY <1>3, TablesTyped DEF CommitJob
  <2> QED
    BY <2>2, <2>3, TypeParts
<1>4. CASE UNCHANGED sourcesVars
  BY <1>4, TablesTyped, TypeParts DEF sourcesVars
<1> QED
  BY <1>1, <1>2, <1>3, <1>4, CreateTyped, ReingestTyped, DeleteTyped, PostTyped DEF Next

-----------------------------------------------------------------------------
(* Steps of a request                                                      *)

\* Another thread keeps its place and its locks.
OthersKept(t) ==
    \A u \in Threads \ {t} :
        /\ thread'[u] = thread[u]
        /\ \A s \in Sources : rowLock[s] = u => rowLock'[s] = u
        /\ \A k \in Locks : keyLock[k] = u => keyLock'[k] = u

\* A request that ends leaves nothing to keep.
LEMMA ReturnKeeps ==
  ASSUME TypeInv, NEW t \in Threads, Return(t)
  PROVE  OthersKept(t) /\ HoldsLocks(t)' /\ FindingsHold(t)'
<1>1. thread'[t] = Idle
  BY DEF TypeInv, Return
<1>2. OthersKept(t)
  BY SourcesAssumption DEF TypeInv, Return, OthersKept, Locks
<1> QED
  BY <1>1, <1>2 DEF HoldsLocks, FindingsHold, Idle

\* A request that goes on takes free locks only.
LEMMA ContinueKeeps ==
  ASSUME TypeInv, NEW t \in Threads, NEW x, Continue(t, x),
         \/ rowLock' = rowLock
         \/ \E s \in Sources : MayLock(s) /\ rowLock' = [rowLock EXCEPT ![s] = t],
         \/ keyLock' = keyLock
         \/ \E k \in Locks : keyLock[k] = Free /\ keyLock' = [keyLock EXCEPT ![k] = t]
  PROVE  OthersKept(t) /\ thread'[t] = x
<1>1. thread'[t] = x /\ \A u \in Threads \ {t} : thread'[u] = thread[u]
  BY DEF TypeInv, Continue
<1>2. ASSUME NEW u \in Threads \ {t}, NEW s \in Sources, rowLock[s] = u
      PROVE  rowLock'[s] = u
  BY <1>2, SourcesAssumption DEF TypeInv, MayLock
<1>3. ASSUME NEW u \in Threads \ {t}, NEW k \in Locks, keyLock[k] = u
      PROVE  keyLock'[k] = u
  BY <1>3, SourcesAssumption DEF TypeInv
<1> QED
  BY <1>1, <1>2, <1>3 DEF OthersKept

\* A thread that another's step leaves alone keeps its locks, if its source stays.
LEMMA LocksKept ==
  ASSUME TypeInv, LockInv, NEW t \in Threads, OthersKept(t), NEW u \in Threads \ {t},
         \A s \in Sources : Live(s) /\ rowLock[s] = u => Live(s)'
  PROVE  HoldsLocks(u)'
<1>1. HoldsLocks(u) /\ thread'[u] = thread[u]
  BY DEF LockInv, OthersKept
<1>2. /\ thread[u].at \in {"receipt", "select", "delete"} => thread[u].source \in Sources
      /\ thread[u].at = "select" /\ thread[u].key # NoKey =>
            <<thread[u].assistant, thread[u].key>> \in Locks
  BY ThreadFields DEF ReingestStates, SelectStates, DeleteStates, KeyOrNone, Locks
<1>3. PICK x : x = thread[u]
  OBVIOUS
<1>4. /\ x.at \in {"receipt", "select", "delete"} =>
            rowLock'[x.source] = u /\ Live(x.source)'
      /\ x.at = "select" /\ x.key # NoKey => keyLock'[<<x.assistant, x.key>>] = u
  BY <1>1, <1>2, <1>3 DEF HoldsLocks, OthersKept
<1> QED
  BY <1>1, <1>3, <1>4 DEF HoldsLocks

\* A step that writes no table keeps what the tables and the other threads hold.
LEMMA ReaderKeeps ==
  ASSUME SourcesInv, TypeInv', UNCHANGED tables, NEW t \in Threads, OthersKept(t),
         HoldsLocks(t)', FindingsHold(t)',
         \A x \in answers' : x \in answers \/ (x.key # NoKey /\ AnswerSound(x))
  PROVE  SourcesInv'
<1>1. UNCHANGED <<sources, documents, jobs, receipts, results>>
  BY DEF tables
<1>2. LockInv'
  <2>1. ASSUME NEW u \in Threads \ {t} PROVE HoldsLocks(u)'
    BY <1>1, LocksKept DEF SourcesInv, Live
  <2> QED
    BY <2>1 DEF LockInv
<1>3. ASSUME NEW u \in Threads PROVE FindingsHold(u)'
  <2>1. CASE u # t
    <3>1. FindingsHold(u) /\ thread'[u] = thread[u]
      BY <2>1 DEF SourcesInv, RowInv, OthersKept
    <3> QED
      BY <1>1, <3>1 DEF FindingsHold, Quiet, IsActive, Exists, QueuedBySource, ReceiptsOf
  <2> QED
    BY <2>1
<1>4. RowInv'
  BY <1>1, <1>3
     DEF SourcesInv, RowInv, StateAgrees, JobHasSource, SourcesDistinct, JobKeysDistinct,
         ReceiptsDistinct, ReceiptSound, Live, Exists
<1>5. ASSUME NEW x, AnswerSound(x) PROVE AnswerSound(x)'
  BY <1>1, <1>5 DEF AnswerSound, Live, Exists
<1>6. AnswerInv'
  BY <1>5 DEF AnswerInv, SourcesInv
<1> QED
  BY <1>2, <1>4, <1>6 DEF SourcesInv

\* A reply that writes no table, with what an answer names, if it has a key.
LEMMA ReplyKeeps ==
  ASSUME SourcesInv, TypeInv', UNCHANGED tables, NEW t \in Threads,
         \/ Reject(t)
         \/ \E op, scope, key, request, named :
               /\ Answer(t, op, scope, key, request, named)
               /\ key # NoKey =>
                     AnswerSound([op |-> op, scope |-> scope, key |-> key,
                                  request |-> request, named |-> named])
  PROVE  SourcesInv'
<1>1. Return(t)
  BY DEF Reject, Answer
<1>2. \A x \in answers' : x \in answers \/ (x.key # NoKey /\ AnswerSound(x))
  <2>1. CASE Reject(t)
    BY <2>1 DEF Reject
  <2>2. ASSUME NEW op, NEW scope, NEW key, NEW request, NEW named,
               Answer(t, op, scope, key, request, named),
               key # NoKey =>
                  AnswerSound([op |-> op, scope |-> scope, key |-> key,
                               request |-> request, named |-> named])
        PROVE  \A x \in answers' : x \in answers \/ (x.key # NoKey /\ AnswerSound(x))
    <3>1. PICK y : y = [op |-> op, scope |-> scope, key |-> key,
                        request |-> request, named |-> named]
      OBVIOUS
    <3>2. y.key = key /\ (key # NoKey => AnswerSound(y))
      BY <2>2, <3>1
    <3>3. answers' = IF key = NoKey THEN answers ELSE answers \union {y}
      BY <2>2, <3>1 DEF Answer
    <3> QED
      BY <3>2, <3>3
  <2> QED
    BY <2>1, <2>2
<1>3. TypeInv
  BY DEF SourcesInv
<1> QED
  BY <1>1, <1>2, <1>3, ReturnKeeps, ReaderKeeps

\* A request that goes on without a write.
LEMMA GoOnKeeps ==
  ASSUME SourcesInv, TypeInv', UNCHANGED tables, NEW t \in Threads, NEW x, Continue(t, x),
         \/ rowLock' = rowLock
         \/ \E s \in Sources : MayLock(s) /\ rowLock' = [rowLock EXCEPT ![s] = t],
         \/ keyLock' = keyLock
         \/ \E k \in Locks : keyLock[k] = Free /\ keyLock' = [keyLock EXCEPT ![k] = t],
         HoldsLocks(t)', FindingsHold(t)'
  PROVE  SourcesInv'
<1>1. TypeInv
  BY DEF SourcesInv
<1>2. answers' = answers
  BY DEF Continue
<1> QED
  BY <1>1, <1>2, ContinueKeeps, ReaderKeeps

\* The reading steps of a creation.
LEMMA CreateReads ==
  ASSUME SourcesInv, TypeInv', UNCHANGED tables, NEW t \in Threads, CreateSource(t)
  PROVE  SourcesInv'
<1>1. TypeInv
  BY DEF SourcesInv
<1>2. ASSUME NEW x, Continue(t, x), UNCHANGED <<rowLock, keyLock>>,
             x.at \in {"create", "lost", "by_url"}, x.at = "by_url" => x.body.url # NoUrl
      PROVE  SourcesInv'
  <2>1. thread'[t] = x
    BY <1>1, <1>2, ContinueKeeps
  <2>2. HoldsLocks(t)' /\ FindingsHold(t)'
    BY <1>2, <2>1 DEF HoldsLocks, FindingsHold
  <2> QED
    BY <1>2, <2>2, GoOnKeeps
<1>3. ASSUME NEW a, NEW k, NEW b, NEW s \in Sources, Answer(t, "create", a, k, b, s),
             Live(s), sources[s].assistant = a, sources[s].body.url = b.url,
             b.url = NoUrl => sources[s].key = k
      PROVE  SourcesInv'
  <2>1. AnswerSound([op |-> "create", scope |-> a, key |-> k, request |-> b, named |-> s])
    BY <1>3 DEF AnswerSound
  <2> QED
    BY <1>3, <2>1, ReplyKeeps
<1>4. ASSUME Reject(t) PROVE SourcesInv'
  BY <1>4, ReplyKeeps
<1>5. ASSUME NEW a \in Assistants, NEW k \in CreationKeys, NEW b \in Bodies,
             RequestCreation(t, a, k, b)
      PROVE  SourcesInv'
  <2>1. CASE Continue(t, [at |-> "create", assistant |-> a, key |-> k, body |-> b])
              /\ UNCHANGED <<rowLock, keyLock>>
    BY <1>2, <2>1
  <2>2. CASE \E s \in FindCreation(a, k) :
               IF sources[s].body = b THEN Answer(t, "create", a, k, b, s) ELSE Reject(t)
    BY <1>3, <1>4, <2>2 DEF FindCreation
  <2> QED
    BY <1>5, <2>1, <2>2 DEF RequestCreation
<1>6. ASSUME InsertSource(t) PROVE SourcesInv'
  <2>1. PICK r : r = thread[t] /\ r \in CreateStates
    BY <1>1, <1>6, ThreadFields DEF InsertSource
  <2>2. CASE Continue(t, [r EXCEPT !.at = "lost"]) /\ UNCHANGED <<rowLock, keyLock>>
    <3>1. [r EXCEPT !.at = "lost"].at = "lost"
      BY <2>1 DEF CreateStates
    <3> QED
      BY <1>2, <2>2, <3>1
  <2>3. CASE ~(Continue(t, [r EXCEPT !.at = "lost"]) /\ UNCHANGED <<rowLock, keyLock>>)
    <3>1. PICK s \in Sources : sources[s] = None /\
             sources' = [sources EXCEPT ![s] = [assistant |-> r.assistant, body |-> r.body,
                                                key |-> r.key, state |-> "enabled"]]
      BY <1>6, <2>1, <2>3 DEF InsertSource
    <3>2. [assistant |-> r.assistant, body |-> r.body, key |-> r.key, state |-> "enabled"]
             \in SourceRows
      BY <2>1 DEF CreateStates, SourceRows, States
    <3>3. sources' # sources
      BY <1>1, <3>1, <3>2, SourcesAssumption DEF TypeInv, TypeOK
    <3> QED
      BY <3>3 DEF tables
  <2> QED
    BY <2>2, <2>3
<1>7. ASSUME ResolveByKey(t) PROVE SourcesInv'
  <2>1. PICK r : r = thread[t] /\ r \in CreateStates
    BY <1>1, <1>7, ThreadFields DEF ResolveByKey
  <2>2. CASE r.body.url # NoUrl /\ Continue(t, [r EXCEPT !.at = "by_url"])
              /\ UNCHANGED <<rowLock, keyLock>>
    <3>1. [r EXCEPT !.at = "by_url"].at = "by_url" /\ [r EXCEPT !.at = "by_url"].body = r.body
      BY <2>1 DEF CreateStates
    <3> QED
      BY <1>2, <2>2, <3>1
  <2>3. CASE \E s \in FindCreation(r.assistant, r.key) :
               sources[s].body = r.body /\ Answer(t, "create", r.assistant, r.key, r.body, s)
    BY <1>3, <2>3 DEF FindCreation
  <2> QED
    BY <1>4, <1>7, <2>1, <2>2, <2>3 DEF ResolveByKey
<1>8. ASSUME ResolveByUrl(t) PROVE SourcesInv'
  <2>1. thread[t].body.url # NoUrl
    BY <1>8 DEF ResolveByUrl, SourcesInv, RowInv, FindingsHold
  <2> QED
    BY <1>3, <1>4, <1>8, <2>1 DEF ResolveByUrl, FindByUrl
<1> QED
  BY <1>5, <1>6, <1>7, <1>8 DEF CreateSource

\* The reading steps of a re-ingestion.
LEMMA ReingestReads ==
  ASSUME SourcesInv, TypeInv', UNCHANGED tables, NEW t \in Threads,
         \/ \E s \in Sources, k \in ReingestKeys : RequestReingestion(t, s, k)
         \/ LockSource(t)
         \/ CheckReceipt(t)
  PROVE  SourcesInv'
<1>1. TypeInv
  BY DEF SourcesInv
<1>2. ASSUME Reject(t) PROVE SourcesInv'
  BY <1>2, ReplyKeeps
<1>3. ASSUME NEW s \in Sources, NEW k \in ReingestKeys, RequestReingestion(t, s, k)
      PROVE  SourcesInv'
  <2>1. PICK x : x = [at |-> "reingest", source |-> s, key |-> k,
                      assistant |-> sources[s].assistant]
    OBVIOUS
  <2>2. Continue(t, x) /\ UNCHANGED <<rowLock, keyLock>>
    BY <1>3, <2>1 DEF RequestReingestion
  <2>3. thread'[t] = x /\ x.at = "reingest"
    BY <1>1, <2>1, <2>2, ContinueKeeps
  <2>4. HoldsLocks(t)' /\ FindingsHold(t)'
    BY <2>3 DEF HoldsLocks, FindingsHold
  <2> QED
    BY <2>2, <2>4, GoOnKeeps
<1>4. ASSUME LockSource(t), ~Reject(t) PROVE SourcesInv'
  <2>1. PICK r : r = thread[t] /\ r \in ReingestStates
    BY <1>1, <1>4, ThreadFields DEF LockSource
  <2>2. PICK x : x = [r EXCEPT !.at = "receipt"]
    OBVIOUS
  <2>3. /\ Continue(t, x) /\ MayLock(r.source) /\ Live(r.source)
        /\ rowLock' = [rowLock EXCEPT ![r.source] = t]
        /\ keyLock' = keyLock
    BY <1>4, <2>1, <2>2 DEF LockSource
  <2>4. /\ x.at = "receipt" /\ x.source = r.source /\ r.source \in Sources
        /\ thread'[t] = x
    BY <1>1, <2>1, <2>2, <2>3, ContinueKeeps DEF ReingestStates
  <2>5. rowLock'[x.source] = t /\ Live(x.source)'
    BY <1>1, <2>3, <2>4 DEF TypeInv, tables, Live
  <2>6. HoldsLocks(t)' /\ FindingsHold(t)'
    BY <2>4, <2>5 DEF HoldsLocks, FindingsHold
  <2> QED
    BY <2>3, <2>4, <2>6, GoOnKeeps
<1>5. ASSUME CheckReceipt(t) PROVE SourcesInv'
  <2>1. PICK r : r = thread[t] /\ r \in ReingestStates /\ r.at = "receipt"
    BY <1>1, <1>5, ThreadFields DEF CheckReceipt
  <2>2. /\ r.source \in Sources /\ Live(r.source) /\ rowLock[r.source] = t
        /\ r.key # NoKey => <<r.assistant, r.key>> \in Locks
    BY <2>1 DEF SourcesInv, LockInv, HoldsLocks, ReingestStates, KeyOrNone, Locks
  <2>3. ASSUME NEW x \in ReceiptsOf(r.assistant, r.key), x.source = r.source,
               Answer(t, "reingest", r.assistant, r.key, r.source, x.job)
        PROVE  SourcesInv'
    <3>1. x = [assistant |-> r.assistant, key |-> r.key, source |-> r.source, job |-> x.job]
      BY <1>1, <2>3 DEF ReceiptsOf, TypeInv, TypeOK, Receipts
    <3>2. AnswerSound([op |-> "reingest", scope |-> r.assistant, key |-> r.key,
                       request |-> r.source, named |-> x.job])
      BY <2>3, <3>1 DEF AnswerSound, ReceiptsOf
    <3> QED
      BY <2>3, <3>2, ReplyKeeps
  <2>4. ASSUME r.key # NoKey => ReceiptsOf(r.assistant, r.key) = {},
               NEW j \in IF ActiveJobs(r.source) = {} THEN {NoJob} ELSE ActiveJobs(r.source),
               Continue(t, [at |-> "select", source |-> r.source, key |-> r.key,
                            assistant |-> r.assistant, job |-> j]),
               r.key # NoKey => keyLock[<<r.assistant, r.key>>] = Free,
               keyLock' = IF r.key = NoKey THEN keyLock
                          ELSE [keyLock EXCEPT ![<<r.assistant, r.key>>] = t],
               rowLock' = rowLock
        PROVE  SourcesInv'
    <3>1. PICK x : x = [at |-> "select", source |-> r.source, key |-> r.key,
                        assistant |-> r.assistant, job |-> j]
      OBVIOUS
    <3>2. /\ x.at = "select" /\ x.source = r.source /\ x.key = r.key
          /\ x.assistant = r.assistant /\ x.job = j
          /\ Continue(t, x)
      BY <2>4, <3>1
    <3>3. \/ keyLock' = keyLock
          \/ \E k \in Locks : keyLock[k] = Free /\ keyLock' = [keyLock EXCEPT ![k] = t]
      BY <2>2, <2>4
    <3>4. thread'[t] = x
      BY <1>1, <2>4, <3>2, <3>3, ContinueKeeps
    <3>5. /\ rowLock'[r.source] = t /\ Live(r.source)'
          /\ r.key # NoKey => keyLock'[<<r.assistant, r.key>>] = t
      BY <1>1, <2>2, <2>4 DEF TypeInv, tables, Live
    <3>6. HoldsLocks(t)'
      BY <3>2, <3>4, <3>5 DEF HoldsLocks
    <3>7. /\ j = NoJob => Quiet(r.source)
          /\ j # NoJob => Exists(j) /\ jobs[j].source = r.source
      BY <2>4, SourcesAssumption DEF ActiveJobs, Quiet, IsActive
    <3>8. FindingsHold(t)'
      <4>1. /\ j = NoJob => Quiet(r.source)'
            /\ j # NoJob => Exists(j)' /\ jobs'[j].source = r.source
            /\ r.key # NoKey => ReceiptsOf(r.assistant, r.key)' = {}
        BY <2>4, <3>7 DEF tables, Quiet, IsActive, Exists, QueuedBySource, ReceiptsOf
      <4> QED
        BY <3>2, <3>4, <4>1 DEF FindingsHold
    <3> QED
      BY <2>4, <3>2, <3>3, <3>6, <3>8, GoOnKeeps
  <2>5. ASSUME ~Reject(t),
               \A x \in ReceiptsOf(r.assistant, r.key) :
                  ~(x.source = r.source
                    /\ Answer(t, "reingest", r.assistant, r.key, r.source, x.job))
        PROVE  SourcesInv'
    <3>1. /\ r.key # NoKey => ReceiptsOf(r.assistant, r.key) = {}
          /\ r.key # NoKey => keyLock[<<r.assistant, r.key>>] = Free
          /\ \E j \in IF ActiveJobs(r.source) = {} THEN {NoJob} ELSE ActiveJobs(r.source) :
               Continue(t, [at |-> "select", source |-> r.source, key |-> r.key,
                            assistant |-> r.assistant, job |-> j])
          /\ keyLock' = IF r.key = NoKey THEN keyLock
                        ELSE [keyLock EXCEPT ![<<r.assistant, r.key>>] = t]
          /\ rowLock' = rowLock
      BY <1>5, <2>1, <2>5 DEF CheckReceipt
    <3> QED
      BY <2>4, <3>1
  <2> QED
    BY <1>2, <2>3, <2>5
<1> QED
  BY <1>2, <1>3, <1>4, <1>5

\* The reading steps of a deletion and of POST /ingestion/jobs.
LEMMA OtherReads ==
  ASSUME SourcesInv, TypeInv', UNCHANGED tables, NEW t \in Threads,
         \/ \E s \in Sources : CheckDeletion(t, s)
         \/ \E s \in Sources, k \in PostKeys : RequestJob(t, s, k)
         \/ Reject(t)
         \/ \E s, k : Resolve(t, s, k, JobWithKey(k))
  PROVE  SourcesInv'
<1>1. TypeInv
  BY DEF SourcesInv
<1>2. ASSUME NEW s, NEW k, Resolve(t, s, k, JobWithKey(k)) PROVE SourcesInv'
  <2>1. ASSUME NEW j \in JobWithKey(k), Answer(t, "post", "jobs", k, s, j) PROVE SourcesInv'
    <3>1. AnswerSound([op |-> "post", scope |-> "jobs", key |-> k, request |-> s, named |-> j])
      BY <2>1 DEF AnswerSound, JobWithKey
    <3> QED
      BY <2>1, <3>1, ReplyKeeps
  <2> QED
    BY <1>2, <2>1, ReplyKeeps DEF Resolve
<1>3. ASSUME NEW s \in Sources, NEW k \in PostKeys, RequestJob(t, s, k) PROVE SourcesInv'
  <2>1. CASE JobWithKey(k) # {}
    BY <1>2, <1>3, <2>1 DEF RequestJob
  <2>2. CASE JobWithKey(k) = {}
    <3>1. PICK x : x = [at |-> "post", source |-> s, key |-> k]
      OBVIOUS
    <3>2. Continue(t, x) /\ UNCHANGED <<rowLock, keyLock>>
      BY <1>3, <2>2, <3>1 DEF RequestJob
    <3>3. thread'[t] = x /\ x.at = "post"
      BY <1>1, <3>1, <3>2, ContinueKeeps
    <3>4. HoldsLocks(t)' /\ FindingsHold(t)'
      BY <3>3 DEF HoldsLocks, FindingsHold
    <3> QED
      BY <3>2, <3>4, GoOnKeeps
  <2> QED
    BY <2>1, <2>2
<1>4. ASSUME NEW s \in Sources, CheckDeletion(t, s) PROVE SourcesInv'
  <2>1. PICK x : x = [at |-> "delete", source |-> s]
    OBVIOUS
  <2>2. /\ Continue(t, x) /\ MayLock(s) /\ Live(s) /\ ActiveJobs(s) = {}
        /\ rowLock' = [rowLock EXCEPT ![s] = t] /\ keyLock' = keyLock
    BY <1>4, <2>1 DEF CheckDeletion
  <2>3. thread'[t] = x /\ x.at = "delete" /\ x.source = s
    BY <1>1, <2>1, <2>2, ContinueKeeps
  <2>4. rowLock'[s] = t /\ Live(s)' /\ Quiet(s)'
    BY <1>1, <2>2
       DEF TypeInv, tables, Live, ActiveJobs, Quiet, IsActive, Exists, QueuedBySource
  <2>5. HoldsLocks(t)' /\ FindingsHold(t)'
    BY <2>3, <2>4 DEF HoldsLocks, FindingsHold
  <2> QED
    BY <2>2, <2>5, GoOnKeeps
<1> QED
  BY <1>2, <1>3, <1>4, ReplyKeeps

-----------------------------------------------------------------------------
(* Steps that write                                                        *)

\* What a write by t must leave to a thread u: the sources it has locked, what it
\* found about them, and the receipts under the key it has locked.
Spares(t, u) ==
    /\ \A s \in Sources : rowLock[s] = u /\ Live(s) => Live(s)' /\ (Quiet(s) => Quiet(s)')
    /\ \A j \in Jobs : Exists(j) /\ rowLock[jobs[j].source] = u =>
          Exists(j)' /\ jobs'[j].source = jobs[j].source
    /\ \A x \in receipts' \ receipts :
          <<x.assistant, x.key>> \in Locks /\ keyLock[<<x.assistant, x.key>>] # u

\* Then u's locks and findings hold.
LEMMA ThreadSpared ==
  ASSUME SourcesInv, NEW t \in Threads, OthersKept(t), NEW u \in Threads \ {t}, Spares(t, u)
  PROVE  HoldsLocks(u)' /\ FindingsHold(u)'
<1>1. TypeInv /\ LockInv /\ HoldsLocks(u) /\ FindingsHold(u) /\ thread'[u] = thread[u]
  BY DEF SourcesInv, LockInv, RowInv, OthersKept
<1>2. HoldsLocks(u)'
  BY <1>1, LocksKept DEF Spares
<1>3. PICK x : x = thread[u]
  OBVIOUS
<1>4. /\ x.at \in {"select", "delete"} => x.source \in Sources
      /\ x.at = "select" =>
            /\ x.job \in Jobs \union {NoJob} /\ x.key \in KeyOrNone /\ x.assistant \in Assistants
  BY <1>1, <1>3, ThreadFields DEF SelectStates, DeleteStates
<1>5. x.at \in {"select", "delete"} => rowLock[x.source] = u /\ Live(x.source)
  BY <1>1, <1>3 DEF HoldsLocks
<1>6. x.at = "delete" => Quiet(x.source)'
  BY <1>1, <1>3, <1>4, <1>5 DEF FindingsHold, Spares
<1>7. x.at = "select" /\ x.job = NoJob => Quiet(x.source)'
  BY <1>1, <1>3, <1>4, <1>5 DEF FindingsHold, Spares
<1>8. x.at = "select" /\ x.job # NoJob => Exists(x.job)' /\ jobs'[x.job].source = x.source
  BY <1>1, <1>3, <1>4, <1>5 DEF FindingsHold, Spares
<1>9. x.at = "select" /\ x.key # NoKey => ReceiptsOf(x.assistant, x.key)' = {}
  <2> SUFFICES ASSUME x.at = "select", x.key # NoKey PROVE ReceiptsOf(x.assistant, x.key)' = {}
    OBVIOUS
  <2>1. keyLock[<<x.assistant, x.key>>] = u /\ ReceiptsOf(x.assistant, x.key) = {}
    BY <1>1, <1>3 DEF HoldsLocks, FindingsHold
  <2>2. \A y \in receipts' : y.assistant = x.assistant => y.key # x.key
    BY <2>1 DEF Spares, ReceiptsOf
  <2> QED
    BY <2>2 DEF ReceiptsOf
<1>10. FindingsHold(u)'
  BY <1>1, <1>3, <1>6, <1>7, <1>8, <1>9 DEF FindingsHold
<1> QED
  BY <1>2, <1>10

\* A write that ends a request.
LEMMA WriterKeeps ==
  ASSUME SourcesInv, TypeInv', NEW t \in Threads, Return(t),
         \A u \in Threads \ {t} : Spares(t, u),
         \A s \in Sources : StateAgrees(s)',
         \A j \in Jobs : JobHasSource(j)',
         SourcesDistinct', JobKeysDistinct', ReceiptsDistinct',
         \A x \in receipts' : ReceiptSound(x)',
         AnswerInv'
  PROVE  SourcesInv'
<1>1. OthersKept(t) /\ HoldsLocks(t)' /\ FindingsHold(t)'
  BY ReturnKeeps DEF SourcesInv
<1>2. \A u \in Threads : HoldsLocks(u)' /\ FindingsHold(u)'
  <2>1. ASSUME NEW u \in Threads \ {t} PROVE HoldsLocks(u)' /\ FindingsHold(u)'
    BY <1>1, ThreadSpared
  <2> QED
    BY <1>1, <2>1
<1> QED
  BY <1>2 DEF SourcesInv, LockInv, RowInv

\* Rows that stay as they are keep the answers that name them sound.
LEMMA AnswersStay ==
  ASSUME NEW x, AnswerSound(x),
         \A s \in Sources : Live(s) /\ x.named = s => sources'[s] = sources[s],
         \A j \in Jobs : Exists(j) /\ x.named = j => jobs'[j] = jobs[j],
         \A y \in receipts : y.job = x.named => y \in receipts'
  PROVE  AnswerSound(x)'
<1>1. CASE x.op = "create" /\ x.named \in Sources /\ Live(x.named)
           /\ sources[x.named].assistant = x.scope
           /\ sources[x.named].body.url = x.request.url
           /\ (x.request.url = NoUrl => sources[x.named].key = x.key)
  BY <1>1 DEF AnswerSound, Live
<1>2. CASE x.op = "reingest" /\
           [assistant |-> x.scope, key |-> x.key, source |-> x.request, job |-> x.named]
              \in receipts
  BY <1>2 DEF AnswerSound
<1>3. CASE x.op = "post" /\ x.named \in Jobs /\ Exists(x.named) /\ jobs[x.named].key = x.key
  BY <1>3 DEF AnswerSound, Exists
<1> QED
  BY <1>1, <1>2, <1>3 DEF AnswerSound

\* A source, its document and its first job are inserted.
LEMMA InsertSourceKeeps ==
  ASSUME SourcesInv, TypeInv', NEW t \in Threads, InsertSource(t), ~UNCHANGED tables
  PROVE  SourcesInv'
<1>1. TypeInv
  BY DEF SourcesInv
<1>2. PICK r : r = thread[t] /\ r \in CreateStates
  BY <1>1, ThreadFields DEF InsertSource
<1>3. ~UniqueViolation(r.assistant, r.key, r.body)
  BY <1>2 DEF InsertSource
<1>4. PICK s \in Sources, j \in Jobs :
         /\ sources[s] = None /\ jobs[j] = None
         /\ sources' = [sources EXCEPT ![s] = [assistant |-> r.assistant, body |-> r.body,
                                               key |-> r.key, state |-> "enabled"]]
         /\ documents' = [documents EXCEPT ![s] = "enabled"]
         /\ jobs' = [jobs EXCEPT ![j] = NewJob(s, NoKey, "source")]
         /\ Answer(t, "create", r.assistant, r.key, r.body, s)
         /\ UNCHANGED <<receipts, results>>
  BY <1>2, <1>3 DEF InsertSource
<1>5. PICK row : row = [assistant |-> r.assistant, body |-> r.body, key |-> r.key,
                        state |-> "enabled"]
  OBVIOUS
<1>6. PICK job : job = NewJob(s, NoKey, "source")
  OBVIOUS
<1>7. /\ row \in SourceRows /\ row.assistant = r.assistant /\ row.body = r.body
      /\ row.key = r.key /\ row.state = "enabled" /\ row \notin {None, Gone}
      /\ job \in JobRows /\ job.source = s /\ job.key = NoKey /\ job \notin {None, Gone}
  BY <1>2, <1>5, <1>6, NewJobTyped, SourcesAssumption
     DEF CreateStates, SourceRows, States, KeyOrNone
<1>8. /\ sources'[s] = row /\ documents'[s] = "enabled" /\ jobs'[j] = job
      /\ \A z \in Sources \ {s} : sources'[z] = sources[z] /\ documents'[z] = documents[z]
      /\ \A i \in Jobs \ {j} : jobs'[i] = jobs[i]
      /\ ~Live(s) /\ ~Exists(j) /\ receipts' = receipts
  BY <1>1, <1>4, <1>5, <1>6 DEF TypeInv, TypeOK, Live, Exists
<1>9. /\ \A z \in Sources : Live(z) => Live(z)'
      /\ \A i \in Jobs : Exists(i) => Exists(i)' /\ jobs'[i] = jobs[i]
  BY <1>7, <1>8 DEF Live, Exists
<1>10. ASSUME NEW u \in Threads \ {t} PROVE Spares(t, u)
  <2>1. ASSUME NEW z \in Sources, Live(z), Quiet(z) PROVE Quiet(z)'
    BY <1>7, <1>8, <2>1 DEF Quiet, IsActive, Exists, QueuedBySource
  <2> QED
    BY <1>8, <1>9, <2>1 DEF Spares
<1>11. \A z \in Sources : StateAgrees(z)'
  BY <1>7, <1>8 DEF StateAgrees, Live, SourcesInv, RowInv
<1>12. \A i \in Jobs : JobHasSource(i)'
  BY <1>1, <1>7, <1>8, <1>9, RowFields DEF JobHasSource, Live, Exists, SourcesInv, RowInv
<1>13. SourcesDistinct'
  BY <1>3, <1>7, <1>8
     DEF SourcesDistinct, UniqueViolation, FindCreation, FindByUrl, Live, SourcesInv, RowInv
<1>14. JobKeysDistinct'
  BY <1>7, <1>8 DEF JobKeysDistinct, Exists, SourcesInv, RowInv
<1>15. ReceiptsDistinct' /\ \A x \in receipts' : ReceiptSound(x)'
  BY <1>1, <1>8, <1>9, RowFields DEF ReceiptsDistinct, ReceiptSound, SourcesInv, RowInv
<1>16. AnswerInv'
  <2>1. ASSUME NEW x \in answers PROVE x.key # NoKey /\ AnswerSound(x)'
    BY <1>8, <1>9, AnswersStay DEF SourcesInv, AnswerInv
  <2>2. PICK y : y = [op |-> "create", scope |-> r.assistant, key |-> r.key,
                      request |-> r.body, named |-> s]
    OBVIOUS
  <2>3. AnswerSound(y)'
    BY <1>7, <1>8, <2>2 DEF AnswerSound, Live
  <2>4. answers' = IF r.key = NoKey THEN answers ELSE answers \union {y}
    BY <1>4, <2>2 DEF Answer
  <2> QED
    BY <2>1, <2>2, <2>3, <2>4 DEF AnswerInv
<1>17. Return(t)
  BY <1>4 DEF Answer
<1> QED
  BY <1>10, <1>11, <1>12, <1>13, <1>14, <1>15, <1>16, <1>17, WriterKeeps

\* A re-ingestion is queued, or an active job of the source taken for it.
LEMMA QueueKeeps ==
  ASSUME SourcesInv, TypeInv', NEW t \in Threads, QueueReingestion(t)
  PROVE  SourcesInv'
<1>1. TypeInv
  BY DEF SourcesInv
<1>2. PICK r : r = thread[t] /\ r \in SelectStates /\ r.at = "select"
  BY <1>1, ThreadFields DEF QueueReingestion
<1>3. /\ r.source \in Sources /\ Live(r.source) /\ rowLock[r.source] = t
      /\ r.key # NoKey =>
            /\ <<r.assistant, r.key>> \in Locks
            /\ keyLock[<<r.assistant, r.key>>] = t
            /\ ReceiptsOf(r.assistant, r.key) = {}
      /\ r.job = NoJob => Quiet(r.source)
      /\ r.job # NoJob => r.job \in Jobs /\ Exists(r.job) /\ jobs[r.job].source = r.source
  BY <1>2 DEF SourcesInv, LockInv, HoldsLocks, RowInv, FindingsHold, SelectStates, KeyOrNone, Locks
<1>4. PICK j \in Jobs :
         /\ r.job = NoJob => jobs[j] = None
         /\ r.job # NoJob => j = r.job
         /\ jobs' = IF r.job = NoJob THEN [jobs EXCEPT ![j] = NewJob(r.source, NoKey, "source")]
                    ELSE jobs
         /\ receipts' = IF r.key = NoKey THEN receipts
                        ELSE receipts \union {[assistant |-> r.assistant, key |-> r.key,
                                               source |-> r.source, job |-> j]}
         /\ Answer(t, "reingest", r.assistant, r.key, r.source, j)
  <2>1. CASE r.job = NoJob
    BY <1>2, <2>1 DEF QueueReingestion
  <2>2. CASE r.job # NoJob
    BY <1>2, <1>3, <2>2 DEF QueueReingestion
  <2> QED
    BY <2>1, <2>2
<1>5. PICK job : job = NewJob(r.source, NoKey, "source")
  OBVIOUS
<1>6. job \in JobRows /\ job.source = r.source /\ job.key = NoKey /\ job \notin {None, Gone}
  BY <1>3, <1>5, NewJobTyped, SourcesAssumption DEF KeyOrNone
<1>7. /\ \A i \in Jobs \ {j} : jobs'[i] = jobs[i]
      /\ \/ jobs'[j] = job /\ ~Exists(j)
         \/ jobs'[j] = jobs[j]
      /\ Exists(j)' /\ jobs'[j].source = r.source
  BY <1>1, <1>3, <1>4, <1>5, <1>6 DEF TypeInv, TypeOK, Exists
<1>8. \A i \in Jobs : Exists(i) => Exists(i)' /\ jobs'[i] = jobs[i]
  BY <1>7 DEF Exists
<1>9. UNCHANGED <<sources, documents>> /\ \A z \in Sources : Live(z)' <=> Live(z)
  BY DEF QueueReingestion, Live
<1>10. PICK receipt : receipt = [assistant |-> r.assistant, key |-> r.key,
                                 source |-> r.source, job |-> j]
  OBVIOUS
<1>11. /\ receipts' = IF r.key = NoKey THEN receipts ELSE receipts \union {receipt}
       /\ receipt.assistant = r.assistant /\ receipt.key = r.key
       /\ receipt.source = r.source /\ receipt.job = j
  BY <1>4, <1>10
<1>12. ASSUME NEW u \in Threads \ {t} PROVE Spares(t, u)
  <2>1. ASSUME NEW z \in Sources, rowLock[z] = u, Quiet(z) PROVE Quiet(z)'
    <3>1. z # r.source
      BY <1>3, <2>1
    <3> QED
      BY <1>6, <1>7, <2>1, <3>1 DEF Quiet, IsActive, Exists, QueuedBySource
  <2>2. \A x \in receipts' \ receipts :
           <<x.assistant, x.key>> \in Locks /\ keyLock[<<x.assistant, x.key>>] # u
    BY <1>3, <1>11
  <2> QED
    BY <1>8, <1>9, <2>1, <2>2 DEF Spares
<1>13. \A z \in Sources : StateAgrees(z)'
  BY <1>9 DEF StateAgrees, Live, SourcesInv, RowInv
<1>14. \A i \in Jobs : JobHasSource(i)'
  BY <1>3, <1>6, <1>7, <1>9 DEF JobHasSource, Live, Exists, SourcesInv, RowInv
<1>15. SourcesDistinct'
  BY <1>9 DEF SourcesDistinct, Live, SourcesInv, RowInv
<1>16. JobKeysDistinct'
  BY <1>6, <1>7 DEF JobKeysDistinct, Exists, SourcesInv, RowInv
<1>17. ReceiptsDistinct'
  BY <1>3, <1>11 DEF ReceiptsDistinct, ReceiptsOf, SourcesInv, RowInv
<1>18. \A x \in receipts' : ReceiptSound(x)'
  <2>1. ReceiptSound(receipt)'
    BY <1>7, <1>11 DEF ReceiptSound
  <2>2. ASSUME NEW x \in receipts PROVE ReceiptSound(x)'
    BY <1>1, <1>8, RowFields DEF ReceiptSound, SourcesInv, RowInv
  <2> QED
    BY <1>11, <2>1, <2>2
<1>19. AnswerInv'
  <2>1. ASSUME NEW x \in answers PROVE x.key # NoKey /\ AnswerSound(x)'
    BY <1>8, <1>9, <1>11, AnswersStay DEF SourcesInv, AnswerInv
  <2>2. PICK y : y = [op |-> "reingest", scope |-> r.assistant, key |-> r.key,
                      request |-> r.source, named |-> j]
    OBVIOUS
  <2>3. r.key # NoKey => AnswerSound(y)'
    BY <1>10, <1>11, <2>2 DEF AnswerSound
  <2>4. answers' = IF r.key = NoKey THEN answers ELSE answers \union {y}
    BY <1>4, <2>2 DEF Answer
  <2> QED
    BY <2>1, <2>2, <2>3, <2>4 DEF AnswerInv
<1>20. Return(t)
  BY <1>4 DEF Answer
<1> QED
  BY <1>12, <1>13, <1>14, <1>15, <1>16, <1>17, <1>18, <1>19, <1>20, WriterKeeps

\* A document is deleted, with its source, jobs and receipts.
LEMMA DeleteKeeps ==
  ASSUME SourcesInv, TypeInv', NEW t \in Threads, DeleteDocument(t), ~UNCHANGED tables
  PROVE  SourcesInv'
<1>1. TypeInv
  BY DEF SourcesInv
<1>2. PICK s \in Sources : s = thread[t].source
  BY <1>1, ThreadFields DEF DeleteDocument, DeleteStates
<1>3. rowLock[s] = t
  BY <1>2 DEF DeleteDocument, SourcesInv, LockInv, HoldsLocks
<1>4. /\ sources' = [sources EXCEPT ![s] = Gone]
      /\ documents' = [documents EXCEPT ![s] = Gone]
      /\ jobs' = [j \in Jobs |-> IF j \in JobsOf(s) THEN Gone ELSE jobs[j]]
      /\ receipts' = {x \in receipts : x.source # s}
      /\ Return(t)
      /\ answers' = {x \in answers : x.named \notin JobsOf(s) \union {s}}
  BY <1>2 DEF DeleteDocument
<1>5. /\ ~Live(s)'
      /\ \A z \in Sources \ {s} :
            sources'[z] = sources[z] /\ documents'[z] = documents[z] /\ (Live(z)' <=> Live(z))
      /\ \A j \in Jobs : Exists(j)' <=> Exists(j) /\ jobs[j].source # s
      /\ \A j \in Jobs : Exists(j)' => jobs'[j] = jobs[j]
  BY <1>1, <1>4 DEF TypeInv, TypeOK, Live, Exists, JobsOf
<1>6. ASSUME NEW u \in Threads \ {t} PROVE Spares(t, u)
  <2>1. ASSUME NEW z \in Sources, Quiet(z) PROVE Quiet(z)'
    BY <1>5, <2>1 DEF Quiet, IsActive, QueuedBySource
  <2>2. receipts' \ receipts = {}
    BY <1>4
  <2> QED
    BY <1>3, <1>5, <2>1, <2>2 DEF Spares
<1>7. \A z \in Sources : StateAgrees(z)'
  BY <1>5 DEF StateAgrees, SourcesInv, RowInv
<1>8. \A j \in Jobs : JobHasSource(j)'
  BY <1>1, <1>5, RowFields DEF JobHasSource, SourcesInv, RowInv
<1>9. SourcesDistinct' /\ JobKeysDistinct'
  BY <1>5 DEF SourcesDistinct, JobKeysDistinct, SourcesInv, RowInv
<1>10. ReceiptsDistinct' /\ \A x \in receipts' : ReceiptSound(x)'
  BY <1>1, <1>4, <1>5, RowFields DEF ReceiptsDistinct, ReceiptSound, SourcesInv, RowInv
<1>11. AnswerInv'
  <2>1. ASSUME NEW x \in answers, x.named \notin JobsOf(s) \union {s}
        PROVE  x.key # NoKey /\ AnswerSound(x)'
    <3>1. x.key # NoKey /\ AnswerSound(x)
      BY DEF SourcesInv, AnswerInv
    <3>2. \A z \in Sources : Live(z) /\ x.named = z => sources'[z] = sources[z]
      BY <1>5, <2>1
    <3>3. \A j \in Jobs : Exists(j) /\ x.named = j => jobs'[j] = jobs[j]
      BY <1>5, <2>1 DEF JobsOf
    <3>4. \A y \in receipts : y.job = x.named => y \in receipts'
      BY <1>1, <1>4, <2>1, RowFields DEF JobsOf, ReceiptSound, SourcesInv, RowInv
    <3> QED
      BY <3>1, <3>2, <3>3, <3>4, AnswersStay
  <2> QED
    BY <1>4, <2>1 DEF AnswerInv
<1> QED
  BY <1>4, <1>6, <1>7, <1>8, <1>9, <1>10, <1>11, WriterKeeps

\* POST /ingestion/jobs inserts a job under a key nobody else has.
LEMMA InsertJobKeeps ==
  ASSUME SourcesInv, TypeInv', NEW t \in Threads, InsertJob(t), ~UNCHANGED tables
  PROVE  SourcesInv'
<1>1. TypeInv
  BY DEF SourcesInv
<1>2. PICK r : r = thread[t] /\ r \in PostStates
  BY <1>1, ThreadFields DEF InsertJob
<1>3. PICK j \in Jobs :
         /\ Live(r.source) /\ JobWithKey(r.key) = {}
         /\ jobs[j] = None
         /\ jobs' = [jobs EXCEPT ![j] = NewJob(r.source, r.key, "post")]
         /\ Answer(t, "post", "jobs", r.key, r.source, j)
         /\ UNCHANGED <<sources, documents, receipts, results>>
  BY <1>2 DEF InsertJob
<1>4. PICK job : job = NewJob(r.source, r.key, "post")
  OBVIOUS
<1>5. /\ job \in JobRows /\ job.source = r.source /\ job.key = r.key /\ job.origin = "post"
      /\ job \notin {None, Gone} /\ r.source \in Sources
  BY <1>2, <1>4, NewJobTyped, SourcesAssumption DEF PostStates
<1>6. /\ jobs'[j] = job /\ ~Exists(j) /\ Exists(j)'
      /\ \A i \in Jobs \ {j} : jobs'[i] = jobs[i] /\ (Exists(i)' <=> Exists(i))
      /\ \A z \in Sources : Live(z)' <=> Live(z)
  BY <1>1, <1>3, <1>4, <1>5 DEF TypeInv, TypeOK, Exists, Live
<1>7. ASSUME NEW u \in Threads \ {t} PROVE Spares(t, u)
  <2>1. ASSUME NEW z \in Sources, Quiet(z) PROVE Quiet(z)'
    BY <1>5, <1>6, <2>1 DEF Quiet, IsActive, QueuedBySource
  <2> QED
    BY <1>3, <1>6, <2>1 DEF Spares
<1>8. \A z \in Sources : StateAgrees(z)'
  BY <1>3, <1>6 DEF StateAgrees, SourcesInv, RowInv
<1>9. \A i \in Jobs : JobHasSource(i)'
  BY <1>1, <1>3, <1>5, <1>6, RowFields DEF JobHasSource, SourcesInv, RowInv
<1>10. SourcesDistinct'
  BY <1>3, <1>6 DEF SourcesDistinct, SourcesInv, RowInv
<1>11. JobKeysDistinct'
  BY <1>3, <1>5, <1>6 DEF JobKeysDistinct, JobWithKey, SourcesInv, RowInv
<1>12. ReceiptsDistinct' /\ \A x \in receipts' : ReceiptSound(x)'
  BY <1>1, <1>3, <1>6, RowFields DEF ReceiptsDistinct, ReceiptSound, SourcesInv, RowInv
<1>13. AnswerInv'
  <2>1. ASSUME NEW x \in answers PROVE x.key # NoKey /\ AnswerSound(x)'
    BY <1>3, <1>6, AnswersStay DEF SourcesInv, AnswerInv
  <2>2. PICK y : y = [op |-> "post", scope |-> "jobs", key |-> r.key,
                      request |-> r.source, named |-> j]
    OBVIOUS
  <2>3. AnswerSound(y)'
    BY <1>5, <1>6, <2>2 DEF AnswerSound
  <2>4. answers' = IF r.key = NoKey THEN answers ELSE answers \union {y}
    BY <1>3, <2>2 DEF Answer
  <2> QED
    BY <2>1, <2>2, <2>3, <2>4 DEF AnswerInv
<1>14. Return(t)
  BY <1>3 DEF Answer
<1> QED
  BY <1>7, <1>8, <1>9, <1>10, <1>11, <1>12, <1>13, <1>14, WriterKeeps

\* A step of nobody's request: rows keep their identity, and no job becomes active.
LEMMA BackgroundKeeps ==
  ASSUME SourcesInv, TypeInv', UNCHANGED requestVars, UNCHANGED receipts,
         \A s \in Sources :
            /\ Live(s)' <=> Live(s)
            /\ Live(s) => /\ sources'[s].assistant = sources[s].assistant
                          /\ sources'[s].body = sources[s].body
                          /\ sources'[s].key = sources[s].key
                          /\ StateAgrees(s)',
         \A j \in Jobs :
            /\ Exists(j)' <=> Exists(j)
            /\ Exists(j) => /\ jobs'[j].source = jobs[j].source
                            /\ jobs'[j].key = jobs[j].key
                            /\ jobs'[j].origin = jobs[j].origin
            /\ IsActive(j)' => IsActive(j)
  PROVE  SourcesInv'
<1>1. UNCHANGED <<thread, rowLock, keyLock, answers>> /\ TypeInv
  BY DEF requestVars, SourcesInv
<1>2. ASSUME NEW z \in Sources, Quiet(z) PROVE Quiet(z)'
  BY <1>2 DEF Quiet, QueuedBySource, IsActive
<1>3. ASSUME NEW u \in Threads PROVE HoldsLocks(u)' /\ FindingsHold(u)'
  <2>1. PICK x : x = thread[u]
    OBVIOUS
  <2>2. /\ x.at \in {"receipt", "select", "delete"} => x.source \in Sources
        /\ x.at = "select" => x.job \in Jobs \union {NoJob}
    BY <1>1, <2>1, ThreadFields DEF ReingestStates, SelectStates, DeleteStates
  <2>3. HoldsLocks(u) /\ FindingsHold(u) /\ thread'[u] = x
    BY <1>1, <2>1 DEF SourcesInv, LockInv, RowInv
  <2>4. HoldsLocks(u)'
    BY <1>1, <2>1, <2>2, <2>3 DEF HoldsLocks
  <2>5. FindingsHold(u)'
    BY <1>2, <2>1, <2>2, <2>3 DEF FindingsHold, ReceiptsOf
  <2> QED
    BY <2>4, <2>5
<1>4. \A s \in Sources : StateAgrees(s)'
  BY DEF StateAgrees
<1>5. \A j \in Jobs : JobHasSource(j)'
  BY <1>1, RowFields DEF JobHasSource, SourcesInv, RowInv
<1>6. SourcesDistinct' /\ JobKeysDistinct'
  BY DEF SourcesDistinct, JobKeysDistinct, SourcesInv, RowInv
<1>7. ReceiptsDistinct' /\ \A x \in receipts' : ReceiptSound(x)'
  BY <1>1, RowFields DEF ReceiptsDistinct, ReceiptSound, SourcesInv, RowInv
<1>8. AnswerInv'
  <2>1. ASSUME NEW x, AnswerSound(x) PROVE AnswerSound(x)'
    BY <2>1 DEF AnswerSound
  <2> QED
    BY <1>1, <2>1 DEF AnswerInv, SourcesInv
<1> QED
  BY <1>3, <1>4, <1>5, <1>6, <1>7, <1>8 DEF SourcesInv, LockInv, RowInv

\* PATCH, and the worker.
LEMMA BackgroundStep ==
  ASSUME SourcesInv, TypeInv',
         \/ \E s \in Sources, state \in States : UpdateRetrievalState(s, state)
         \/ \E j \in Jobs : StartJob(j) \/ CommitJob(j) \/ EndJob(j)
  PROVE  SourcesInv'
<1>1. TypeInv /\ \A z \in Sources : StateAgrees(z)
  BY DEF SourcesInv, RowInv
<1>2. ASSUME NEW s \in Sources, NEW state \in States, UpdateRetrievalState(s, state)
      PROVE  SourcesInv'
  <2>1. PICK row : row = [sources[s] EXCEPT !.state = state]
    OBVIOUS
  <2>2. sources[s] \in SourceRows /\ Live(s)
    BY <1>1, <1>2, RowFields DEF UpdateRetrievalState
  <2>3. /\ row \in SourceRows /\ row.assistant = sources[s].assistant
        /\ row.body = sources[s].body /\ row.key = sources[s].key /\ row.state = state
    BY <2>1, <2>2 DEF SourceRows
  <2>4. /\ sources'[s] = row /\ documents'[s] = state
        /\ \A z \in Sources \ {s} : sources'[z] = sources[z] /\ documents'[z] = documents[z]
        /\ UNCHANGED <<jobs, receipts, requestVars>>
    BY <1>1, <1>2, <2>1 DEF UpdateRetrievalState, TypeInv, TypeOK
  <2>5. \A z \in Sources :
           /\ Live(z)' <=> Live(z)
           /\ Live(z) => /\ sources'[z].assistant = sources[z].assistant
                         /\ sources'[z].body = sources[z].body
                         /\ sources'[z].key = sources[z].key
                         /\ StateAgrees(z)'
    BY <1>1, <2>2, <2>3, <2>4, SourcesAssumption DEF Live, StateAgrees
  <2> QED
    BY <2>4, <2>5, BackgroundKeeps DEF Exists, IsActive
<1>3. ASSUME NEW j \in Jobs, StartJob(j) \/ EndJob(j) PROVE SourcesInv'
  <2>1. /\ Exists(j) /\ IsActive(j)
        /\ \E status \in Statuses : SetStatus(j, status)
        /\ UNCHANGED <<sources, documents, receipts, requestVars>>
    BY <1>3 DEF StartJob, EndJob, Statuses, IsActive
  <2>2. PICK status : SetStatus(j, status) /\ status \in Statuses
    BY <2>1
  <2>3. /\ jobs'[j] \in JobRows /\ jobs'[j] = [jobs[j] EXCEPT !.status = status]
        /\ \A i \in Jobs \ {j} : jobs'[i] = jobs[i]
    BY <1>1, <2>1, <2>2, StatusTyped
  <2>4. jobs[j] \in JobRows
    BY <1>1, <2>1, RowFields
  <2>5. /\ jobs'[j].source = jobs[j].source /\ jobs'[j].key = jobs[j].key
        /\ jobs'[j].origin = jobs[j].origin
    BY <2>3, <2>4 DEF JobRows
  <2>6. \A i \in Jobs :
           /\ Exists(i)' <=> Exists(i)
           /\ Exists(i) => /\ jobs'[i].source = jobs[i].source
                           /\ jobs'[i].key = jobs[i].key
                           /\ jobs'[i].origin = jobs[i].origin
           /\ IsActive(i)' => IsActive(i)
    BY <2>1, <2>3, <2>5, SourcesAssumption DEF Exists, IsActive
  <2> QED
    BY <1>1, <2>1, <2>6, BackgroundKeeps DEF Live, StateAgrees
<1>4. ASSUME NEW j \in Jobs, CommitJob(j) PROVE SourcesInv'
  <2>1. UNCHANGED <<sources, jobs, receipts, requestVars>>
    BY <1>4 DEF CommitJob
  <2>2. \A z \in Sources : documents'[z] = documents[z]
    BY <1>1, <1>4 DEF CommitJob, CommittedState, TypeInv, TypeOK
  <2>3. \A z \in Sources : StateAgrees(z)'
    BY <1>1, <2>1, <2>2 DEF StateAgrees, Live
  <2> QED
    BY <2>1, <2>3, BackgroundKeeps DEF Live, Exists, IsActive
<1> QED
  BY <1>2, <1>3, <1>4


-----------------------------------------------------------------------------
(* The invariant holds, and what follows from it                           *)

\* At the start there is nothing but at most one source.
LEMMA SourcesInit == Init => SourcesInv
<1> SUFFICES ASSUME Init PROVE SourcesInv
  OBVIOUS
<1>1. /\ jobs = [j \in Jobs |-> None] /\ receipts = {} /\ results = {} /\ answers = {}
      /\ thread = [t \in Threads |-> Idle]
      /\ rowLock = [s \in Sources |-> Free] /\ keyLock = [k \in Locks |-> Free]
      /\ documents = [s \in Sources |-> IF sources[s] = None THEN None ELSE sources[s].state]
  BY DEF Init, Locks
<1>2. PICK x : /\ sources \in [Sources -> SourceRows \union {None}]
               /\ \A s \in Sources : sources[s] # None =>
                     /\ s = x /\ sources[s] \in SourceRows
                     /\ sources[s].state = "enabled" /\ sources[s].key = NoKey
  <2>1. CASE sources = [s \in Sources |-> None]
    BY <2>1
  <2>2. CASE sources \in EarlierRows
    <3>1. PICK x \in Sources, a \in Assistants, b \in Bodies :
             sources = [s \in Sources |-> IF s = x THEN EarlierRow(a, b) ELSE None]
      BY <2>2 DEF EarlierRows
    <3>2. PICK row : row = EarlierRow(a, b)
      OBVIOUS
    <3>3. row \in SourceRows /\ row.state = "enabled" /\ row.key = NoKey
      BY <3>2 DEF EarlierRow, SourceRows, States, KeyOrNone
    <3> QED
      BY <3>1, <3>2, <3>3
  <2> QED
    BY <2>1, <2>2 DEF Init
<1>3. documents \in [Sources -> States \union {None, Gone}]
  BY <1>1, <1>2 DEF SourceRows
<1>4. TypeInv
  BY <1>1, <1>2, <1>3 DEF TypeInv, TypeOK, Locks
<1>5. LockInv /\ \A t \in Threads : FindingsHold(t)
  BY <1>1 DEF LockInv, HoldsLocks, FindingsHold, Idle
<1>6. (\A j \in Jobs : JobHasSource(j)) /\ JobKeysDistinct
  BY <1>1 DEF JobHasSource, JobKeysDistinct, Exists
<1>7. (\A s \in Sources : StateAgrees(s)) /\ SourcesDistinct
  BY <1>1, <1>2 DEF StateAgrees, SourcesDistinct, Live
<1> QED
  BY <1>1, <1>4, <1>5, <1>6, <1>7 DEF SourcesInv, RowInv, ReceiptsDistinct, AnswerInv

\* A step of a request keeps the invariant.
LEMMA RequestStep ==
  ASSUME SourcesInv, TypeInv', NEW t \in Threads,
         CreateSource(t) \/ Reingest(t) \/ Delete(t) \/ PostJob(t)
  PROVE  SourcesInv'
<1>1. CASE CreateSource(t)
  <2>1. CASE UNCHANGED tables
    BY <1>1, <2>1, CreateReads
  <2>2. CASE ~UNCHANGED tables
    BY <1>1, <2>2, InsertSourceKeeps
       DEF CreateSource, RequestCreation, ResolveByKey, ResolveByUrl
  <2> QED
    BY <2>1, <2>2
<1>2. CASE Reingest(t)
  <2>1. CASE QueueReingestion(t)
    BY <2>1, QueueKeeps
  <2>2. CASE ~QueueReingestion(t)
    <3>1. UNCHANGED tables
      BY <1>2, <2>2 DEF Reingest, RequestReingestion, LockSource, CheckReceipt
    <3> QED
      BY <1>2, <2>2, <3>1, ReingestReads DEF Reingest
  <2> QED
    BY <2>1, <2>2
<1>3. CASE \E s \in Sources : CheckDeletion(t, s)
  <2>1. UNCHANGED tables
    BY <1>3 DEF CheckDeletion
  <2> QED
    BY <1>3, <2>1, OtherReads
<1>4. CASE DeleteDocument(t)
  <2>1. CASE UNCHANGED tables
    <3>1. PICK s \in Sources : s = thread[t].source /\ Live(s)
      BY <1>4, ThreadFields
         DEF DeleteDocument, DeleteStates, SourcesInv, LockInv, HoldsLocks
    <3>2. sources' # [sources EXCEPT ![s] = Gone]
      BY <2>1, <3>1 DEF tables, Live, SourcesInv, TypeInv, TypeOK
    <3>3. Reject(t)
      BY <1>4, <3>1, <3>2 DEF DeleteDocument
    <3> QED
      BY <2>1, <3>3, OtherReads
  <2>2. CASE ~UNCHANGED tables
    BY <1>4, <2>2, DeleteKeeps
  <2> QED
    BY <2>1, <2>2
<1>5. CASE \E s \in Sources, k \in PostKeys : RequestJob(t, s, k)
  <2>1. UNCHANGED tables
    BY <1>5 DEF RequestJob
  <2> QED
    BY <1>5, <2>1, OtherReads
<1>6. CASE InsertJob(t)
  <2>1. CASE UNCHANGED tables
    <3>1. ASSUME NEW j \in Jobs, jobs[j] = None
          PROVE  jobs' # [jobs EXCEPT ![j] = NewJob(thread[t].source, thread[t].key, "post")]
      <4>1. PICK r \in PostStates : r = thread[t]
        BY <1>6, ThreadFields DEF InsertJob, SourcesInv
      <4>2. NewJob(r.source, r.key, "post") \notin {None, Gone}
        BY <4>1, NewJobTyped, SourcesAssumption DEF PostStates
      <4> QED
        BY <2>1, <3>1, <4>1, <4>2 DEF tables, SourcesInv, TypeInv, TypeOK
    <3>2. Reject(t) \/ Resolve(t, thread[t].source, thread[t].key, JobWithKey(thread[t].key))
      BY <1>6, <3>1 DEF InsertJob
    <3> QED
      BY <2>1, <3>2, OtherReads
  <2>2. CASE ~UNCHANGED tables
    BY <1>6, <2>2, InsertJobKeeps
  <2> QED
    BY <2>1, <2>2
<1> QED
  BY <1>1, <1>2, <1>3, <1>4, <1>5, <1>6 DEF Delete, PostJob

\* Every step keeps the invariant.
LEMMA SourcesStep == SourcesInv /\ [Next]_sourcesVars => SourcesInv'
<1> SUFFICES ASSUME SourcesInv, [Next]_sourcesVars PROVE SourcesInv'
  OBVIOUS
<1>1. TypeInv'
  BY TypeStep DEF SourcesInv
<1>2. CASE UNCHANGED sourcesVars
  <2>1. /\ UNCHANGED <<sources, documents, jobs, receipts, requestVars>>
        /\ \A s \in Sources : StateAgrees(s)
    BY <1>2 DEF sourcesVars, tables, SourcesInv, RowInv
  <2> QED
    BY <1>1, <2>1, BackgroundKeeps DEF StateAgrees, Live, Exists, IsActive
<1> QED
  BY <1>1, <1>2, RequestStep, BackgroundStep DEF Next

\* The invariant holds of every behaviour.
THEOREM SourcesInvariant == Spec => []SourcesInv
  BY SourcesInit, SourcesStep, PTL DEF Spec

\* What an administrator set on a source is what retrieval reads on its document:
\* creation, PATCH and deletion write both rows in one transaction, and the
\* persistence transaction of an ingestion leaves the column alone.
THEOREM StateReachesRetrieval == Spec => []RetrievalAgrees
<1>1. SourcesInv => RetrievalAgrees
  BY DEF SourcesInv, TypeInv, RowInv, RetrievalAgrees, StateAgrees
<1> QED
  BY <1>1, SourcesInvariant, PTL

\* Requests that repeat a key are answered alike: the two unique indexes of the
\* sources, the receipts under the key's advisory lock and the unique key of the
\* jobs each leave one row that an answer can name.
THEOREM RepeatedRequestsAgree == Spec => []KeyedAnswersAgree
<1>1. SourcesInv => KeyedAnswersAgree
  <2> SUFFICES ASSUME SourcesInv, NEW x \in answers, NEW y \in answers,
                      x.op = y.op, x.scope = y.scope, x.key = y.key, x.request = y.request
               PROVE  x.named = y.named
    BY DEF KeyedAnswersAgree
  <2>1. /\ x.key # NoKey /\ AnswerSound(x) /\ AnswerSound(y)
        /\ SourcesDistinct /\ JobKeysDistinct /\ ReceiptsDistinct
    BY DEF SourcesInv, AnswerInv, RowInv
  <2>2. CASE x.op = "create"
    BY <2>1, <2>2 DEF AnswerSound, SourcesDistinct
  <2>3. CASE x.op = "reingest"
    <3>1. PICK a, b : /\ a = [assistant |-> x.scope, key |-> x.key, source |-> x.request,
                              job |-> x.named]
                      /\ b = [assistant |-> y.scope, key |-> y.key, source |-> y.request,
                              job |-> y.named]
      OBVIOUS
    <3>2. a \in receipts /\ b \in receipts
      BY <2>1, <2>3, <3>1 DEF AnswerSound
    <3>3. a = b
      BY <2>1, <3>1, <3>2 DEF ReceiptsDistinct
    <3> QED
      BY <3>1, <3>3
  <2>4. CASE x.op = "post"
    BY <2>1, <2>4 DEF AnswerSound, JobKeysDistinct
  <2> QED
    BY <2>1, <2>2, <2>3, <2>4 DEF AnswerSound
<1> QED
  BY <1>1, SourcesInvariant, PTL

-----------------------------------------------------------------------------
(* A job that a source has queued                                          *)

SourceJobKept ==
    \A j \in Jobs : IsActive(j) /\ QueuedBySource(j) =>
        /\ jobs'[j] # Gone
        /\ \A i \in Jobs : ~Exists(i) /\ QueuedBySource(i)' => jobs'[i].source # jobs[j].source

\* A step that deletes no job and queues none for a source keeps them.
LEMMA SourceJobUndisturbed ==
  ASSUME \A j \in Jobs : Exists(j) => jobs'[j] # Gone,
         \A i \in Jobs : ~Exists(i) => ~QueuedBySource(i)'
  PROVE  SourceJobKept
  BY DEF SourceJobKept, IsActive

\* While a job that creation or re-ingestion has queued is active, neither queues
\* another for its source and no deletion removes it: both look for it under the
\* row lock that they hold until they commit, and a new source has no jobs.
THEOREM ActiveJobsKept == Spec => ActiveSourceJobKept
<1>1. ASSUME SourcesInv, [Next]_sourcesVars PROVE SourceJobKept
  <2>1. TypeInv
    BY <1>1 DEF SourcesInv
  <2>2. CASE UNCHANGED jobs
    BY <2>2, SourceJobUndisturbed DEF Exists, QueuedBySource
  <2>3. ASSUME NEW t \in Threads, InsertSource(t), ~UNCHANGED jobs PROVE SourceJobKept
    <3>1. PICK s \in Sources, j \in Jobs :
             sources[s] = None /\ jobs[j] = None
             /\ jobs' = [jobs EXCEPT ![j] = NewJob(s, NoKey, "source")]
      BY <2>3 DEF InsertSource, tables
    <3>2. PICK job : job = NewJob(s, NoKey, "source")
      OBVIOUS
    <3>3. job.source = s /\ job \notin {None, Gone}
      BY <3>2, NewJobTyped, SourcesAssumption DEF KeyOrNone
    <3>4. ~Exists(j) /\ jobs'[j] = job /\ \A i \in Jobs \ {j} : jobs'[i] = jobs[i]
      BY <2>1, <3>1, <3>2 DEF Exists, TypeInv, TypeOK
    <3>5. \A i \in Jobs : Exists(i) => jobs[i].source # s
      BY <1>1, <3>1 DEF SourcesInv, RowInv, JobHasSource, Live
    <3> QED
      BY <3>3, <3>4, <3>5 DEF SourceJobKept, IsActive, Exists, QueuedBySource
  <2>4. ASSUME NEW t \in Threads, QueueReingestion(t), ~UNCHANGED jobs PROVE SourceJobKept
    <3>1. PICK r : r = thread[t] /\ r \in SelectStates /\ r.at = "select"
      BY <2>1, <2>4, ThreadFields DEF QueueReingestion
    <3>2. r.job = NoJob /\ Quiet(r.source)
      BY <1>1, <2>4, <3>1 DEF QueueReingestion, SourcesInv, RowInv, FindingsHold
    <3>3. PICK j \in Jobs : /\ jobs[j] = None
                            /\ jobs' = [jobs EXCEPT ![j] = NewJob(r.source, NoKey, "source")]
      BY <2>4, <3>1, <3>2 DEF QueueReingestion
    <3>4. PICK job : job = NewJob(r.source, NoKey, "source")
      OBVIOUS
    <3>5. job.source = r.source /\ job \notin {None, Gone}
      BY <3>1, <3>4, NewJobTyped, SourcesAssumption DEF KeyOrNone, SelectStates
    <3>6. ~Exists(j) /\ jobs'[j] = job /\ \A i \in Jobs \ {j} : jobs'[i] = jobs[i]
      BY <2>1, <3>3, <3>4 DEF Exists, TypeInv, TypeOK
    <3> QED
      BY <3>2, <3>5, <3>6 DEF SourceJobKept, IsActive, Exists, QueuedBySource, Quiet
  <2>5. ASSUME NEW t \in Threads, DeleteDocument(t), ~UNCHANGED jobs PROVE SourceJobKept
    <3>1. PICK s : s = thread[t].source
      OBVIOUS
    <3>2. Quiet(s) /\ jobs' = [j \in Jobs |-> IF j \in JobsOf(s) THEN Gone ELSE jobs[j]]
      BY <1>1, <2>5, <3>1 DEF DeleteDocument, SourcesInv, RowInv, FindingsHold, tables
    <3>3. \A j \in Jobs : /\ Exists(j)' => jobs'[j] = jobs[j] /\ Exists(j)
                          /\ IsActive(j) /\ QueuedBySource(j) => jobs'[j] = jobs[j]
      BY <3>2 DEF Quiet, JobsOf, Exists
    <3> QED
      BY <3>3 DEF SourceJobKept, IsActive, Exists, QueuedBySource
  <2>6. ASSUME NEW t \in Threads, InsertJob(t), ~UNCHANGED jobs PROVE SourceJobKept
    <3>1. PICK r : r = thread[t] /\ r \in PostStates
      BY <2>1, <2>6, ThreadFields DEF InsertJob
    <3>2. PICK j \in Jobs : jobs' = [jobs EXCEPT ![j] = NewJob(r.source, r.key, "post")]
                            /\ jobs[j] = None
      BY <2>6, <3>1 DEF InsertJob, tables
    <3>3. PICK job : job = NewJob(r.source, r.key, "post")
      OBVIOUS
    <3>4. job.origin = "post"
      BY <3>1, <3>3, NewJobTyped DEF PostStates
    <3>5. jobs'[j] = job /\ ~Exists(j) /\ \A i \in Jobs \ {j} : jobs'[i] = jobs[i]
      BY <2>1, <3>2, <3>3 DEF TypeInv, TypeOK, Exists
    <3> QED
      BY <3>4, <3>5, SourceJobUndisturbed DEF Exists, QueuedBySource
  <2>7. ASSUME NEW j \in Jobs, StartJob(j) \/ EndJob(j) PROVE SourceJobKept
    <3>1. Exists(j) /\ \E status \in Statuses : SetStatus(j, status)
      BY <2>7 DEF StartJob, EndJob, Statuses
    <3>2. jobs'[j] \in JobRows /\ \A i \in Jobs \ {j} : jobs'[i] = jobs[i]
      BY <2>1, <3>1, StatusTyped
    <3> QED
      BY <3>1, <3>2, SourcesAssumption, SourceJobUndisturbed DEF Exists, QueuedBySource
  <2>8. ASSUME ~UNCHANGED jobs
        PROVE  \/ \E t \in Threads : \/ InsertSource(t) \/ QueueReingestion(t)
                                     \/ DeleteDocument(t) \/ InsertJob(t)
               \/ \E j \in Jobs : StartJob(j) \/ EndJob(j)
    BY <1>1, <2>8
       DEF Next, CreateSource, Reingest, Delete, PostJob, RequestCreation, ResolveByKey,
           ResolveByUrl, RequestReingestion, LockSource, CheckReceipt, CheckDeletion,
           RequestJob, UpdateRetrievalState, CommitJob, tables, sourcesVars
  <2> QED
    BY <2>2, <2>3, <2>4, <2>5, <2>6, <2>7, <2>8
<1>2. SourcesInv /\ [Next]_sourcesVars => [SourceJobKept]_sourcesVars
  BY <1>1
<1> QED
  BY <1>2, SourcesInvariant, PTL DEF Spec, ActiveSourceJobKept, SourceJobKept
=============================================================================
