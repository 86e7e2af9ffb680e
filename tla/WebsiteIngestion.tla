--------------------------- MODULE WebsiteIngestion ---------------------------
(***************************************************************************)
(* IngestionService.start_ingestion: one request that crawls a site, turns *)
(* its pages into chunks, stores them and keeps a row in ingestion_jobs    *)
(* about it. A call of the repository may raise, before or after its write *)
(* is committed; the service then reads the row again to learn which.      *)
(*                                                                         *)
(* A page that yields chunks is stored with them, and chunks are counted   *)
(* by page. Waiting between attempts takes no step.                        *)
(***************************************************************************)
EXTENDS WebsiteCrawl

CONSTANTS
    NoRow,         \* no row, or one that cannot be read; no answer yet
    Failure,       \* IngestionFailedError
    MaxAttempts,   \* maximum_attempts of the retry policy
    MaxFaults      \* bound on the repository calls that raise

\* IngestionJob
JobRecords ==
    [status : {"pending", "running", "completed", "failed"},
     discovered : Nat, processed : Nat, chunks : Nat]

ASSUME IngestionAssumption ==
    /\ NoRow \notin JobRecords /\ Failure \notin JobRecords \union {NoRow}
    /\ MaxAttempts \in Nat \ {0} /\ MaxFaults \in Nat

VARIABLES
    row,       \* the row of the job in ingestion_jobs
    stored,    \* what the knowledge base has of each page: none, old or new texts
    prepared,  \* what it had when the stage "persisting" was prepared
    stage,     \* what the service does next
    attempt,   \* number of the attempt of the stage
    kept,      \* the crawled pages that yielded chunks
    created,   \* chunks_created of the persistence result
    faults,    \* repository calls that have raised
    answer     \* what the caller got: a job, or Failure

ingestionVars == <<crawlVars, row, stored, prepared, stage, attempt, kept, created, faults, answer>>
workVars == <<stored, prepared, attempt, kept, created>>

Job(status) == [status |-> status, discovered |-> 0, processed |-> 0, chunks |-> 0]

IngestionInit ==
    /\ CrawlInit
    /\ row = NoRow
    /\ \E texts \in {"none", "old", "new"} : stored = [u \in Urls |-> texts]
    /\ prepared = stored
    /\ stage = "creating"
    /\ attempt = 1 /\ kept = {} /\ created = 0 /\ faults = 0
    /\ answer = NoRow

\* The job is written and the service goes on, or the call raises.
Write(job, next, reload) ==
    \/ row' = job /\ stage' = next /\ UNCHANGED faults
    \/ /\ faults < MaxFaults /\ faults' = faults + 1
       /\ row' \in {row, job}
       /\ stage' = reload

\* What the service gets to see of the row.
Reads(durable) ==
    \/ durable = row /\ UNCHANGED faults
    \/ durable = NoRow /\ faults < MaxFaults /\ faults' = faults + 1

Fails == stage' = "ended" /\ answer' = Failure
InProgress(job) == job # NoRow /\ job.status \in {"pending", "running"}

-----------------------------------------------------------------------------
(* The job starts *)

CreateJob ==
    /\ stage = "creating"
    /\ Write(Job("pending"), "starting", "reloading_created")
    /\ UNCHANGED <<crawlVars, workVars, answer>>

ReconcileCreation ==
    /\ stage = "reloading_created"
    /\ \E durable \in {row, NoRow} :
          /\ Reads(durable)
          /\ IF durable = NoRow THEN Fails ELSE stage' = "starting" /\ UNCHANGED answer
    /\ UNCHANGED <<crawlVars, workVars, row>>

BeginJob ==
    /\ stage = "starting"
    /\ Write(Job("running"), "loading", "reloading_started")
    /\ UNCHANGED <<crawlVars, workVars, answer>>

ReconcileStart ==
    /\ stage = "reloading_started"
    /\ \E durable \in {row, NoRow} :
          /\ Reads(durable)
          /\ stage' = IF durable # NoRow /\ durable.status = "running" THEN "loading" ELSE "failing"
    /\ UNCHANGED <<crawlVars, workVars, row, answer>>

\* A failure to record the failure is only logged.
RecordFailure ==
    /\ stage = "failing"
    /\ Write(Job("failed"), "ended", "ended")
    /\ answer' = Failure
    /\ UNCHANGED <<crawlVars, workVars>>

-----------------------------------------------------------------------------
(* The stages *)

Proceed(next) == stage' = next /\ attempt' = 1

\* A stage raises: the policy retries what the classifier calls retryable.
StageFails(retryable) ==
    /\ IF retryable /\ attempt < MaxAttempts
       THEN attempt' = attempt + 1 /\ UNCHANGED stage
       ELSE stage' = "failing" /\ UNCHANGED attempt
    /\ UNCHANGED <<row, kept, created, faults, answer>>

LoadWebsite ==
    /\ stage = "loading"
    /\ \/ /\ LoadRoot
          /\ Proceed("crawling")
          /\ UNCHANGED <<row, kept, created, faults, answer>>
       \/ \E retryable \in BOOLEAN : StageFails(retryable) /\ UNCHANGED crawlVars
    /\ UNCHANGED <<stored, prepared>>

CrawlPage ==
    /\ stage = "crawling"
    /\ \/ LoadPage /\ UNCHANGED stage
       \/ SkipPage /\ UNCHANGED stage
       \/ CrawlEnds /\ stage' = "processing" /\ UNCHANGED crawlVars
    /\ UNCHANGED <<workVars, row, faults, answer>>

\* Pages that yield no chunks are skipped with a warning; an error nobody
\* expected, and a site without any chunk, fail the job at once.
Process ==
    /\ stage = "processing"
    /\ \E pages \in SUBSET Loaded :
          IF pages = {} THEN StageFails(FALSE)
          ELSE /\ kept' = pages
               /\ Proceed("preparing")
               /\ UNCHANGED <<row, created, faults, answer>>
    /\ UNCHANGED <<crawlVars, stored, prepared>>

Prepare ==
    /\ stage = "preparing"
    /\ \/ Proceed("persisting") /\ prepared' = stored /\ UNCHANGED <<row, kept, created, faults, answer>>
       \/ \E retryable \in BOOLEAN : StageFails(retryable) /\ UNCHANGED prepared
    /\ UNCHANGED <<crawlVars, stored>>

Replaced == [u \in Urls |-> IF u \in kept THEN "new" ELSE stored[u]]

\* One transaction without a receipt: an attempt whose commit was not answered
\* is made again, finds the pages it created unchanged, and conflicts with the
\* pages it replaced.
Conflict == \E u \in kept : prepared[u] = "old" /\ stored[u] # "old"

Persist ==
    /\ stage = "persisting"
    /\ \/ /\ ~Conflict
          /\ stored' = Replaced
          /\ created' = Cardinality({u \in kept : stored[u] # "new"})
          /\ Proceed("completing")
          /\ UNCHANGED <<row, kept, faults, answer>>
       \/ ~Conflict /\ (\E retryable \in BOOLEAN : StageFails(retryable)) /\ stored' \in {stored, Replaced}
       \/ Conflict /\ StageFails(FALSE) /\ UNCHANGED stored
    /\ UNCHANGED <<crawlVars, prepared>>

-----------------------------------------------------------------------------
(* The job ends *)

CompletedJob ==
    [status |-> "completed", discovered |-> Len(crawl.documents),
     processed |-> Cardinality(kept), chunks |-> created]

CompleteJob ==
    /\ stage = "completing"
    /\ Write(CompletedJob, "ended", "reloading_completed")
    /\ answer' = IF stage' = "ended" THEN CompletedJob ELSE answer
    /\ UNCHANGED <<crawlVars, workVars>>

MatchesAnything(durable) == durable # NoRow
MatchesCompletion(durable) == durable = CompletedJob

ReconcileCompletion ==
    /\ stage = "reloading_completed"
    /\ \E durable \in {row, NoRow} :
          /\ Reads(durable)
          /\ \/ MatchesCompletion(durable) /\ stage' = "ended" /\ answer' = CompletedJob
             \/ ~MatchesCompletion(durable) /\ InProgress(durable)
                /\ stage' = "failing" /\ UNCHANGED answer
             \/ ~MatchesCompletion(durable) /\ ~InProgress(durable) /\ Fails
    /\ UNCHANGED <<crawlVars, workVars, row>>

IngestionNext ==
    \/ CreateJob \/ ReconcileCreation \/ BeginJob \/ ReconcileStart
    \/ LoadWebsite \/ CrawlPage \/ Process \/ Prepare \/ Persist
    \/ CompleteJob \/ ReconcileCompletion \/ RecordFailure

IngestionSpec == IngestionInit /\ [][IngestionNext]_ingestionVars

-----------------------------------------------------------------------------
\* What the caller is told is what the database says, whichever call raised and
\* whichever stage was tried again. A job that is answered is in the row, to
\* the last count, and what it processed is stored; a completed row is of
\* stored pages only. An error never hides a completed job, unless two calls
\* in a row raised, and leaves no job in progress unless a call raised.
AnswerMatchesRow ==
    /\ answer \notin {NoRow, Failure} => row = answer
    /\ row # NoRow /\ row.status = "completed" => kept # {} /\ \A u \in kept : stored[u] = "new"
    /\ answer = Failure /\ row # NoRow =>
          /\ row.status = "completed" => faults >= 2
          /\ InProgress(row) => faults >= 1
=============================================================================
