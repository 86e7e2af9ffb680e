# Verification of llm-engineer

TLA+ modules of the program's own logic, the TLC runs that model-check them and
the TLAPS proofs about them. Paths are relative to `src/apps/backend/` unless
they start with `src/`; `PROJECT.json` maps each definition to its lines.

## 1. The system and its parts

The repository is a retrieval-augmented assistant platform. A FastAPI backend
takes knowledge in (websites, direct texts, files), indexes it in PostgreSQL
with vectors, and answers public chat requests from it. A second, standalone
service (`src/apps/rag-backend`), front ends and an embeddable widget
(`src/packages/assistant-widget`) stand beside it. Backend processes share
nothing but PostgreSQL and Redis, and run any number of threads.

| part | state | operations | meets |
|---|---|---|---|
| ingestion worker (`assistant/application/ingestion_worker.py`, `assistant/workers/ingestion.py`, `.../repositories/ingestion_worker.py`) | ownership columns of `document_ingestion_jobs` | claim, renew, fenced update, shutdown | runner, maintenance |
| pipeline runner (`assistant/application/ingestion_pipeline*.py`, `ingestion_retry.py`) | progress columns, a copy of the job in memory, step outputs | load, start, rebuild context, execute/record/retry/checkpoint a step, complete, fail | jobs, history, persistence |
| attempt history (`.../repositories/ingestion_observability.py`) | `ingestion_step_executions` | start, complete, fail, interrupt | runner, recovery |
| knowledge persistence (`assistant/application/knowledge_persistence_service.py`, `.../repositories/knowledge_persistence.py`) | `documents`, `chunks`, `ingestion_persistence_results` | prepare (no lock), persist (one transaction) | runner, website ingestion |
| maintenance (`assistant/maintenance/`) | advisory locks, cursors | reconcile stale jobs; retention; temporary uploads | jobs, documents, upload directory |
| knowledge sources (`assistant/application/knowledge_source_service.py`, `.../repositories/knowledge_source.py`) | `knowledge_sources`, re-ingestion receipts | create, re-ingest, enable, disable, delete | jobs, documents |
| job service and API (`assistant/application/ingestion_job_service.py`) | `document_ingestion_jobs` | post with a key, run | worker |
| file ingestion (`.../repositories/file_ingestion.py`) | fingerprints, keyed answers, jobs, uploads | upload | workers, retention, sweeps |
| website ingestion (`assistant/application/ingestion_service.py`, `.../infrastructure/ingestion/website_loader.py`) | `ingestion_jobs`, a crawl | crawl, clean, chunk, embed, persist in one request | persistence |
| chunker (`.../infrastructure/ingestion/semantic_text_chunker.py`) | none between calls | cut a cleaned text into passages | persistence, by both ingestions |
| public chat (`assistant/api/public_chat.py`, `assistant/application/public_chat*.py`) | rate windows, slots in memory or Redis, streams | validate, admit, stream, give back | Redis, provider, widget |
| assistant widget (`src/packages/assistant-widget/src`) | configuration, conversation, pending and failed turn | load, ask, receive, retry, abort | public chat |
| administrator authentication (`admin_auth/`) and operations (`operations/`) | account, sessions, audit log, maintenance mode | login, logout, checked and audited changes | PostgreSQL |
| assistants and behaviours (`assistant/application/assistant_admin_service.py`, `.../repositories/assistant_behaviour.py`, the editor pages of `src/apps/admin`) | assistants, drafts, published revision | create, update, delete, save, publish | editors' pages |
| evaluation (`assistant/evaluation/`) | report files | run, score, save, compare, list | file system |
| RAG service (`src/apps/rag-backend`) | rate window, query cache, answer cache, audit log | answer a chat within a deadline | Redis, PostgreSQL |

What is hard in them: several workers and request threads on the same rows; a
worker that pauses beyond its lease and goes on writing; a process that dies
between two database calls; a commit whose client sees an error; documents,
sources and uploads that change between a read and the write that relies on it;
idempotency keys raced by their own repetitions; slots that expire under a
running request and are given back along three paths; streams cut anywhere; a
deadline that passes while a thread commits; concurrent guesses at a password;
optimistic tokens from clocks that stand still. Correct means:

* one execution at a time may write a job, and one that lost it never writes it again;
* a terminal job stays terminal, every job becomes terminal, a completed job has
  committed its knowledge exactly once, recorded attempts are final;
* a page shows one generation of chunks, and a text is replaced only by a writer that has seen it;
* what an administrator set on a source is what retrieval reads; a repeated
  request is answered alike; active jobs are not duplicated or deleted;
* a registered upload stays on disk; the bytes of an active job stay;
* a slot is held exactly while a request is under way; a stream has one end; the
  widget shows as complete only what the server completed;
* nobody gets in against the counted guesses; every change is audited; nobody
  overwrites or publishes what they have not seen;
* a report is whole, and the gate's exit code says what the run was;
* what a caller is told is what the database says;
* the passages of a page say what the page says, under its headings.

`PROJECT.json` "hazards" lists, line by line, where each can go wrong, and the
properties that look for it.

## 2. Modules

    IngestionLease               ownership of job rows: the abstract protocol
    KnowledgePersistence         documents, chunks, receipts
    IngestionPipeline            the runner, its attempts and crashes;
                                 implements the two modules above
    KnowledgeSources             sources, their jobs and their keys
    FileIngestion                uploads, their jobs, retention and sweeps
    ChatExchange                 what the chat endpoint promises: abstract
      PublicChat                 the endpoint; implements ChatExchange
      AssistantWidget            the widget, on top of ChatExchange
    AdminSessions                account, sessions, audited operations
    AssistantBehaviours          assistants, drafts, publication, editor pages
    EvaluationScores             arithmetic of scores and comparisons
      EvaluationRuns             processes over one directory of reports
    WebsiteCrawl                 the crawl of one origin
      WebsiteIngestion           the request around it
    RagBackend                   the standalone RAG service
    TextChunking                 how a cleaned text becomes passages

    IngestionLeaseProofs, KnowledgePersistenceProofs, IngestionPipelineProofs,
    KnowledgeSourcesProofs, PublicChatProofs,
    FileIngestionProofs (FileIngestion, TextChunking),
    AdminConsoleProofs (AdminSessions, AssistantBehaviours, AssistantWidget),
    ServicesProofs (WebsiteCrawl, WebsiteIngestion, RagBackend, EvaluationScores,
    EvaluationRuns): theorems (TLAPS)

    MCLeasesAndPermits (IngestionLease, PublicChat), MCKnowledgePersistence,
    MCIngestionPipeline,
    MCKnowledgeSources, MCIngestionApi (KnowledgeSources, and IngestionPipeline
    with a request), MCFileIngestion, MCPublicChat, MCAssistantWidget,
    MCAdminConsole (AdminSessions, AssistantBehaviours), MCServices
    (EvaluationRuns, WebsiteIngestion, RagBackend, TextChunking): instances for TLC

Modules that share an MC module share no state; there `area` says which of them
a behaviour is about, and the others rest: in their initial states, or, for the
queue of `leases_permits`, with every job completed, since a queued job would be
claimed under fairness.

### IngestionLease

`status`, `worker`, `lease`, `version` and `stamped` are the columns `status`,
`worker_id`, `lease_expires_at`, `claim_version` and `claimed_at` /
`last_heartbeat_at`; `claim` is the `IngestionJobClaim` of each execution slot.
`Claim` is the `SELECT .. FOR UPDATE SKIP LOCKED` with its `UPDATE`, `Renew` one
heartbeat, `Finish` the fenced update with a terminal status, `Leave` every end
of an execution that writes nothing. `CompleteCommitted`, `ResetQueued` and
`ClearOwnership` are the repairs of stale-job reconciliation. Time is the phase
of a lease relative to the database clock: live, expired, stale (older than the
maintenance grace), or unset. `SeesExpired` and `SeesLive` are the comparisons
with the *process* clock; slots in `Skewed` may see the other side of the
boundary and may write a lease that is over already. A row without a lease
counts as stale at any time: its age (`updated_at`) is not modelled, which only
adds behaviours. `cancelled` is left out: no code of the pipeline enters it.
Uploads are not claimed (`source_url IS NOT NULL`) and are in FileIngestion.

### KnowledgePersistence

`document`, `chunks`, `receipt` are the three tables, `prepared` the
`PreparedKnowledge` of each thread. A page's contents are a member of `Reps`;
two with one `HashOf` differ in title or roles. `Prepare` decides `unchanged`,
`metadata` or `replace` per page; `Commit`, `Replay` (the receipt of the same
command is found), `Refuse` (conflict, or another command's receipt) and
`RollBack` are the outcomes of the transaction, which is one step because it
holds the job row's lock and each page's advisory lock to its end. Left out:
mode `reindex`, which no caller requests.

### IngestionPipeline

Takes both modules with INSTANCE, so `Lease!Spec` and `Knowledge!Spec` are
properties of its runs and their actions are parts of its own. It adds `step`,
`count`, `ckpt` (`current_step`, `current_step_attempt_count`,
`last_completed_step`), `attempts` (the history) and `run` (where each runner
stands, its copy of the job, its outputs), with one action per database call of
`IngestionPipelineRunner.run`. `Update` is the fenced repository for workers and
the plain one for `Request` (`POST /ingestion/jobs/{id}/run`). `Abort` is a
crash or an escaping exception at any point. The failure classifier is reduced
to retryable or permanent; a COMMIT whose acknowledgement is lost is
`Knowledge!Commit` with a retryable outcome. A load may yield any member of
`Contents`, as a remote site may change between loads.

### KnowledgeSources

`sources`, `documents` (their `retrieval_state`), `jobs`, `receipts`
(`knowledge_source_reingestion_requests`) and `results` are tables; `thread` is
what each request thread does, `rowLock` and `keyLock` the row locks and the
advisory lock of an assistant's key. What a thread reads without a lock is a
step of its own: the look-up of a key or a URL, the check for an active job by
`POST /ingestion/jobs`. `UniqueViolation` is the unique indexes,
`CommittedState` the upsert of the documents row by a commit, which keeps a
`retrieval_state` it did not set. `answers` is history: what keyed requests were
told, as long as the row named exists.

### FileIngestion

An upload is written to disk (`WriteUpload`), then decided on by `Look` (reads
without a lock) and `Write` (commits, or loses against a unique index and looks
once more). Workers start, complete and fail jobs; `RetireJob` is the retention
of terminal jobs; `StartSweep`, `NextBatch`, `CheckFile`, `Unlink`, `EndBatch`
are the temporary-source maintenance: advisory lock, batches, cursor, the
reference check and the deletion, which are two steps. A request does not
outlive the retention of an upload (an hour at least): the one assumption about
time, made in `AgeUpload`. So the sweep and a submission that is about to register
the very file do not meet here, and `RegisteredUploadKept` does not speak of that
race: it says that a document's file stays although its jobs are gone and newer
uploads replaced others, since the sweep goes by the documents' rows.

### ChatExchange, PublicChat, AssistantWidget

`ChatExchange` is what a reader may rely on: one status; after a 200 a stream
"start", texts, then one "complete" (only after a text) or "error"; an end of
the handler in any case; a connection that may be lost or closed anywhere.
`PublicChat` is the endpoint in detail: boundary checks, rate limits, the slots
of the in-memory limiter or of Redis locks with expiry, preparation, generation,
and the release of a permit by the stream's end, the background task or an error
path, whichever comes first. `AssistantWidget` is the client on top of the
abstract exchange: bootstrap, conversation, the history it sends, the stream it
reads, retry, and abort when the assistant changes. `Among` is the code's filter
of the conversation, a recursive function of the length. Refinement and composition
meet in `ChatExchange`: what the widget's run shows holds over any server that
implements it, and the chat run shows that this one does.

### AdminSessions, AssistantBehaviours

A call of the admin API reads the clock once; every later SELECT, statement or
transaction is a step. `strikes`, `granted` and `effects` are history. An
`AssistantBehaviours` page sends the token of what it shows; requests and
answers may be lost or overtaken; `stamp` (`updated_at`) comes from clocks that
may stand still or go back, `version` is counted by the row. The behaviour page
refreshes (`Refresh`, `Refreshed`); the general page has to be loaded again
(`Reload`), and what either asked for before goes on without it.

### EvaluationScores, EvaluationRuns

`EvaluationScores` has the pure functions: retrieval and answer scores, a run's
summary, the comparison of two runs under a policy. Ratios are pairs, exact
where the code allows 1e-12; `Mean` skips what is not applicable. `GateIsSound`
checks them against `Badness`, `Judged` and `Worse`, reference definitions given
directly on the answers.
`EvaluationRuns` has the commands and API requests over one directory, killed
anywhere; `reports` are the files there are, so that creating one (`os.link`,
`os.replace`) adds a name or takes one.

### WebsiteCrawl, WebsiteIngestion

`Destination` follows redirections by the recursive function `Hop`; `crawl` is the
crawl's local state. The
service's stages are actions; each repository call may raise before or after it
commits, and the service reads the row again.

### RagBackend

Handlers on the event loop and the worker thread of each; `late` is a deadline
that has passed. The caches, the audit log and the rate window are shared; the
window is the set of the requests counted in it. A cached value may turn out not
to be JSON, which ends the request; a command to Redis may be applied, lost, or
given up while `inFlight` and applied later (`StoredLate`), when its request may
have been answered: `CommittedBeforeAnswered` is about what is sent.

### TextChunking

A text is a sequence of characters, each visible one named by its block and its
place, so that a passage shows where every character comes from. Units and
packing are recursive functions over blocks and units, with one operator for the
body of each of the code's loops (`AddFragment`, `AddBlock`, `AddUnit`); the loop
that repairs short passages has one action per branch, because it changes the list
it walks over and the index. A block's spaces, the sentence ends among them and the
level of a heading are inputs: the segmenter is a library. `IsBlock` says what
`NormalisingTextCleaner.clean` leaves of them: single spaces, none at an end. A line
break within a block counts as a space.

## 3. Runs

| run | instance | what it asks |
|---|---|---|
| `leases_permits` | leases: 2 jobs, 3 slots (2 of one identity, 1 with a deviating clock), claim_version up to 3. permits: 2 chat requests of 1 client, one slot of each kind, in memory or in Redis, one text, 1 fault | single owner, no revival, exclusive live claims, terminal is final, pick-up of unheld work; whoever holds a chat slot gives it back |
| `knowledge` | 2 writers, 2 jobs and the writer without one, 2 pages, 3 representations with 2 hashes | one chunk generation, active documents match receipts, one commit per job, commits install what they prepared |
| `pipeline` | 1 job, 2 slots of one identity, 3 claims, 1 crash, leases lapse at any moment, 2 texts per load | refinement of both modules; the owner's copy is current; superseded executions write nothing |
| `pipeline_settles` | 2 jobs of one page, 2 slots, 2 attempts, no lapse, no crash | every job settles |
| `ingestion_api` | sources: 2 sources, 2 jobs, 2 threads, 1 key. run: a slot and a request on one job, 1 crash | retrieval state, keyed answers, active jobs; completion implies a commit and results are final without the fence |
| `files` | 2 threads, 2 sweepers, 3 uploads, 3 jobs, batches of one, two of them | registered uploads, keyed answers, frozen bytes, exhaustive sweeps |
| `chat` | 2 requests, 2 clients; memory limits 1/1, Redis 1 per client and 2 in all; 1 fault | slots accounted for; refinement of ChatExchange |
| `widget` | 2 exchanges, 2 assistants, 2 welcomes, 5 messages, 2 changes, 2 texts | consistent conversation, whole answers, every question settles |
| `console` | 4 calls, threshold 2, lockout 2, sessions of 1; 2 pages, 1 assistant, 2 requests, 4 versions | guarded logins, audit trail; tokens, nothing overwritten unseen, published as reviewed |
| `services` | evaluation: 2 cases against every earlier run, 3 processes; website: 4 pages, 60 sites, 2 faults; RAG: 2 chats, 3 questions, 2 roles; chunking: 1,110 documents, 4 settings | sound gate, whole reports; faithful crawl, answers match rows; replies accounted for, commits before answers; faithful passages |
| `delete_completed`, `recovered_attempt` | as small as shows the case | two statements of the documentation the code does not keep (section 6) |

Bounds. *leases, pipeline*: `MaxVersion` bounds claims and repairs of one job;
three give claim, supersession, and another supersession or a repair with the
superseded slot still running. `pipeline` allows one attempt per step, so that
one crash, three claims and two texts fit; retries are in `pipeline_settles`.
*knowledge*: two writers suffice for the races because a transaction is
serialised per page and a preparation is compared with the current document
only; two pages distinguish a whole commit from a partial one. *sources, files*:
two threads race for each index, key and lock; a third would repeat the role of
one of them. Three uploads are two for one document and one to be swept; batches
of one make the cursor move. *chat*: with one slot per client and one or two in
all, each acquisition can fail at each point, the abandoned request of a client
still holding its slots. *permits*: one client and one slot of each kind, so
that the second request waits for what the first gives back; one text is a stream
that can end, break or be abandoned before and after it. *widget*: five messages are two questions with answers
and a retry; two changes let an assistant return under its old key. *console*:
four calls are two wrong guesses, a third that races the right one. *services*:
two cases make every mix of statuses, the earlier runs every change; two
attempts, each hit by a fault, at each stage; three questions with two forms;
documents of up to three blocks, so that a short passage has a neighbour on either
side, with lengths around the four sizes, so that every branch of the loop is taken.
Symmetry is used in runs without liveness only.

Fairness. `IngestionLease` and `IngestionPipeline`: weak fairness of polling per
job (workers poll and take the oldest eligible row), of every runner's next step
(loader, provider and database calls have timeouts), of the passing of time for
rows nobody renews. Maintenance is run by hand or by cron and gets none.
`WorkIsPickedUp` holds up to the bound on claims, which it names. `JobsSettle`
is stated without crash and late heartbeat: with one the code does not settle,
see `recovered_attempt`. `AssistantWidget`: weak fairness of the server's
handler and of the widget's reading (the browser delivers what has arrived); a
connection that is lost is noticed. `PublicChat` (`Fairness`, for `PermitsComeBack`):
weak fairness of a request's steps up to the end of its stream, since what they wait
for has timeouts, and of its background task, which Starlette runs after every
response. Nothing is assumed of what the code cannot rely on: that a hang-up is
heard of, that an abandoned generator is collected, that a slot in Redis expires.
Everything else is safety and assumes no fairness: a call that
takes no further step is a process that died.

Deadlock checking is off where the system may stop: jobs terminal, bounds used,
nothing asked. It is on for `knowledge` and `chat`.

Every property of a passing run has a mutant, an operator beside the one it
changes the way a plausible bug would, under which TLC finds it violated.

## 4. Proofs

Each theorem holds for all values of the constants that satisfy the assumptions
named with them; `PROJECT.json` "theorems" lists them. The bounds on counters
(`MaxVersion`, `MaxTime`, `MaxFaults` and the like) are guards of the models;
the proofs hold for every value of them. The assumptions say that identities and
the values that stand for "none" lie outside the sets they complement, that
limits the code requires to be positive are, and what a workload can be. Of the
widget, `WidgetAssumption` takes the history limit to be positive and even: the
constant of `publicChatClient.ts` is, and `config.py` refuses an odd one.

*Ownership.* `IngestionLeaseProofs`: `OneEffectiveOwner` alone is not inductive,
since nothing in it prevents a slot from holding a claim with a version its row
has yet to reach. `LeaseInv` adds that claims are behind their rows, that claims
on one job have distinct versions, and that a claim with the row's current
version is recorded in it unless the job is terminal; each of `Claim` and the
repairs raises the version, which keeps the first two. From it: `SingleOwner`,
and the action properties `TerminalIsFinal`, `LostClaimStaysLost` and
`LiveClaimIsExclusive`. A fence is lost for good because nothing but a heartbeat
of the holder turns an expired lease into a live one without raising the version.

*Knowledge.* `KnowledgePersistenceProofs`: `OneChunkSet`, `ActiveMatchesReceipt`
and `CommitInstalls`. All rests on `Commit`: a preparation is a plan for the pages
of its content, a page it renames has a document with the text's hash, and its job
has no receipt yet.

*Pipeline.* `IngestionPipelineProofs`: `PipelineInv` says of a row what knowledge
and attempts stand behind its step, and of a runner what it holds in memory where
it stands. From it follow `CompletedIsCommitted` and `AttemptResultsAreFinal`, with
workers and run requests together, `SupersededNeverWrites`, and that every step is
a step of KnowledgePersistence (`KnowledgeRefined`), so that its theorems hold of
the pipeline (`PipelineGeneration`). `CompletedIsCommitted` is not inductive: that a
runner at the checkpoint of PERSIST has a receipt depends on what its attempt did
before. `LeaseRefined` and `OwnerCopy` are about workers only (`ApiRunners = {}`):
a run request updates the row without the fence, which no step of IngestionLease does.

*Sources and files.* `KnowledgeSourcesProofs`: `SourcesInv` says which locks a thread
holds at each step, that what it found under them is still so, and which row
accounts for each answer; from it `RetrievalAgrees`, `KeyedAnswersAgree` and
`ActiveSourceJobKept`. `FileIngestionProofs`: `FileInv` says that an upload under
submission is too young for a sweep, that a document about to be replaced has no
active job, and that the answer stored for a key outlives the jobs; from it
`RegisteredUploadKept`, `KeyedUploadsAgree`, `ExhaustiveSweep` and `ContentFrozen`.

*Public chat.* `PublicChatProofs`: `ResponsesSound` relates where a handler is to the
status and events it has sent, and makes each of its steps a step of ChatExchange or
a stutter (`ExchangeImplemented`), so that what is checked of the widget over
ChatExchange is checked over this endpoint. `SlotsInv` is the ledger of permits,
leases, locks, counters and gauge, from which `SlotsAccounted` follows: a cleanup
gives back what a lease names, so nothing stays taken only because each lock is named.

*Administration.* `AdminConsoleProofs`: `AdminInv` relates the failures counted and the
lock of the account to the wrong guesses made, and a call to what it has passed
already (`AuditTrail`, `LoginsGuarded`); `BehavioursInv` says that whatever pages
show and requests carry is older than the assistant is now, or all of it
(`TokensAgree`, `NothingOverwrittenUnseen`, `PublishedAsReviewed`).

*Services.* `ServicesProofs`: `CrawlInv` for any site, with `RecursionDefines` for the
recursive functions of the crawl, proved from the well-ordering of the naturals, and
`IngestionInv` for what a stage knows of its row after calls that raised
(`CrawlIsFaithful`, `AnswerMatchesRow`); `RagInv` (`RepliesAccountedFor`,
`CommittedBeforeAnswered`); `EvaluationInv`, which says that a report with a
process's identity is under the name the process was to save it by, once it is past
publishing, and that what a process has said to be saved is its own report or that
of a command told to overwrite it (`ReportsWhole`). There `WorkloadAssumption` takes
the identity of a run to be new: no earlier report has it.

*The gate.* `GateSound` (`ServicesProofs`): for datasets, settings, policies,
answers and earlier reports of any kind and size, the exit code of a command is the
one that the answers it got, its baseline and its policy call for. `GateInv` says
that every finished run keeps the answers it was made from and is what
`EvaluationScores` makes of them, that reports found in the directory are scored,
and where in its life a command can have which code: that of its run, that of the
one baseline it was compared with, or that of the step that failed. The rest is
about the operators: `CaseJudged`, that the status of a case is its worst fault as
`Judged` defines it; `ExitMeans`, that the code of a run, made from three counts,
says that some case is of that kind and none is worse; `RunBadness`, `RegressedFor`
and `FellMeans`, that the classes of changes and the thresholds of a comparison are
those of the reference; from them `RegressedMeans` and `CodeMeans`. The model's
summary counts with `Cardinality` and averages with a recursive function because
neither needs an induction here: both sides of the theorem use the same mean, and
of a count only whether it is zero. `WorkloadAssumption` says what the program
accepts: at least one case and distinct ids (`evaluation/models.py`), positive `k`,
thresholds that are ratios (`evaluation/comparison.py`), reports of ended runs.

*Chunking.* `PassagesAreFaithful` (`FileIngestionProofs`): for any page whose blocks are as
the cleaner leaves them, and any size, overlap and minimum the chunker accepts. A text
is known by its letters, the visible characters, which name their places; that a list
of texts tells a set of letters (`Tell`) is that each text has them in order, that the
texts follow one another, and that they are those letters, so nothing of it counts.
Each stage is a recursive function; `RecursionDefines`, stated there too, gives its
value at the next position, and `UpTo`, from the well-ordering of the naturals, makes what every step
keeps true of the whole:

* the pieces of a paragraph, cut at sentences, at words or in even parts, tell it and
  are no longer than the size (`WellCut`, `Packs`);
* the units tell the blocks read so far, each under the headings that enclose its
  block: the stack of headings is `Enclosing` when no level is skipped (`ListSound`,
  `StackSound`);
* the packed chunks tell everything, and each has the path of all its characters
  (`PassageList`);
* the loop over short chunks keeps `LoopSound` with every branch. Merging and
  borrowing move text between neighbours, so a path need no longer be that of the
  first character of its chunk, nor of all of them. What remains true is `Told`: a
  chunk behind the loop has a character of its path which is its first one, or is
  so near its beginning that the next chunk, should it be short, cannot take it
  (it would have to take everything after it, which with the blank line would be
  longer than the size). A chunk that begins with a blank, as a cut in even parts can
  leave it, is never first, and has the path of the end of the one before;
* a passage is its chunk after the end of the one before (`Contextual`), and those
  without letters are left out (`PassageSound`).

With a size of 1 there are chunks without letters, and no chunk is short; the
invariants say so where it matters (`Size > 1`).

*The widget.* `AdminConsoleProofs`, too, since AssistantWidget shares few names with
the modules there. `WidgetInv` says of every stream that "start" is first and only
first, that it ends with its terminal event and has no more texts than the bound
(`StreamShape`); of the pending question that its request is still connected, that
what it has read is a prefix without a terminal event, and that its text is as long
as that prefix says (`ReadSound`); of the conversation that numbers are used once and
that it is settled turns, a failed question or a question and its answer
(`Turns`), followed by what is pending (`Waiting`). `ConversationConsistent` follows
because filtering by `Among` keeps turns in pairs, and an even limit cuts between
pairs (the function is unfolded at one position at a time, from the well-ordering of
the naturals, as for `Hop`). `AnswersAreWhole` is an action property of the
same invariant: only `Finish` makes an answer complete, when the event it reads is
"complete", and by then every text before it has been read.

Proved of another module than the one run: `ingestion_api` checks
`CompletedIsCommitted` and `AttemptResultsAreFinal` of its instance of
IngestionPipeline; `CompletedHasReceipt` and `ResultsAreFinal` prove the same
formulas of IngestionPipeline, for every `ApiRunners`.

Only model-checked: liveness (`WorkIsPickedUp`, `JobsSettle`,
`PermitsComeBack`, `EveryQuestionSettles`), which is out of the prover's reach.

## 5. Not modelled, and what the models leave out

* Text extraction and cleaning, embedding and answering by providers,
  retrieval's ranking: processing without shared state, which enters as outcomes
  and contents. Configuration, metrics, logging, health and the listings:
  reads. Migrations: their constraints are guards of the inserts they refuse.
  Scripts, CI and the rendering and routing of the front ends.
* Orphan cleanup: the foreign keys leave nothing for it. The duration limits of
  maintenance.
* The Redis throttle before login and the rate windows of public chat: a refused
  call is one that is not made, or is refused at any time.
* `RagBackend`: shutdown, a client that disconnects.
* `IngestionService.fail_job`, which no route reaches.
* The widget's non-streaming client: the component streams whenever its client can.
* Operations besides the maintenance mode: clearing caches has the same shape.

Behaviour the models have and no property forbids, because nothing in the
repository promises otherwise:

* Ingestion: `POST /ingestion/jobs` may add an active job between deletion's
  check and its DELETE. Workers leave upload jobs queued. A stale match may queue
  a job for bytes since replaced; modified content during an active job ends in
  503 after the single retry.
* Website ingestion: knowledge may be stored though the job is answered failed;
  one lost failure record leaves a row running for good; after an unanswered
  commit a retry counts no chunks for created pages and conflicts for replaced
  ones; a page reached by a redirect and again from the queue costs one of
  `max_pages`.
* Chat: a Redis error while giving back leaves the gauge too high and the other
  lock until it expires; a request refused for its client still counts in the
  global window; a widget whose history is too long in characters is refused 422
  each time it asks.
* Console: a wrong guess that took long can shorten a lock; a login that races a
  rehash is refused; a failure after the login's commit leaves a session nobody
  knows; an audit row stays "started" when its last write fails; an editor's
  late answer overwrites what was typed meanwhile, and a save retried after a
  lost answer gets 409.
* Evaluation: a report is saved before the baseline is read, so a baseline that
  is the report's own path compares a run with itself; a run with passed and
  skipped cases only exits 0; what a stopped run did not reach counts as removed;
  a kill leaves a temporary file.
* RAG service: a 504 may follow a commit; a prepared query is cached after a
  504; `query_cache` may exceed its size by one and the threads at work; the
  audit row of a cache hit copies the latest one of that spelling of the
  question, which may be another request's, or none.

* Chunking: a heading longer than the size is not cut, and its passage is longer
  too; a sentence longer than the size among others is cut within words (the
  fallback to words is taken for a single sentence only); a passage may stay
  short though a later step made room beside it; a heading that skips a level
  keeps the next one of its own level under it, which is why `PassagesFaithful`
  asks for the path of documents without skipped levels only.

## 6. Where the documentation and the code part

Runs that TLC refutes; `PROJECT.json` "findings" quotes the lines.

1. `delete_completed`: deleting a source whose ingestion has committed fails,
   because the receipt restricts the deletion of the job.
2. `recovered_attempt`: after a crash past PARSE the recovered run starts PARSE
   with attempt 1 again, the history's UNIQUE constraint raises, and the job is
   left running for the next recovery to fail in the same way.

Further statements of the documentation are in the modules as properties no run
lists. TLC refutes each under the constants of `MCIngestionPipeline.cfg` with
the changes named:

3. `AttemptsWithinMaximum` (`MaxAttempts = 2`, `MaxAborts = 2`, `LateHeartbeats
   = FALSE`): recoveries are executions beyond the maximum of attempts.
4. `TerminalIsFinal` of IngestionPipeline (`Executors <- OneSlot`, `ApiRunners <-
   OneApi`, `MaxVersion = 1`, `MaxAborts = 0`): a run request writes over a
   terminal status.
5. `InterruptedCommitNeverFails` (`MaxVersion = 2`, `MaxAttempts = 2`,
   `LateHeartbeats = FALSE`): a job that has committed ends as failed when its
   context cannot be rebuilt after an interruption.
6. `DirectTextReconstructs` (the same and `DirectText <- OneJob`): a direct text
   cannot be rebuilt past PARSE.
7. `CommittedIsIndexed` (under `MCKnowledgePersistence.cfg`): a direct text in
   normal form completes without chunks.

And one that was read, not run: `docs/public-assistant-chat.md:62` asks clients
to retry a 503, which the widget shows as final.

## 7. What is left

Every part of section 1 that is named as modelled is; every invariant and action
property of the passing runs has a proof. A team that goes on would take up:

1. The hazards in `PROJECT.json` without a property: an unbounded number of recovered
   executions, two cases of a stale preparation or hash, and an upload request that
   lasts as long as the retention.
2. Retention and orphan removal (`operations/`), beside the sweeps of FileIngestion.
