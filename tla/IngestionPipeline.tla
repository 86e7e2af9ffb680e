-------------------------- MODULE IngestionPipeline --------------------------
(***************************************************************************)
(* The ingestion pipeline PARSE -> CHUNK -> EMBED -> PERSIST: the runner   *)
(* executing a job's steps with retries and checkpoints, inside a worker's *)
(* execution (under its claim, every job write fenced) or inside a request *)
(* to POST /ingestion/jobs/{id}/run (no claim, no fence).                  *)
(*                                                                         *)
(* It composes IngestionLease, which owns the ownership columns of a job,  *)
(* with KnowledgePersistence, which owns what the PERSIST step writes, and *)
(* adds the progress columns of the row and the history of step attempts.  *)
(* Every database call of the runner is a step of its own.                 *)
(***************************************************************************)
EXTENDS Naturals, FiniteSets

CONSTANTS
    Jobs, Executors, WorkerIds, WorkerOf, Skewed, NoWorker, NoClaim, MaxVersion,
    Pages, Reps, Hashes, HashOf, Contents, PendingHashes,
    NoJob, NoRep, NoHash, NoDocument, NoReceipt, NoPlan,
    ApiRunners,  \* request threads of the compatibility run endpoint
    DirectText,  \* jobs whose source is a direct text, not a URL
    PageOf,      \* the page of a job's own document
    NoContent,   \* a payload the runner's context does not hold
    NoRun,       \* a runner that executes nothing
    MaxAttempts, \* INGESTION_RETRY_MAX_ATTEMPTS
    MaxAborts,   \* bound on crashes and escaping exceptions
    LateHeartbeats \* BOOLEAN: whether a held lease may expire

ASSUME PipelineAssumption ==
    /\ IsFiniteSet(ApiRunners)
    /\ ApiRunners \intersect Executors = {}
    /\ DirectText \subseteq Jobs
    /\ PageOf \in [Jobs -> Pages]
    /\ NoContent \notin Contents
    /\ MaxAttempts \in Nat \ {0}
    /\ MaxAborts \in Nat
    /\ LateHeartbeats \in BOOLEAN

VARIABLES
    status, worker, lease, version, stamped, claim,
    document, chunks, receipt, prepared,
    step,        \* jobs.current_step, 0 for NULL
    count,       \* jobs.current_step_attempt_count
    ckpt,        \* jobs.last_completed_step, 0 for NULL
    attempts,    \* status of each ingestion_step_executions row
    run,         \* what each runner executes
    aborts       \* crashes and escaping exceptions so far

Runners == Executors \union ApiRunners

Lease == INSTANCE IngestionLease
Knowledge == INSTANCE KnowledgePersistence WITH Writers <- Runners

leaseVars == <<status, worker, lease, version, stamped, claim>>
knowledgeVars == <<document, chunks, receipt, prepared>>
progressVars == <<step, count, ckpt>>
vars == <<status, worker, lease, version, stamped, claim, document, chunks, receipt,
          prepared, step, count, ckpt, attempts, run, aborts>>

NoStep  == 0
Parse   == 1
Chunk   == 2
Embed   == 3
Persist == 4
Steps   == 1..4

\* The steps whose completion is committed to the row: website outputs are
\* transient, so only PERSIST is.
CheckpointSteps == {Persist}

\* Attempt numbers a run of this model can reach: retries, one increment per
\* recovery, one more for a runner without a claim.
MaxNumber == MaxAttempts + MaxVersion + Cardinality(ApiRunners)
AttemptStates == {"none", "running", "completed", "failed", "interrupted"}

\* The DocumentIngestionJob a runner holds in memory.
JobCopies == [status : Lease!Statuses, step : 0..4, count : Nat, ckpt : 0..4]
Points == {"interrupt", "load", "start", "context", "step", "attempt", "execute",
           "record", "retry", "checkpoint", "fail"}
Outcomes == {"success", "retryable", "permanent"}
Runs == [job : Jobs, at : Points, copy : JobCopies, next : 1..5,
         parsed : Contents \union {NoContent}, chunked : Contents \union {NoContent},
         outcome : Outcomes]

ASSUME ComposedAssumption ==
    /\ Lease!LeaseAssumption
    /\ Knowledge!KnowledgeAssumption
    /\ NoRun \notin Runs

Row(j) == [status |-> status[j], step |-> step[j], count |-> count[j], ckpt |-> ckpt[j]]

Init ==
    /\ Lease!Init
    /\ Knowledge!Init
    /\ step = [j \in Jobs |-> NoStep]
    /\ count = [j \in Jobs |-> 0]
    /\ ckpt = [j \in Jobs |-> NoStep]
    /\ attempts = [j \in Jobs |-> [s \in Steps |-> [n \in 1..MaxNumber |-> "none"]]]
    /\ run = [r \in Runners |-> NoRun]
    /\ aborts = 0

-----------------------------------------------------------------------------
(* The runner's execution and its writes to the job row                    *)

At(r, point) == run[r] # NoRun /\ run[r].at = point

Began(j, point) ==
    [job |-> j, at |-> point, copy |-> Row(j), next |-> 1,
     parsed |-> NoContent, chunked |-> NoContent, outcome |-> "success"]

\* Mutant: an execution that gives up puts its job back into the queue, unfenced.
AbandonRequeues(r) ==
    /\ run' = [run EXCEPT ![r] = NoRun]
    /\ prepared' = [prepared EXCEPT ![r] = NoPlan]
    /\ claim' = [e \in Executors |-> IF e = r THEN NoClaim ELSE claim[e]]
    /\ status' = [status EXCEPT ![run[r].job] = "queued"]
    /\ UNCHANGED <<worker, lease, version, stamped, progressVars>>
    /\ UNCHANGED <<document, chunks, receipt, attempts>>

\* Mutant: an execution that gives up takes back the receipt of its job.
AbandonDropsReceipt(r) ==
    /\ run' = [run EXCEPT ![r] = NoRun]
    /\ prepared' = [prepared EXCEPT ![r] = NoPlan]
    /\ claim' = [e \in Executors |-> IF e = r THEN NoClaim ELSE claim[e]]
    /\ receipt' = [receipt EXCEPT ![run[r].job] = NoReceipt]
    /\ UNCHANGED <<status, worker, lease, version, stamped, progressVars>>
    /\ UNCHANGED <<document, chunks, attempts>>

\* The execution ends without a write to its row; a worker's slot is free again.
Abandon(r) ==
    /\ run' = [run EXCEPT ![r] = NoRun]
    /\ prepared' = [prepared EXCEPT ![r] = NoPlan]
    /\ claim' = [e \in Executors |-> IF e = r THEN NoClaim ELSE claim[e]]
    /\ UNCHANGED <<status, worker, lease, version, stamped, progressVars>>
    /\ UNCHANGED <<document, chunks, receipt, attempts>>

\* Mutant: an UPDATE that forgets the last_completed_step column.
ProgressWithoutCheckpoint(j, copy) ==
    /\ step' = [step EXCEPT ![j] = copy.step]
    /\ count' = [count EXCEPT ![j] = copy.count]
    /\ UNCHANGED ckpt

Progress(j, copy) ==
    /\ step' = [step EXCEPT ![j] = copy.step]
    /\ count' = [count EXCEPT ![j] = copy.count]
    /\ ckpt' = [ckpt EXCEPT ![j] = copy.ckpt]

\* update of the fenced repository; a claim that does not hold any more raises
\* IngestionOwnershipLost, which ends the execution.
FencedUpdate(r, copy, continued) ==
    LET j == run[r].job IN
    IF ~Lease!Fenced(r, j) THEN Abandon(r)
    ELSE /\ Progress(j, copy)
         /\ UNCHANGED <<document, chunks, receipt, attempts>>
         /\ IF copy.status \in Lease!Terminal
            THEN /\ Lease!Finish(r, j, copy.status)
                 /\ run' = [run EXCEPT ![r] = NoRun]
                 /\ prepared' = [prepared EXCEPT ![r] = NoPlan]
            ELSE /\ UNCHANGED <<leaseVars, prepared>>
                 /\ run' = [run EXCEPT ![r] = continued]

\* update of the plain repository: by primary key only, whatever the row says,
\* and without the ownership columns.
PlainUpdate(r, copy, continued) ==
    LET j == run[r].job IN
    /\ Progress(j, copy)
    /\ status' = [status EXCEPT ![j] = copy.status]
    /\ UNCHANGED <<worker, lease, version, stamped, claim>>
    /\ UNCHANGED <<document, chunks, receipt, attempts>>
    /\ IF copy.status \in Lease!Terminal
       THEN /\ run' = [run EXCEPT ![r] = NoRun]
            /\ prepared' = [prepared EXCEPT ![r] = NoPlan]
       ELSE /\ run' = [run EXCEPT ![r] = continued]
            /\ UNCHANGED prepared

\* Mutant: a worker that runs on the repository of the request threads.
UnfencedUpdate(r, copy, continued) == PlainUpdate(r, copy, continued)

Update(r, copy, continued) ==
    IF r \in Executors THEN FencedUpdate(r, copy, continued)
    ELSE PlainUpdate(r, copy, continued)

\* The runner moves on in its own thread.
Advance(r, continued) ==
    /\ run' = [run EXCEPT ![r] = continued]
    /\ UNCHANGED <<leaseVars, progressVars>>

-----------------------------------------------------------------------------
(* Beginning an execution                                                  *)

\* A recovered claim, of a row found running, counts as one more attempt of the
\* step the row stands at.
Poll(e, j) ==
    /\ run[e] = NoRun
    /\ Lease!Claim(e, j)
    /\ count' = IF status[j] = "running" /\ step[j] # NoStep
                THEN [count EXCEPT ![j] = @ + 1] ELSE count
    /\ run' = [run EXCEPT
          ![e] = Began(j, IF status[j] = "running" THEN "interrupt" ELSE "load")]
    /\ UNCHANGED <<knowledgeVars, step, ckpt, attempts, aborts>>

\* POST /ingestion/jobs/{id}/run
Request(r, j) ==
    /\ r \in ApiRunners
    /\ run[r] = NoRun
    /\ run' = [run EXCEPT ![r] = Began(j, "load")]
    /\ UNCHANGED <<leaseVars, knowledgeVars, progressVars, attempts, aborts>>

\* interrupt_running_attempts, before a recovered job is run; it is not fenced.
Interrupt(r) ==
    LET j == run[r].job IN
    /\ At(r, "interrupt")
    /\ attempts' = [attempts EXCEPT ![j] = [s \in Steps |-> [n \in 1..MaxNumber |->
          IF @[s][n] = "running" THEN "interrupted" ELSE @[s][n]]]]
    /\ Advance(r, [run[r] EXCEPT !.at = "load"])
    /\ UNCHANGED <<knowledgeVars, aborts>>

CheckpointError(copy) ==
    \/ copy.status = "completed" /\ copy.ckpt # Persist
    \/ copy.status = "queued" /\ copy.ckpt # NoStep

\* get_by_id; a terminal or inconsistent job is rejected, a queued one is to be
\* marked running.
Load(r) ==
    LET copy == Row(run[r].job) IN
    /\ At(r, "load")
    /\ IF CheckpointError(copy) \/ copy.status \in Lease!Terminal THEN Abandon(r)
       ELSE /\ Advance(r, [run[r] EXCEPT
                  !.at = IF copy.status = "queued" THEN "start" ELSE "context",
                  !.copy = [copy EXCEPT !.status = "running"],
                  !.next = copy.ckpt + 1])
            /\ UNCHANGED <<knowledgeVars, attempts>>
    /\ UNCHANGED aborts

Start(r) ==
    /\ At(r, "start")
    /\ Update(r, run[r].copy, [run[r] EXCEPT !.at = "context"])
    /\ UNCHANGED aborts

\* The outputs up to this step are rebuilt before the first step runs.
ReconstructionStep(copy) ==
    IF copy.step # NoStep /\ copy.count > 0 THEN copy.step - 1 ELSE copy.ckpt

\* The context factory loads the source again from documents.source_url, which
\* is not a URL for a direct text, and processes and embeds what it loads.
\* Any exception fails the job.
Reconstruct(r) ==
    LET last == ReconstructionStep(run[r].copy)
        j == run[r].job
        content == [run[r] EXCEPT !.at = "step"] IN
    /\ At(r, "context")
    /\ \/ /\ last = NoStep
          /\ Advance(r, content)
          /\ UNCHANGED knowledgeVars
       \/ /\ last >= Parse
          /\ j \notin DirectText
          /\ \E found \in Contents :
                /\ Advance(r, [content EXCEPT !.parsed = found,
                      !.chunked = IF last >= Chunk THEN found ELSE NoContent])
                /\ IF last >= Embed THEN Knowledge!Prepare(r, j, found)
                   ELSE UNCHANGED knowledgeVars
       \/ /\ last >= Parse
          /\ Advance(r, [run[r] EXCEPT !.at = "fail"])
          /\ UNCHANGED knowledgeVars
    /\ UNCHANGED <<attempts, aborts>>

-----------------------------------------------------------------------------
(* The orchestration loop                                                  *)

\* set_current_step and begin_step_attempt: a new step starts at attempt 1, a
\* recovered one keeps the number the claim has counted, without a write.
BeginStep(r) ==
    LET copy == run[r].copy
        first == [copy EXCEPT !.step = run[r].next, !.count = 1]
        resumed == copy.step = run[r].next /\ copy.count > 0 IN
    /\ At(r, "step")
    /\ run[r].next \in Steps
    /\ IF resumed
       THEN /\ Advance(r, [run[r] EXCEPT !.at = "attempt"])
            /\ UNCHANGED <<knowledgeVars, attempts>>
       ELSE Update(r, first, [run[r] EXCEPT !.at = "attempt", !.copy = first])
    /\ UNCHANGED aborts

\* start_attempt inserts the history row (job, step, attempt_number). One that
\* exists raises ValueError, which nothing in the runner catches.
StartAttempt(r) ==
    LET j == run[r].job
        s == run[r].copy.step
        n == run[r].copy.count IN
    /\ At(r, "attempt")
    /\ IF attempts[j][s][n] = "none"
       THEN /\ attempts' = [attempts EXCEPT ![j][s][n] = "running"]
            /\ Advance(r, [run[r] EXCEPT !.at = "execute"])
            /\ UNCHANGED knowledgeVars
       ELSE Abandon(r)
    /\ UNCHANGED aborts

Result(r, outcome) == [run[r] EXCEPT !.at = "record", !.outcome = outcome]

ExecuteParse(r) ==
    /\ run[r].copy.step = Parse
    /\ UNCHANGED knowledgeVars
    /\ \/ \E found \in Contents :
             Advance(r, [Result(r, "success") EXCEPT !.parsed = found])
       \/ \E failure \in {"retryable", "permanent"} :
             run[r].job \notin DirectText /\ Advance(r, Result(r, failure))

\* Cleaning and chunking are deterministic: a failure would recur.
ExecuteChunk(r) ==
    /\ run[r].copy.step = Chunk
    /\ UNCHANGED knowledgeVars
    /\ \/ Advance(r, [Result(r, "success") EXCEPT !.chunked = run[r].parsed])
       \/ Advance(r, Result(r, "permanent"))

ExecuteEmbed(r) ==
    /\ run[r].copy.step = Embed
    /\ \/ /\ Knowledge!Prepare(r, run[r].job, run[r].chunked)
          /\ Advance(r, Result(r, "success"))
       \/ /\ UNCHANGED knowledgeVars
          /\ \E failure \in {"retryable", "permanent"} : Advance(r, Result(r, failure))

\* The final transaction. A connection lost during COMMIT reports a transient
\* failure although the transaction may have committed.
ExecutePersist(r) ==
    /\ run[r].copy.step = Persist
    /\ \/ Knowledge!Commit(r) /\ Advance(r, Result(r, "success"))
       \/ Knowledge!Replay(r) /\ Advance(r, Result(r, "success"))
       \/ Knowledge!Commit(r) /\ Advance(r, Result(r, "retryable"))
       \/ Knowledge!RollBack(r) /\ Advance(r, Result(r, "retryable"))
       \/ Knowledge!Refuse(r) /\ Advance(r, Result(r, "permanent"))

Execute(r) ==
    /\ At(r, "execute")
    /\ ExecuteParse(r) \/ ExecuteChunk(r) \/ ExecuteEmbed(r) \/ ExecutePersist(r)
    /\ UNCHANGED <<attempts, aborts>>

\* should_retry
ShouldRetry(r) == run[r].outcome = "retryable" /\ run[r].copy.count < MaxAttempts

\* Mutant: the PERSIST step is checkpointed whatever its result.
AfterAttemptIgnoresResult(r) ==
    IF run[r].copy.step \in CheckpointSteps
    THEN [run[r] EXCEPT !.at = "checkpoint"]
    ELSE IF run[r].outcome = "success"
         THEN [run[r] EXCEPT !.at = "step", !.next = @ + 1, !.copy.count = 0]
         ELSE [run[r] EXCEPT !.at = IF ShouldRetry(r) THEN "retry" ELSE "fail"]

\* Mutant: the loop does not move to the next step.
AfterAttemptSameStep(r) ==
    IF run[r].outcome = "success"
    THEN IF run[r].copy.step \in CheckpointSteps
         THEN [run[r] EXCEPT !.at = "checkpoint"]
         ELSE [run[r] EXCEPT !.at = "step", !.copy.count = 0]
    ELSE [run[r] EXCEPT !.at = IF ShouldRetry(r) THEN "retry" ELSE "fail"]

AfterAttempt(r) ==
    IF run[r].outcome = "success"
    THEN IF run[r].copy.step \in CheckpointSteps
         THEN [run[r] EXCEPT !.at = "checkpoint"]
         ELSE [run[r] EXCEPT !.at = "step", !.next = @ + 1, !.copy.count = 0]
    ELSE [run[r] EXCEPT !.at = IF ShouldRetry(r) THEN "retry" ELSE "fail"]

\* Mutant: the UPDATE of the history row without AND status = 'running'.
RecordAttemptUnchecked(r) ==
    LET j == run[r].job
        s == run[r].copy.step
        n == run[r].copy.count IN
    /\ At(r, "record")
    /\ attempts' = [attempts EXCEPT ![j][s][n] =
          IF run[r].outcome = "success" THEN "completed" ELSE "failed"]
    /\ Advance(r, AfterAttempt(r))
    /\ UNCHANGED <<knowledgeVars, aborts>>

\* complete_attempt or fail_attempt: only a running attempt takes a result, else
\* a ValueError ends the execution.
RecordAttempt(r) ==
    LET j == run[r].job
        s == run[r].copy.step
        n == run[r].copy.count IN
    /\ At(r, "record")
    /\ IF attempts[j][s][n] = "running"
       THEN /\ attempts' = [attempts EXCEPT ![j][s][n] =
                  IF run[r].outcome = "success" THEN "completed" ELSE "failed"]
            /\ Advance(r, AfterAttempt(r))
            /\ UNCHANGED knowledgeVars
       ELSE Abandon(r)
    /\ UNCHANGED aborts

\* record_retry counts the next attempt in the row and reloads the job from it.
RecordRetry(r) ==
    LET j == run[r].job
        counted == [Row(j) EXCEPT !.count = @ + 1] IN
    /\ At(r, "retry")
    /\ IF /\ status[j] = "running"
          /\ step[j] = run[r].copy.step
          /\ r \in Executors => Lease!Fenced(r, j)
       THEN /\ count' = [count EXCEPT ![j] = @ + 1]
            /\ run' = [run EXCEPT ![r] = [@ EXCEPT !.at = "attempt", !.copy = counted]]
            /\ UNCHANGED <<leaseVars, knowledgeVars, step, ckpt, attempts>>
       ELSE Abandon(r)
    /\ UNCHANGED aborts

Checkpoint(r) ==
    LET copy == [run[r].copy EXCEPT !.ckpt = run[r].copy.step, !.count = 0] IN
    /\ At(r, "checkpoint")
    /\ Update(r, copy, [run[r] EXCEPT !.at = "step", !.next = @ + 1, !.copy = copy])
    /\ UNCHANGED aborts

\* mark_completed, when no step is left
Complete(r) ==
    /\ At(r, "step")
    /\ run[r].next \notin Steps
    /\ Update(r, [run[r].copy EXCEPT !.status = "completed", !.step = NoStep, !.count = 0],
              NoRun)
    /\ UNCHANGED aborts

\* mark_failed
Fail(r) ==
    /\ At(r, "fail")
    /\ Update(r, [run[r].copy EXCEPT !.status = "failed"], NoRun)
    /\ UNCHANGED aborts

\* The process dies, or an exception of the job repository escapes the runner.
Abort(r) ==
    /\ run[r] # NoRun
    /\ aborts < MaxAborts
    /\ aborts' = aborts + 1
    /\ Abandon(r)

-----------------------------------------------------------------------------
(* Heartbeats, time and maintenance                                        *)

Heartbeat(e, j) ==
    /\ Lease!Renew(e, j)
    /\ UNCHANGED <<knowledgeVars, progressVars, attempts, run, aborts>>

LeaseAges(j) ==
    /\ LateHeartbeats \/ ~Lease!Held(j)
    /\ Lease!LeaseAges(j)
    /\ UNCHANGED <<knowledgeVars, progressVars, attempts, run, aborts>>

\* The receipt is the job's own document alone, still active, with its chunks.
ExactlyCommitted(j) ==
    LET p == PageOf[j] IN
    /\ receipt[j] # NoReceipt
    /\ DOMAIN receipt[j] = {p}
    /\ document[p] # NoDocument
    /\ document[p].job = j
    /\ chunks[p] # {}
    /\ \A row \in chunks[p] : row.job = j

CompleteCommitted(j) ==
    /\ ExactlyCommitted(j)
    /\ Lease!CompleteCommitted(j)
    /\ Progress(j, [step |-> NoStep, count |-> 0, ckpt |-> Persist])
    /\ UNCHANGED <<knowledgeVars, attempts, run, aborts>>

\* Any other receipt, or a checkpoint ahead of its step, is left for review.
ResetQueued(j) ==
    /\ receipt[j] = NoReceipt
    /\ step[j] >= ckpt[j]
    /\ Lease!ResetQueued(j)
    /\ UNCHANGED <<knowledgeVars, progressVars, attempts, run, aborts>>

ClearOwnership(j) ==
    /\ Lease!ClearOwnership(j)
    /\ UNCHANGED <<knowledgeVars, progressVars, attempts, run, aborts>>

-----------------------------------------------------------------------------
RunnerStep(r) ==
    \/ Interrupt(r)
    \/ Load(r)
    \/ Start(r)
    \/ Reconstruct(r)
    \/ BeginStep(r)
    \/ StartAttempt(r)
    \/ Execute(r)
    \/ RecordAttempt(r)
    \/ RecordRetry(r)
    \/ Checkpoint(r)
    \/ Complete(r)
    \/ Fail(r)

Next ==
    \/ \E e \in Executors, j \in Jobs : Poll(e, j) \/ Heartbeat(e, j)
    \/ \E r \in ApiRunners, j \in Jobs : Request(r, j)
    \/ \E r \in Runners : RunnerStep(r) \/ Abort(r)
    \/ \E j \in Jobs :
          \/ LeaseAges(j)
          \/ CompleteCommitted(j)
          \/ ResetQueued(j)
          \/ ClearOwnership(j)

Spec == Init /\ [][Next]_vars

\* Workers poll, every call of an execution returns (the loader, the provider
\* and the database have timeouts), and an unheld lease expires.
Fairness ==
    /\ \A j \in Jobs : WF_vars(\E e \in Executors : Poll(e, j))
    /\ \A r \in Runners : WF_vars(RunnerStep(r))
    /\ \A j \in Jobs : WF_vars(~Lease!Held(j) /\ LeaseAges(j))

FairSpec == Spec /\ Fairness

-----------------------------------------------------------------------------
(* Properties                                                              *)

TypeOK ==
    /\ Lease!TypeOK
    /\ Knowledge!TypeOK
    /\ step \in [Jobs -> 0..4]
    /\ count \in [Jobs -> 0..MaxNumber]
    /\ ckpt \in [Jobs -> 0..4]
    /\ attempts \in [Jobs -> [Steps -> [1..MaxNumber -> AttemptStates]]]
    /\ run \in [Runners -> Runs \union {NoRun}]
    /\ \A r \in Runners : run[r] # NoRun => run[r].copy.count <= MaxNumber
    /\ aborts \in 0..MaxAborts

\* An execution that may still write its job has the row's progress in memory: its
\* whole-row UPDATEs never write back what another execution, a recovery or the
\* maintenance has changed meanwhile. (A step that needs no checkpoint resets its
\* attempt count in memory only.)
OwnerCopyIsCurrent ==
    /\ TypeOK
    /\ \A e \in Executors :
           /\ run[e] # NoRun
           /\ run[e].at \notin {"interrupt", "load"}
           /\ Lease!Fenced(e, run[e].job)
           => /\ run[e].copy.step = step[run[e].job]
              /\ run[e].copy.ckpt = ckpt[run[e].job]
              /\ run[e].copy.count = count[run[e].job] \/ run[e].at = "step"

\* A job that is completed, or whose PERSIST checkpoint is set, has committed its
\* knowledge, whoever set it: the runner, a recovery, or the maintenance.
CompletedIsCommitted ==
    \A j \in Jobs :
        status[j] = "completed" \/ ckpt[j] = Persist => receipt[j] # NoReceipt

\* An execution that has lost its job no longer changes the job's row.
SupersededNeverWrites ==
    [][\A e \in Executors, j \in Jobs :
          /\ run[e] # NoRun
          /\ run[e].job = j
          /\ run'[e] # run[e]
          /\ ~Lease!Fenced(e, j)
          => Row(j)' = Row(j)]_vars

\* "Terminal results cannot overwrite one another": a step attempt that has an
\* outcome keeps it, also when its execution returns after a recovery has marked
\* it interrupted.
AttemptResultsAreFinal ==
    [][\A j \in Jobs, s \in Steps, n \in 1..MaxNumber :
          attempts[j][s][n] \notin {"none", "running"}
             => attempts'[j][s][n] = attempts[j][s][n]]_vars

\* The job rows, claims and leases behave as IngestionLease says, whatever the
\* pipeline does under a claim.
LeaseSpec == Lease!Spec

\* What the pipeline does to documents, chunks and receipts are steps of
\* KnowledgePersistence, with a writer per runner.
KnowledgeSpec == Knowledge!Spec

\* With heartbeats in time and no crash every job is completed or failed.
JobsSettle == \A j \in Jobs : <>[](status[j] \in Lease!Terminal)

-----------------------------------------------------------------------------
(* What the documentation says and the code does not do                    *)

\* "The first attempt is 1 and a retry or recovered execution gets the next
\* number": an execution that owns its job starts no attempt that exists.
AttemptNumberIsNew ==
    \A e \in Executors :
        At(e, "attempt") /\ Lease!Fenced(e, run[e].job) =>
            attempts[run[e].job][run[e].copy.step][run[e].copy.count] = "none"

\* "INGESTION_RETRY_MAX_ATTEMPTS is the total executions allowed for one step,
\* including attempt 1".
AttemptsWithinMaximum ==
    \A j \in Jobs, s \in Steps :
        Cardinality({n \in 1..MaxNumber : attempts[j][s][n] # "none"}) <= MaxAttempts

\* "A terminal ingestion job cannot be changed": see TerminalIsFinal of
\* IngestionLease, here with runners that have no claim.
TerminalIsFinal ==
    [][\A j \in Jobs : status[j] \in Lease!Terminal => status'[j] = status[j]]_vars

\* "an interruption after atomic persistence safely re-enters the idempotent
\* persistence boundary": a job whose PERSIST attempt was interrupted after it had
\* committed does not end as failed.
InterruptedCommitNeverFails ==
    \A j \in Jobs :
        /\ receipt[j] # NoReceipt
        /\ \E n \in 1..MaxNumber : attempts[j][Persist][n] = "interrupted"
        => status[j] # "failed"

\* "a worker can reconstruct direct text after an API restart": a direct text
\* fails by a step of its own, never because its context cannot be rebuilt.
DirectTextReconstructs ==
    \A j \in DirectText :
        status[j] = "failed" =>
            \E s \in Steps, n \in 1..MaxNumber : attempts[j][s][n] = "failed"
=============================================================================
