--------------------------- MODULE FileIngestion ---------------------------
(***************************************************************************)
(* POST /ingest/upload and the maintenance that removes what it leaves     *)
(* behind: temporary uploads and terminal jobs.                            *)
(*                                                                         *)
(* An upload is written to disk first. The submission then decides in a    *)
(* transaction whose reads take no lock: Look reads, Write commits or      *)
(* loses against a unique index and is tried once more. Files and jobs are *)
(* numbered in the order of their creation, which is their order by        *)
(* modification time and by created_at.                                    *)
(***************************************************************************)
EXTENDS Naturals, FiniteSets, FiniteSetsExt

CONSTANTS
    Docs,         \* documents of the Redmoor assistant
    Websites,     \* those that exist from the start, with a source_url
    Contents,     \* fingerprints
    Roles,        \* normalised access_roles
    Keys,         \* Idempotency-Key values
    Requests,     \* what clients may send: [content, roles, doc, force, key]
    Threads,      \* request threads
    Sweepers,     \* maintenance processes
    BatchSize, MaxBatches,   \* settings of the maintenance
    MaxFiles, MaxJobs,       \* bounds on uploads and jobs
    NoDoc,        \* no document_id in the request
    NoKey,        \* no Idempotency-Key header
    None,         \* no such row
    Nobody        \* the advisory lock is free

Files == 1 .. MaxFiles
Jobs == 1 .. MaxJobs
Active == {"queued", "running"}
NoFile == 0       \* upload_path IS NULL
NoContent == None \* checksum IS NULL
Idle == [at |-> "idle"]

DocRows == [content : Contents \union {NoContent}, roles : Roles, file : Files \union {NoFile},
            last : Jobs \union {0}]
JobRows == [doc : Docs, status : Active \union {"completed", "failed"}, content : Contents]
RequestRows == [content : Contents, force : BOOLEAN, decision : [doc : Docs, job : Jobs]]

ASSUME FileAssumption ==
    /\ Websites \subseteq Docs /\ NoDoc \notin Docs /\ NoKey \notin Keys
    /\ Requests \subseteq [content : Contents, roles : Roles, doc : Docs \union {NoDoc},
                           force : BOOLEAN, key : Keys \union {NoKey}]
    /\ BatchSize \in Nat \ {0} /\ MaxBatches \in Nat \ {0}
    /\ MaxFiles \in Nat /\ MaxJobs \in Nat
    /\ None \notin DocRows \union JobRows \union RequestRows

VARIABLES
    docs,         \* documents rows: [content, roles, file, last]
    jobs,         \* document_ingestion_jobs rows: [doc, status, content]
    requests,     \* ingestion_file_requests: the stored answer of each key
    results,      \* jobs with a row in ingestion_persistence_results
    nextJob,      \* number of the next job
    disk,         \* uploads on disk
    nextFile,     \* number of the next upload
    old,          \* uploads older than TEMPORARY_SOURCE_RETENTION_HOURS
    thread,       \* what each request thread is doing
    lock,         \* the advisory lock of the temporary-source category
    sweep,        \* the state of each maintenance process
    answers       \* history: what keyed uploads were answered

tables == <<docs, jobs, requests, results, nextJob>>
uploads == <<disk, nextFile, old>>
sweepVars == <<lock, sweep>>
fileVars == <<tables, uploads, thread, sweepVars, answers>>

IsJob(j) == jobs[j] # None
JobsOf(d) == {j \in Jobs : IsJob(j) /\ jobs[j].doc = d}
ActiveFileJobs(d) == {j \in JobsOf(d) : jobs[j].status \in Active /\ jobs[j].content # NoContent}

Init ==
    /\ docs \in {[d \in Docs |-> IF d \in Websites THEN [content |-> NoContent, roles |-> r,
                                                         file |-> NoFile, last |-> 0]
                                 ELSE None] : r \in Roles}
    /\ jobs = [j \in Jobs |-> None]
    /\ requests = [k \in Keys |-> None]
    /\ results = {}
    /\ nextJob = 1
    /\ disk = {} /\ nextFile = 1 /\ old = {}
    /\ thread = [t \in Threads |-> Idle]
    /\ lock = Nobody
    /\ sweep = [m \in Sweepers |-> Idle]
    /\ answers = {}

-----------------------------------------------------------------------------
(* The upload handler *)

Return(t) == thread' = [thread EXCEPT ![t] = Idle] /\ UNCHANGED answers

\* A decision naming a document and a job; keyed ones are promises.
Answer(t, request, decision) ==
    /\ thread' = [thread EXCEPT ![t] = Idle]
    /\ answers' = IF request.key = NoKey THEN answers
                  ELSE answers \union {[key |-> request.key, content |-> request.content,
                                        force |-> request.force, decision |-> decision]}

\* The bytes go to disk under a fresh name before anything is decided. (A file
\* that is empty or too large is unlinked by the handler that wrote it.)
WriteUpload(t, request) ==
    /\ thread[t] = Idle /\ nextFile \in Files
    /\ disk' = disk \union {nextFile}
    /\ nextFile' = nextFile + 1
    /\ thread' = [thread EXCEPT ![t] = [at |-> "look", request |-> request,
                                        file |-> nextFile, tries |-> 0]]
    /\ UNCHANGED <<tables, old, sweepVars, answers>>

\* The fingerprint cannot be calculated, or its size differs: the file stays.
FailFingerprint(t) ==
    /\ thread[t].at = "look" /\ thread[t].tries = 0
    /\ Return(t)
    /\ UNCHANGED <<tables, uploads, sweepVars>>

\* The document whose fingerprint and access scope the upload has.
Matches(r) == {d \in Docs : docs[d] # None /\ docs[d].content = r.content /\ docs[d].roles = r.roles}

\* _matching_result: reuse the active job, or the latest if it completed, or
\* queue another one (a recovery or a forced re-index).
JobForMatch(d, force) ==
    LET active == {j \in JobsOf(d) : jobs[j].status \in Active}
        latest == Max(JobsOf(d))
    IN IF active # {} THEN Max(active)
       ELSE IF JobsOf(d) # {} /\ jobs[latest].status = "completed" /\ ~force THEN latest
       ELSE 0

\* The reads of _submit_once.
Look(t) ==
    LET r == thread[t].request
        stored == IF r.key = NoKey THEN None ELSE requests[r.key]
        Decide(kind, d, j) == thread' = [thread EXCEPT ![t] = [at |-> "write", request |-> r,
                                  file |-> thread[t].file, tries |-> thread[t].tries,
                                  kind |-> kind, doc |-> d, job |-> j]]
    IN
    /\ thread[t].at = "look"
    /\ \/ /\ stored # None
          /\ IF stored.content = r.content /\ stored.force = r.force
             THEN Answer(t, r, stored.decision)
             ELSE Return(t)
       \/ /\ stored = None
          /\ \E d \in Matches(r) : Decide("match", d, JobForMatch(d, r.force))
          /\ UNCHANGED answers
       \/ /\ stored = None /\ Matches(r) = {}
          /\ \E d \in IF r.doc # NoDoc THEN {r.doc} ELSE {x \in Docs \ Websites : docs[x] = None} :
               IF docs[d] = None THEN Decide("new", d, 0) /\ UNCHANGED answers
               ELSE IF docs[d].roles # r.roles THEN Return(t)
               ELSE Decide("modified", d, 0) /\ UNCHANGED answers
    /\ UNCHANGED <<tables, uploads, sweepVars>>

\* Bug: the index of active jobs ignores running ones.
SecondActiveQueued(d) == \E j \in ActiveFileJobs(d) : jobs[j].status = "queued"

\* document_ingestion_jobs_active_document_unique_idx
SecondActive(d) == ActiveFileJobs(d) # {}

\* The unique indexes a submission may lose against: the request key, the
\* document's identity and fingerprint, the active job of a document.
UniqueViolation(w) ==
    LET r == w.request IN
    \/ r.key # NoKey /\ requests[r.key] # None
    \/ w.kind = "new" /\ docs[w.doc] # None
    \/ w.kind \in {"new", "modified"} /\ Matches(r) \ {w.doc} # {}
    \/ w.job = 0 /\ SecondActive(w.doc)

\* The writes of _submit_once, all or none. A job found before may have been
\* removed by retention: the receipt's foreign key refuses it.
Write(t) ==
    LET w == thread[t]
        r == w.request
        j == IF w.job = 0 THEN nextJob ELSE w.job
        decision == [doc |-> w.doc, job |-> j]
    IN
    /\ w.at = "write"
    /\ IF UniqueViolation(w)
       THEN /\ IF w.tries = 0
               THEN /\ thread' = [thread EXCEPT ![t] = [at |-> "look", request |-> r,
                                                        file |-> w.file, tries |-> 1]]
                    /\ UNCHANGED answers
               ELSE Return(t)
            /\ UNCHANGED tables
       ELSE IF w.job # 0 /\ ~IsJob(w.job) /\ r.key # NoKey THEN Return(t) /\ UNCHANGED tables
       ELSE /\ w.job = 0 => nextJob \in Jobs
            /\ docs' = IF w.kind = "match" THEN docs
                       ELSE [docs EXCEPT ![w.doc] = [content |-> r.content, roles |-> r.roles,
                                                     file |-> w.file,
                                                     last |-> IF @ = None THEN 0 ELSE @.last]]
            /\ jobs' = IF w.job # 0 THEN jobs
                       ELSE [jobs EXCEPT ![j] = [doc |-> w.doc, status |-> "queued",
                                                 content |-> r.content]]
            /\ nextJob' = IF w.job # 0 THEN nextJob ELSE nextJob + 1
            /\ requests' = IF r.key = NoKey THEN requests
                           ELSE [requests EXCEPT ![r.key] =
                                     [content |-> r.content, force |-> r.force,
                                      decision |-> decision]]
            /\ Answer(t, r, decision)
            /\ UNCHANGED results
    /\ UNCHANGED <<uploads, sweepVars>>

-----------------------------------------------------------------------------
(* Workers claim only jobs of documents with a source_url; the jobs of plain *)
(* uploads are run by the compatibility endpoint, which fails them.          *)

StartJob(j) ==
    /\ IsJob(j) /\ jobs[j].status = "queued"
    /\ jobs' = [jobs EXCEPT ![j].status = "running"]
    /\ UNCHANGED <<docs, requests, results, nextJob, uploads, thread, sweepVars, answers>>

CompleteJob(j) ==
    /\ IsJob(j) /\ jobs[j].status = "running" /\ jobs[j].doc \in Websites
    /\ jobs' = [jobs EXCEPT ![j].status = "completed"]
    /\ docs' = [docs EXCEPT ![jobs[j].doc].last = j]
    /\ results' = results \union {j}
    /\ UNCHANGED <<requests, nextJob, uploads, thread, sweepVars, answers>>

FailJob(j) ==
    /\ IsJob(j) /\ jobs[j].status = "running"
    /\ jobs' = [jobs EXCEPT ![j].status = "failed"]
    /\ UNCHANGED <<docs, requests, results, nextJob, uploads, thread, sweepVars, answers>>

-----------------------------------------------------------------------------
(* Maintenance *)

\* Bug: request receipts do not protect the job they name.
StoredAnswersIgnored(j) == FALSE

StoredAnswers(j) == \E k \in Keys : requests[k] # None /\ requests[k].decision.job = j

\* Terminal-job retention, row by row: the batch skips what others have locked.
\* Any terminal job may be old enough. The job's receipts go with it.
RetireJob(j) ==
    /\ IsJob(j) /\ jobs[j].status \notin Active
    /\ \A d \in Docs : docs[d] # None => docs[d].last # j
    /\ ~StoredAnswers(j)
    /\ jobs' = [jobs EXCEPT ![j] = None]
    /\ results' = results \ {j}
    /\ requests' = [k \in Keys |-> IF requests[k] # None /\ requests[k].decision.job = j
                                   THEN None ELSE requests[k]]
    /\ UNCHANGED <<docs, nextJob, uploads, thread, sweepVars, answers>>

\* Retention is counted in hours (at least one): no request lasts that long.
AgeUpload(f) ==
    /\ f \in disk \ old
    /\ \A t \in Threads : thread[t] # Idle => thread[t].file # f
    /\ \A g \in disk : g < f => g \in old
    /\ old' = old \union {f}
    /\ UNCHANGED <<tables, disk, nextFile, thread, sweepVars, answers>>

SweepTo(m, state) == sweep' = [sweep EXCEPT ![m] = state]

\* _finish, after the lock has been given back.
EndSweep(m, reason) ==
    /\ SweepTo(m, [at |-> "done", reason |-> reason, due |-> sweep[m].due,
                   spared |-> sweep[m].spared])
    /\ lock' = Nobody

\* pg_try_advisory_lock on the category; the cutoff is fixed for the whole run.
StartSweep(m) ==
    /\ sweep[m].at \in {"idle", "done"}
    /\ IF lock = Nobody
       THEN /\ lock' = m
            /\ SweepTo(m, [at |-> "batch", due |-> old \intersect disk, spared |-> {},
                           cursor |-> 0, batches |-> 0])
       ELSE /\ SweepTo(m, [at |-> "done", reason |-> "lock_unavailable",
                           due |-> {}, spared |-> {}])
            /\ UNCHANGED lock
    /\ UNCHANGED <<tables, uploads, thread, answers>>

Smallest(n, S) == {f \in S : Cardinality({g \in S : g < f}) < n}

\* The next candidates behind the cursor, in the order of the keyset.
NextBatch(m) ==
    LET s == sweep[m]
        candidates == Smallest(BatchSize, {f \in s.due \intersect disk : f > s.cursor})
    IN
    /\ s.at = "batch"
    /\ IF candidates = {}
       THEN EndSweep(m, "no_candidates")
       ELSE /\ SweepTo(m, [at |-> "files", due |-> s.due, spared |-> s.spared,
                           cursor |-> s.cursor, batches |-> s.batches,
                           todo |-> candidates, batch |-> candidates])
            /\ UNCHANGED lock
    /\ UNCHANGED <<tables, uploads, thread, answers>>

\* Bug: nobody asks the documents before a file is deleted.
NeverReferenced(f) == FALSE

\* _upload_path_is_referenced, on a connection of its own.
Referenced(f) == \E d \in Docs : docs[d] # None /\ docs[d].file = f

CheckFile(m) ==
    LET s == sweep[m]
        f == Min(s.todo)
    IN
    /\ s.at = "files" /\ s.todo # {}
    /\ \/ /\ Referenced(f)
          /\ SweepTo(m, [s EXCEPT !.todo = @ \ {f}, !.spared = @ \union {f}])
          /\ UNCHANGED lock
       \/ ~Referenced(f) /\ SweepTo(m, [s EXCEPT !.at = "unlink"]) /\ UNCHANGED lock
       \/ EndSweep(m, "process_error")        \* the reference check failed
    /\ UNCHANGED <<tables, uploads, thread, answers>>

\* Delete the file that was found unreferenced; an OSError is recorded and skipped.
Unlink(m) ==
    LET s == sweep[m]
        f == Min(s.todo)
        Next1(spared) == SweepTo(m, [s EXCEPT !.at = "files", !.todo = @ \ {f}, !.spared = spared])
    IN
    /\ s.at = "unlink"
    /\ \/ disk' = disk \ {f} /\ Next1(s.spared)
       \/ Next1(s.spared \union {f}) /\ UNCHANGED disk
    /\ UNCHANGED <<tables, nextFile, old, thread, lock, answers>>

\* Bug: a full last batch is taken for the end.
IsLastBatchOffByOne(batch) == Cardinality(batch) <= BatchSize

IsLastBatch(batch) == Cardinality(batch) < BatchSize

EndBatch(m) ==
    LET s == sweep[m] IN
    /\ s.at = "files" /\ s.todo = {}
    /\ IF IsLastBatch(s.batch) THEN EndSweep(m, "batch_exhausted")
       ELSE IF s.batches + 1 = MaxBatches THEN EndSweep(m, "max_batches_reached")
       ELSE /\ SweepTo(m, [at |-> "batch", due |-> s.due, spared |-> s.spared,
                           cursor |-> Max(s.batch), batches |-> s.batches + 1])
            /\ UNCHANGED lock
    /\ UNCHANGED <<tables, uploads, thread, answers>>

-----------------------------------------------------------------------------
Upload(t) ==
    \/ \E request \in Requests : WriteUpload(t, request)
    \/ FailFingerprint(t)
    \/ Look(t)
    \/ Write(t)

Work(j) == StartJob(j) \/ CompleteJob(j) \/ FailJob(j) \/ RetireJob(j)

Sweep(m) == StartSweep(m) \/ NextBatch(m) \/ CheckFile(m) \/ Unlink(m) \/ EndBatch(m)

Next ==
    \/ \E t \in Threads : Upload(t)
    \/ \E j \in Jobs : Work(j)
    \/ \E f \in Files : AgeUpload(f)
    \/ \E m \in Sweepers : Sweep(m)

Spec == Init /\ [][Next]_fileVars

-----------------------------------------------------------------------------
TypeOK ==
    /\ docs \in [Docs -> DocRows \union {None}]
    /\ jobs \in [Jobs -> JobRows \union {None}]
    /\ requests \in [Keys -> RequestRows \union {None}]
    /\ results \subseteq Jobs /\ disk \subseteq Files
    /\ lock \in Sweepers \union {Nobody}

\* The file a document was last registered with stays on disk, although uploads
\* that no document names are deleted while others are being submitted.
RegisteredUploadKept ==
    /\ TypeOK
    /\ \A d \in Docs : docs[d] # None /\ docs[d].file # NoFile => docs[d].file \in disk

\* A key is answered the same whenever it is used again with the same bytes and
\* intent, whether by replay or after a lost race, and whatever retention removes.
KeyedUploadsAgree ==
    \A x, y \in answers :
        x.key = y.key /\ x.content = y.content /\ x.force = y.force => x.decision = y.decision

\* While an upload's job is queued or running nobody replaces the bytes of its
\* document, although the submissions that try to do so read without a lock.
ContentFrozen ==
    [][\A d \in Docs : ActiveFileJobs(d) # {} => docs'[d].content = docs[d].content]_fileVars

\* A sweep that ends because its candidates are exhausted has removed every file
\* that was due when it began, except those it found referenced or could not delete.
ExhaustiveSweep ==
    \A m \in Sweepers :
        sweep[m].at = "done" /\ sweep[m].reason \in {"no_candidates", "batch_exhausted"}
            => sweep[m].due \intersect disk \subseteq sweep[m].spared
=============================================================================
