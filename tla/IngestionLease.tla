--------------------------- MODULE IngestionLease ---------------------------
(***************************************************************************)
(* Ownership of the rows of document_ingestion_jobs, the durable queue of  *)
(* the background ingestion worker: claiming, heartbeats, the worker/claim *)
(* version fence of every pipeline write, and stale-job reconciliation.    *)
(*                                                                         *)
(* What an execution does with its claim is left open here (it may finish  *)
(* the job or leave it behind at any moment); IngestionPipeline refines    *)
(* this module with the pipeline that runs under the claim.                *)
(*                                                                         *)
(* Time is abstracted to the phase of a row's lease_expires_at:            *)
(*   "unset"    the column is NULL                                         *)
(*   "live"     lease_expires_at is after the database's NOW()             *)
(*   "expired"  NOW() has reached it                                       *)
(*   "stale"    it is older than the maintenance grace period as well      *)
(* Claims and heartbeats compare the lease with the clock of the process   *)
(* that issues them, not with NOW(), and write a lease computed from it:    *)
(* an executor in Skewed, whose clock disagrees or whose statement runs    *)
(* long after its clock was read, may take a live lease for expired, its   *)
(* own expired lease for live, and write a lease that has already expired. *)
(***************************************************************************)
EXTENDS Naturals

CONSTANTS
    Jobs,        \* rows of document_ingestion_jobs with a website source
    Executors,   \* execution slots of the worker processes (one thread each)
    WorkerIds,   \* configured worker identities
    WorkerOf,    \* the worker identity under which a slot claims
    Skewed,      \* slots whose process clock disagrees with the database
    NoWorker,    \* worker_id IS NULL
    NoClaim,     \* a slot that executes nothing
    MaxVersion   \* bound on claim_version

ASSUME LeaseAssumption ==
    /\ WorkerOf \in [Executors -> WorkerIds]
    /\ Skewed \subseteq Executors
    /\ NoWorker \notin WorkerIds
    /\ NoClaim \notin [job : Jobs, version : Nat]
    /\ MaxVersion \in Nat

VARIABLES
    status,      \* jobs.status
    worker,      \* jobs.worker_id
    lease,       \* phase of jobs.lease_expires_at
    version,     \* jobs.claim_version
    stamped,     \* jobs.claimed_at or jobs.last_heartbeat_at IS NOT NULL
    claim        \* the IngestionJobClaim each slot executes

leaseVars == <<status, worker, lease, version, stamped, claim>>

Statuses == {"queued", "running", "completed", "failed"}

Terminal == {"completed", "failed"}
Phases   == {"unset", "live", "expired", "stale"}
Claims   == [job : Jobs, version : Nat]

\* A job is inserted as queued; a row that was already running when the lease
\* columns were added by the migration has no lease.
Init ==
    /\ status \in [Jobs -> {"queued", "running"}]
    /\ worker = [j \in Jobs |-> NoWorker]
    /\ lease = [j \in Jobs |-> "unset"]
    /\ version = [j \in Jobs |-> 0]
    /\ stamped = [j \in Jobs |-> FALSE]
    /\ claim = [e \in Executors |-> NoClaim]

-----------------------------------------------------------------------------
\* lease_expires_at <= now, by the clock of the slot that polls
SeesExpired(e, j) ==
    \/ lease[j] \in {"expired", "stale"}
    \/ e \in Skewed /\ lease[j] = "live"

\* Mutant: a heartbeat that does not look at the lease it extends.
SeesAnyLease(e, j) == TRUE

\* lease_expires_at > now, by the clock of the slot's heartbeat thread
SeesLive(e, j) ==
    \/ lease[j] = "live"
    \/ e \in Skewed /\ lease[j] = "expired"

\* Mutant: the polling condition without the parentheses after running.
ClaimableUnparenthesized(e, j) ==
    \/ status[j] = "queued"
    \/ status[j] = "running" /\ lease[j] = "unset"
    \/ SeesExpired(e, j)
    \/ lease[j] = "unset"

\* Mutant: SQL's NULL <= now is not true.
ClaimableWithLease(e, j) ==
    \/ status[j] = "queued"
    \/ status[j] = "running" /\ SeesExpired(e, j)

Claimable(e, j) ==
    \/ status[j] = "queued"
    \/ /\ status[j] = "running"
       /\ lease[j] = "unset" \/ SeesExpired(e, j)

\* status = 'running' AND worker_id = .. AND claim_version = ..
Holds(e, j) ==
    /\ claim[e] # NoClaim
    /\ claim[e].job = j
    /\ status[j] = "running"
    /\ worker[j] = WorkerOf[e]
    /\ version[j] = claim[e].version

\* The fence of every pipeline write: the exact claim, and an unexpired lease
\* by the database's clock.
Fenced(e, j) == Holds(e, j) /\ lease[j] = "live"

Held(j) == \E e \in Executors : Holds(e, j)

-----------------------------------------------------------------------------
\* Mutant: an UPDATE that forgets claim_version = claim_version + 1.
SameVersion(j) == version[j]

\* claim_version + 1
NextVersion(j) == version[j] + 1

\* The phase of a lease of now + lease_duration, by the clock of the slot
GrantedLease(e) == IF e \in Skewed THEN {"live", "expired"} ELSE {"live"}

\* SELECT .. FOR UPDATE SKIP LOCKED, then the UPDATE that takes the row.
\* Which of several eligible rows is taken is left open.
Claim(e, j) ==
    /\ claim[e] = NoClaim
    /\ Claimable(e, j)
    /\ version[j] < MaxVersion
    /\ status' = [status EXCEPT ![j] = "running"]
    /\ worker' = [worker EXCEPT ![j] = WorkerOf[e]]
    /\ \E granted \in GrantedLease(e) : lease' = [lease EXCEPT ![j] = granted]
    /\ version' = [version EXCEPT ![j] = NextVersion(j)]
    /\ stamped' = [stamped EXCEPT ![j] = TRUE]
    /\ claim' = [claim EXCEPT ![e] = [job |-> j, version |-> NextVersion(j)]]

\* One heartbeat. A refused heartbeat changes nothing: the thread only flags
\* ownership_lost, which the execution reads after its pipeline has returned.
Renew(e, j) ==
    /\ Holds(e, j)
    /\ SeesLive(e, j)
    /\ \E granted \in GrantedLease(e) : lease' = [lease EXCEPT ![j] = granted]
    /\ UNCHANGED <<status, worker, version, stamped, claim>>

\* The fenced update that makes the job terminal also clears its ownership
\* (but neither claimed_at nor last_heartbeat_at); the execution then returns.
Finish(e, j, outcome) ==
    /\ Fenced(e, j)
    /\ status' = [status EXCEPT ![j] = outcome]
    /\ worker' = [worker EXCEPT ![j] = NoWorker]
    /\ lease' = [lease EXCEPT ![j] = "unset"]
    /\ claim' = [claim EXCEPT ![e] = NoClaim]
    /\ UNCHANGED <<version, stamped>>

\* The execution ends and leaves the row as it is: ownership lost, an exception
\* that escapes the pipeline, a rejected run, or the death of the process.
Leave(e) ==
    /\ claim[e] # NoClaim
    /\ claim' = [claim EXCEPT ![e] = NoClaim]
    /\ UNCHANGED <<status, worker, lease, version, stamped>>

\* The database's clock passes lease_expires_at, then the grace period.
LeaseAges(j) ==
    /\ \/ /\ lease[j] = "live"
          /\ lease' = [lease EXCEPT ![j] = "expired"]
       \/ /\ lease[j] = "expired"
          /\ lease' = [lease EXCEPT ![j] = "stale"]
    /\ UNCHANGED <<status, worker, version, stamped, claim>>

-----------------------------------------------------------------------------
(* Stale-job reconciliation (ingestion maintenance).                       *)

\* Mutant: a reconciliation that takes every running job.
AnyRunning(j) == status[j] = "running"

StaleRunning(j) == status[j] = "running" /\ lease[j] \in {"stale", "unset"}

\* Every repair clears the four ownership columns and bumps claim_version.
ReleaseRow(j) ==
    /\ version[j] < MaxVersion
    /\ worker' = [worker EXCEPT ![j] = NoWorker]
    /\ lease' = [lease EXCEPT ![j] = "unset"]
    /\ version' = [version EXCEPT ![j] = NextVersion(j)]
    /\ stamped' = [stamped EXCEPT ![j] = FALSE]
    /\ UNCHANGED claim

CompleteCommitted(j) ==
    /\ StaleRunning(j)
    /\ status' = [status EXCEPT ![j] = "completed"]
    /\ ReleaseRow(j)

ResetQueued(j) ==
    /\ StaleRunning(j)
    /\ status' = [status EXCEPT ![j] = "queued"]
    /\ ReleaseRow(j)

ClearOwnership(j) ==
    /\ status[j] \in {"queued"} \union Terminal
    /\ worker[j] # NoWorker \/ lease[j] # "unset" \/ stamped[j]
    /\ ReleaseRow(j)
    /\ UNCHANGED status

-----------------------------------------------------------------------------
Next ==
    \/ \E e \in Executors, j \in Jobs :
          \/ Claim(e, j)
          \/ Renew(e, j)
          \/ \E outcome \in Terminal : Finish(e, j, outcome)
    \/ \E e \in Executors : Leave(e)
    \/ \E j \in Jobs :
          \/ LeaseAges(j)
          \/ CompleteCommitted(j)
          \/ ResetQueued(j)
          \/ ClearOwnership(j)

Spec == Init /\ [][Next]_leaseVars

\* Worker processes keep polling and take the oldest eligible job first, every
\* execution ends (its external calls have timeouts), and time passes for a row
\* nobody renews. Maintenance is run by hand or by cron and is not relied upon.
Fairness ==
    /\ \A j \in Jobs : WF_leaseVars(\E e \in Executors : Claim(e, j))
    /\ \A e \in Executors :
          WF_leaseVars(Leave(e) \/ \E j \in Jobs, o \in Terminal : Finish(e, j, o))
    /\ \A j \in Jobs : WF_leaseVars(~Held(j) /\ LeaseAges(j))

FairSpec == Spec /\ Fairness

-----------------------------------------------------------------------------
(* Properties                                                              *)

TypeOK ==
    /\ status \in [Jobs -> Statuses]
    /\ worker \in [Jobs -> WorkerIds \union {NoWorker}]
    /\ lease \in [Jobs -> Phases]
    /\ version \in [Jobs -> Nat]
    /\ stamped \in [Jobs -> BOOLEAN]
    /\ claim \in [Executors -> Claims \union {NoClaim}]

\* At most one execution can write a job, whatever the clocks do and even when
\* two processes are configured with the same worker identity.
OneEffectiveOwner ==
    \A j \in Jobs : \A e, f \in Executors :
        Holds(e, j) /\ Holds(f, j) => e = f

\* The inductive strengthening: no execution is ahead of its row, no two hold
\* the same version of one job, and the latest claim of a running row is the
\* one recorded in it.
ClaimsBehindRow ==
    \A e \in Executors : claim[e] # NoClaim => claim[e].version <= version[claim[e].job]

ClaimsDistinct ==
    \A e, f \in Executors :
        /\ e # f
        /\ claim[e] # NoClaim
        /\ claim[f] # NoClaim
        /\ claim[e].job = claim[f].job
        => claim[e].version # claim[f].version

CurrentClaimRecorded ==
    \A e \in Executors :
        claim[e] # NoClaim /\ claim[e].version = version[claim[e].job] =>
            \/ status[claim[e].job] \in Terminal
            \/ /\ status[claim[e].job] = "running"
               /\ worker[claim[e].job] = WorkerOf[e]

LeaseInv == ClaimsBehindRow /\ ClaimsDistinct /\ CurrentClaimRecorded

\* The rows and claims are well typed, claims never run ahead of their rows, are
\* pairwise distinct per job, and the latest claim of a running row is the one the
\* row records: inductive, and what the other guarantees rest on.
IInv == TypeOK /\ LeaseInv

\* An execution that could not write its job at some moment never can again
\* under the same claim: an expired lease is not revived by a late heartbeat,
\* and no reset, recovery or cleanup hands an old claim its rights back.
\* (Only a heartbeat from a process whose own clock lags may break this.)
LostClaimStaysLost ==
    [][\A e \in Executors \ Skewed, j \in Jobs :
          /\ claim[e] # NoClaim
          /\ claim[e].job = j
          /\ ~Fenced(e, j)
          /\ claim'[e] = claim[e]
          => ~Fenced(e, j)']_leaseVars

\* A live claim ends only by its own execution ending, by its lease expiring,
\* or by a claim from a process whose clock runs ahead: neither another worker
\* nor maintenance takes a job from an execution that keeps its lease.
LiveClaimIsExclusive ==
    [][\A e \in Executors, j \in Jobs :
          Fenced(e, j) =>
             \/ Fenced(e, j)'
             \/ claim'[e] = NoClaim
             \/ lease'[j] = "expired"
             \/ \E f \in Skewed : claim'[f] # claim[f]]_leaseVars

\* "A terminal ingestion job cannot be changed": no claim, late write or repair
\* moves a job out of completed or failed.
TerminalIsFinal ==
    [][\A j \in Jobs : status[j] \in Terminal => status'[j] = status[j]]_leaseVars

\* Unfinished work that nobody holds is picked up again, also after crashes and
\* for rows without a lease. MaxVersion is this model's bound on claims.
WorkIsPickedUp ==
    \A j \in Jobs :
        status[j] \notin Terminal /\ ~Held(j)
            ~> Held(j) \/ status[j] \in Terminal \/ version[j] >= MaxVersion
=============================================================================
