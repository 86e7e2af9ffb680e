----------------------- MODULE IngestionPipelineProofs -----------------------
(***************************************************************************)
(* Proofs about IngestionPipeline, for any set of jobs, workers, request   *)
(* threads, pages and texts, and any bounds on claims, retries and crashes.*)
(*                                                                         *)
(* PipelineInv is what holds with or without a fence: what a row says of   *)
(* the knowledge behind it, where a runner stands with what it holds in    *)
(* memory. From it every step of the pipeline is a step of                 *)
(* KnowledgePersistence, and a step of IngestionLease unless a request     *)
(* thread writes the row. OwnerInv adds what the fence gives a worker.     *)
(*                                                                         *)
(* The theorems of the two composed modules are used through the instances *)
(* LeaseP and KnowledgeP, with the constants and variables of the pipeline.*)
(***************************************************************************)
EXTENDS IngestionPipeline, FiniteSetTheorems, TLAPS

LeaseP == INSTANCE IngestionLeaseProofs
KnowledgeP == INSTANCE KnowledgePersistenceProofs WITH Writers <- Runners

-----------------------------------------------------------------------------
(* The inductive invariant                                                 *)

\* TypeOK without the bounds on attempt counts, which need the fence.
WeakTypeOK ==
    /\ Lease!TypeOK
    /\ Knowledge!TypeOK
    /\ step \in [Jobs -> 0..4]
    /\ count \in [Jobs -> Nat]
    /\ ckpt \in [Jobs -> 0..4]
    /\ attempts \in [Jobs -> [Steps -> [1..MaxNumber -> AttemptStates]]]
    /\ run \in [Runners -> Runs \union {NoRun}]
    /\ aborts \in 0..MaxAborts

HasReceipt(j) == receipt[j] # NoReceipt

\* The second step is never entered as a recovered one, so its first attempt is
\* recorded before any later step begins.
ChunkTried(j) == attempts[j][Chunk][1] # "none"

\* What the row of a job says of the knowledge and the attempts behind it.
RowSound(j) ==
    /\ ckpt[j] \in {NoStep, Persist}
    /\ ckpt[j] = Persist \/ status[j] = "completed" => HasReceipt(j)
    /\ step[j] \in {Embed, Persist} => ChunkTried(j)

\* The execution x has not read its row yet.
Beginning(x) == x.at \in {"interrupt", "load"}

\* What the copy of the row says, once it has been read.
CopySound(x) ==
    /\ x.copy.status = "running"
    /\ x.copy.ckpt \in {NoStep, Persist}
    /\ x.copy.ckpt = Persist => HasReceipt(x.job)
    /\ x.copy.step \in {Embed, Persist} => ChunkTried(x.job)

InStep(x) == x.at \in {"attempt", "execute", "record", "retry", "checkpoint"}

\* Where the loop stands: the copy is at the step that runs, and an execution
\* that is past PERSIST has its receipt.
PlaceSound(x) ==
    /\ x.at \in {"start", "context"} => x.next = x.copy.ckpt + 1
    /\ InStep(x) => x.next \in Steps /\ x.copy.step = x.next
    /\ x.at = "step" /\ x.next \in 2..4 => x.copy.step = x.next - 1
    /\ x.at = "checkpoint" => x.next = Persist
    /\ \/ x.next = 5
       \/ x.at = "checkpoint"
       \/ x.at = "record" /\ x.next = Persist /\ x.outcome = "success"
       => HasReceipt(x.job)

\* The outputs of the steps behind, and the first attempt of CHUNK.
OutputsSound(x) ==
    /\ \/ x.next \in 2..4
       \/ x.at = "record" /\ x.outcome = "success" /\ x.next = Parse
       => x.parsed \in Contents
    /\ \/ x.next \in 3..4
       \/ x.at = "record" /\ x.outcome = "success" /\ x.next = Chunk
       => x.chunked \in Contents
    /\ \/ x.next \in 3..4
       \/ x.next = Chunk /\ x.at \in {"execute", "record", "retry"}
       \/ x.next = Chunk /\ x.at = "attempt" /\ x.copy.count # 1
       => ChunkTried(x.job)

\* Where a runner may stand with a preparation: behind EMBED, or ahead of an
\* attempt of CHUNK that cannot start again.
PlanPlace(x) ==
    \/ x.at = "fail"
    \/ x.next \in {4, 5}
    \/ x.at = "record" /\ x.next = Embed /\ x.outcome = "success"
    \/ /\ ChunkTried(x.job)
       /\ \/ x.next = Parse
          \/ x.next = Chunk /\ x.at = "step"
          \/ x.next = Chunk /\ x.at = "attempt" /\ x.copy.count = 1

PlanSound(r) ==
    prepared[r] # NoPlan =>
        /\ run[r] # NoRun
        /\ ~Beginning(run[r])
        /\ run[r].at \notin {"start", "context"}
        /\ prepared[r].job = run[r].job
        /\ PlanPlace(run[r])

RunSound(r) ==
    run[r] # NoRun /\ ~Beginning(run[r]) =>
        /\ CopySound(run[r])
        /\ PlaceSound(run[r])
        /\ run[r].at # "fail" => OutputsSound(run[r])

PipelineInv ==
    /\ WeakTypeOK
    /\ \A j \in Jobs : RowSound(j)
    /\ \A r \in Runners : RunSound(r) /\ PlanSound(r)

-----------------------------------------------------------------------------
(* The composed modules and their proofs speak of the same things          *)

\* The rows of jobs and the claims have the types IngestionLeaseProofs uses.
LEMMA SameLeaseTypes == Lease!TypeOK <=> LeaseP!TypeOK
  BY DEF Lease!TypeOK, Lease!Statuses, Lease!Phases, Lease!Claims,
         LeaseP!TypeOK, LeaseP!Statuses, LeaseP!Phases, LeaseP!Claims

\* A lease step of the pipeline is one of IngestionLeaseProofs.
LEMMA SameLeaseStep == [Lease!Next]_leaseVars <=> [LeaseP!Next]_LeaseP!leaseVars
  BY DEF leaseVars, Lease!Next, Lease!Claim, Lease!Claimable, Lease!SeesExpired,
         Lease!NextVersion, Lease!GrantedLease, Lease!Renew, Lease!SeesLive, Lease!Holds,
         Lease!Fenced, Lease!Finish, Lease!Leave, Lease!Terminal, Lease!LeaseAges,
         Lease!StaleRunning, Lease!ReleaseRow, Lease!CompleteCommitted, Lease!ResetQueued,
         Lease!ClearOwnership,
         LeaseP!leaseVars, LeaseP!Next, LeaseP!Claim, LeaseP!Claimable, LeaseP!SeesExpired,
         LeaseP!NextVersion, LeaseP!GrantedLease, LeaseP!Renew, LeaseP!SeesLive, LeaseP!Holds,
         LeaseP!Fenced, LeaseP!Finish, LeaseP!Leave, LeaseP!Terminal, LeaseP!LeaseAges,
         LeaseP!StaleRunning, LeaseP!ReleaseRow, LeaseP!CompleteCommitted,
         LeaseP!ResetQueued, LeaseP!ClearOwnership

\* Documents, receipts and preparations have the types KnowledgePersistenceProofs uses.
LEMMA SameKnowledgeTypes == Knowledge!TypeOK <=> KnowledgeP!TypeOK
  BY DEF Knowledge!TypeOK, Knowledge!Documents, Knowledge!ChunkRows, Knowledge!Preparations,
         Knowledge!PreparedBy, Knowledge!PagePlans, Knowledge!Dispositions,
         KnowledgeP!TypeOK, KnowledgeP!Documents, KnowledgeP!ChunkRows,
         KnowledgeP!Preparations, KnowledgeP!PreparedBy, KnowledgeP!PagePlans,
         KnowledgeP!Dispositions

\* A knowledge step of the pipeline is one of KnowledgePersistenceProofs.
LEMMA SameKnowledgeStep ==
  [Knowledge!Next]_knowledgeVars <=> [KnowledgeP!Next]_KnowledgeP!knowledgeVars
  BY DEF knowledgeVars, Knowledge!knowledgeVars, Knowledge!Next, Knowledge!Prepare,
         Knowledge!Plan, Knowledge!Disposition, Knowledge!CurrentHash, Knowledge!Commit,
         Knowledge!Committed, Knowledge!Conflicts, Knowledge!WrittenDocument,
         Knowledge!WrittenChunks, Knowledge!Replaces, Knowledge!Renames, Knowledge!Replay,
         Knowledge!Refuse, Knowledge!RollBack, Knowledge!Discard,
         KnowledgeP!knowledgeVars, KnowledgeP!Next, KnowledgeP!Prepare,
         KnowledgeP!Plan, KnowledgeP!Disposition, KnowledgeP!CurrentHash, KnowledgeP!Commit,
         KnowledgeP!Committed, KnowledgeP!Conflicts, KnowledgeP!WrittenDocument,
         KnowledgeP!WrittenChunks, KnowledgeP!Replaces, KnowledgeP!Renames,
         KnowledgeP!Replay, KnowledgeP!Refuse, KnowledgeP!RollBack, KnowledgeP!Discard

\* The assumptions of IngestionPipeline contain those of the composed modules.
LEMMA SameAssumptions == LeaseP!LeaseAssumption /\ KnowledgeP!KnowledgeAssumption
  BY ComposedAssumption
     DEF Lease!LeaseAssumption, LeaseP!LeaseAssumption,
         Knowledge!KnowledgeAssumption, Knowledge!Documents, Knowledge!Preparations,
         Knowledge!PreparedBy, Knowledge!PagePlans, Knowledge!Dispositions,
         KnowledgeP!KnowledgeAssumption, KnowledgeP!Documents, KnowledgeP!Preparations,
         KnowledgeP!PreparedBy, KnowledgeP!PagePlans, KnowledgeP!Dispositions

\* A step of the queue keeps the types of rows and claims.
LEMMA LeaseTyped == Lease!TypeOK /\ [Lease!Next]_leaseVars => Lease!TypeOK'
<1> SUFFICES ASSUME Lease!TypeOK, [Lease!Next]_leaseVars PROVE Lease!TypeOK'
  OBVIOUS
<1>1. LeaseP!TypeOK /\ [LeaseP!Next]_LeaseP!leaseVars
  BY SameLeaseTypes, SameLeaseStep
<1>2. LeaseP!TypeOK'
  BY <1>1, SameAssumptions, LeaseP!TypeStep
<1>3. Lease!TypeOK' <=> LeaseP!TypeOK'
  BY DEF Lease!TypeOK, Lease!Statuses, Lease!Phases, Lease!Claims,
         LeaseP!TypeOK, LeaseP!Statuses, LeaseP!Phases, LeaseP!Claims
<1> QED
  BY <1>2, <1>3

\* A knowledge step keeps the types, and takes no receipt away.
LEMMA KnowledgeTyped ==
  ASSUME Knowledge!TypeOK, [Knowledge!Next]_knowledgeVars
  PROVE  /\ Knowledge!TypeOK'
         /\ \A j \in Jobs : HasReceipt(j) => HasReceipt(j)'
<1>1. KnowledgeP!TypeOK /\ [KnowledgeP!Next]_KnowledgeP!knowledgeVars
  BY SameKnowledgeTypes, SameKnowledgeStep
<1>2. KnowledgeP!TypeOK'
  BY <1>1, SameAssumptions, KnowledgeP!TypeStep
<1>3. Knowledge!TypeOK' <=> KnowledgeP!TypeOK'
  BY DEF Knowledge!TypeOK, Knowledge!Documents, Knowledge!ChunkRows, Knowledge!Preparations,
         Knowledge!PreparedBy, Knowledge!PagePlans, Knowledge!Dispositions,
         KnowledgeP!TypeOK, KnowledgeP!Documents, KnowledgeP!ChunkRows,
         KnowledgeP!Preparations, KnowledgeP!PreparedBy, KnowledgeP!PagePlans,
         KnowledgeP!Dispositions
<1>4. ASSUME NEW j \in Jobs, HasReceipt(j)
      PROVE  receipt'[j] = receipt[j]
  BY <1>1, <1>4, SameAssumptions, KnowledgeP!WritesOnce DEF HasReceipt
<1> QED
  BY <1>2, <1>3, <1>4 DEF HasReceipt

-----------------------------------------------------------------------------
(* Runners                                                                 *)

\* Attempts are numbered from 1.
LEMMA FirstNumber == MaxNumber \in Nat \ {0} /\ 1 \in 1..MaxNumber
<1>1. Cardinality(ApiRunners) \in Nat
  BY PipelineAssumption, FS_CardinalityType
<1>2. MaxVersion \in Nat
  BY ComposedAssumption DEF Lease!LeaseAssumption
<1> QED
  BY <1>1, <1>2, PipelineAssumption DEF MaxNumber

\* What a runner that executes holds.
LEMMA RunFields ==
  ASSUME WeakTypeOK, NEW r \in Runners, run[r] # NoRun
  PROVE  /\ run[r] \in Runs
         /\ run[r].job \in Jobs
         /\ run[r].at \in Points
         /\ run[r].copy \in JobCopies
         /\ run[r].copy.status \in Lease!Statuses
         /\ run[r].copy.step \in 0..4
         /\ run[r].copy.count \in Nat
         /\ run[r].copy.ckpt \in 0..4
         /\ run[r].next \in 1..5
         /\ run[r].parsed \in Contents \union {NoContent}
         /\ run[r].chunked \in Contents \union {NoContent}
         /\ run[r].outcome \in Outcomes
  BY DEF WeakTypeOK, Runs, JobCopies

\* What a row holds is a copy.
LEMMA RowFields ==
  ASSUME WeakTypeOK, NEW j \in Jobs
  PROVE  Row(j) \in JobCopies
  BY DEF WeakTypeOK, Lease!TypeOK, Row, JobCopies

\* What giving up changes: the runner, its preparation and its claim.
LEMMA AbandonEffect ==
  ASSUME NEW r \in Runners, Abandon(r)
  PROVE  /\ run' = [run EXCEPT ![r] = NoRun]
         /\ prepared' = [prepared EXCEPT ![r] = NoPlan]
         /\ UNCHANGED <<status, worker, lease, version, stamped, step, count, ckpt>>
         /\ UNCHANGED <<document, chunks, receipt, attempts>>
  BY DEF Abandon, progressVars

\* What an update of the row changes, unless the fence refuses it: the progress
\* columns and the status, from the copy; a final status ends the execution.
LEMMA UpdateEffect ==
  ASSUME NEW r \in Runners, NEW copy, NEW continued, Update(r, copy, continued)
  PROVE  \/ Abandon(r)
         \/ /\ Progress(run[r].job, copy)
            /\ UNCHANGED <<document, chunks, receipt, attempts>>
            /\ \/ /\ copy.status \in Lease!Terminal
                  /\ run' = [run EXCEPT ![r] = NoRun]
                  /\ prepared' = [prepared EXCEPT ![r] = NoPlan]
                  /\ status' = [status EXCEPT ![run[r].job] = copy.status]
               \/ /\ copy.status \notin Lease!Terminal
                  /\ run' = [run EXCEPT ![r] = continued]
                  /\ prepared' = prepared
                  /\ \/ status' = status
                     \/ status' = [status EXCEPT ![run[r].job] = copy.status]
  BY DEF Update, FencedUpdate, PlainUpdate, Lease!Finish, leaseVars

\* What a step of a runner leaves alone: every other runner.
OnlyRunner(r) ==
    \A q \in Runners \ {r} : run'[q] = run[q] /\ prepared'[q] = prepared[q]

-----------------------------------------------------------------------------
(* The history of attempts                                                 *)

AttemptsKept ==
    /\ attempts' \in [Jobs -> [Steps -> [1..MaxNumber -> AttemptStates]]]
    /\ \A j \in Jobs, s \in Steps, n \in 1..MaxNumber :
          /\ attempts[j][s][n] # "none" => attempts'[j][s][n] # "none"
          /\ attempts[j][s][n] \notin {"none", "running"}
                => attempts'[j][s][n] = attempts[j][s][n]

\* A write to one attempt that has started none or is running takes no result away.
LEMMA OneAttempt ==
  ASSUME WeakTypeOK, NEW j \in Jobs, NEW s, NEW n, NEW value \in AttemptStates \ {"none"},
         attempts[j][s][n] \in {"none", "running"},
         attempts' = [attempts EXCEPT ![j][s][n] = value]
  PROVE  AttemptsKept
<1>1. attempts \in [Jobs -> [Steps -> [1..MaxNumber -> AttemptStates]]]
  BY DEF WeakTypeOK
<1>2. attempts' \in [Jobs -> [Steps -> [1..MaxNumber -> AttemptStates]]]
  BY <1>1
<1>3. ASSUME NEW i \in Jobs, NEW t \in Steps, NEW m \in 1..MaxNumber
      PROVE  \/ attempts'[i][t][m] = attempts[i][t][m]
             \/ i = j /\ t = s /\ m = n /\ attempts'[i][t][m] = value
  BY <1>1
<1> QED
  BY <1>2, <1>3 DEF AttemptsKept

\* The rows of the history never go back, and a result stays what it is.
LEMMA AttemptsStep == WeakTypeOK /\ [Next]_vars => AttemptsKept
<1> SUFFICES ASSUME WeakTypeOK, [Next]_vars PROVE AttemptsKept
  OBVIOUS
<1>1. ASSUME UNCHANGED attempts PROVE AttemptsKept
  BY <1>1 DEF WeakTypeOK, AttemptsKept
<1>2. ASSUME NEW r \in Runners, Abandon(r) PROVE AttemptsKept
  BY <1>1, <1>2, AbandonEffect
<1>3. ASSUME NEW r \in Runners, NEW copy, NEW continued, Update(r, copy, continued)
      PROVE  AttemptsKept
  BY <1>1, <1>2, <1>3, UpdateEffect
<1>4. ASSUME NEW r \in Runners, Interrupt(r) PROVE AttemptsKept
  <2> DEFINE j == run[r].job
             Interrupted(s, n) == IF attempts[j][s][n] = "running" THEN "interrupted"
                                  ELSE attempts[j][s][n]
  <2>1. j \in Jobs
    BY <1>4, RunFields DEF Interrupt, At
  <2>2. attempts' = [attempts EXCEPT
           ![j] = [s \in Steps |-> [n \in 1..MaxNumber |-> Interrupted(s, n)]]]
    BY <1>4 DEF Interrupt
  <2>3. \A s \in Steps, n \in 1..MaxNumber : Interrupted(s, n) \in AttemptStates
    <3>1. \A s \in Steps, n \in 1..MaxNumber : attempts[j][s][n] \in AttemptStates
      <4>1. attempts \in [Jobs -> [Steps -> [1..MaxNumber -> AttemptStates]]]
        BY DEF WeakTypeOK
      <4>2. attempts[j] \in [Steps -> [1..MaxNumber -> AttemptStates]]
        BY <2>1, <4>1
      <4> QED
        BY <4>2
    <3> QED
      BY <3>1 DEF AttemptStates
  <2>4. attempts' \in [Jobs -> [Steps -> [1..MaxNumber -> AttemptStates]]]
    BY <2>1, <2>2, <2>3 DEF WeakTypeOK
  <2>5. \A i \in Jobs, s \in Steps, n \in 1..MaxNumber :
           attempts'[i][s][n] = IF i = j THEN Interrupted(s, n) ELSE attempts[i][s][n]
    BY <2>1, <2>2 DEF WeakTypeOK
  <2> QED
    BY <2>4, <2>5 DEF AttemptsKept
<1>5. ASSUME NEW r \in Runners, StartAttempt(r) PROVE AttemptsKept
  <2>1. run[r].job \in Jobs
    BY <1>5, RunFields DEF StartAttempt, At
  <2>2. ASSUME ~Abandon(r)
        PROVE  /\ attempts[run[r].job][run[r].copy.step][run[r].copy.count] = "none"
               /\ attempts' = [attempts EXCEPT
                     ![run[r].job][run[r].copy.step][run[r].copy.count] = "running"]
    BY <1>5, <2>2 DEF StartAttempt
  <2>3. "running" \in AttemptStates \ {"none"}
    BY DEF AttemptStates
  <2> QED
    BY <1>2, <2>1, <2>2, <2>3, OneAttempt
<1>6. ASSUME NEW r \in Runners, RecordAttempt(r) PROVE AttemptsKept
  <2>1. run[r].job \in Jobs
    BY <1>6, RunFields DEF RecordAttempt, At
  <2>2. ASSUME ~Abandon(r)
        PROVE  /\ attempts[run[r].job][run[r].copy.step][run[r].copy.count] = "running"
               /\ \/ attempts' = [attempts EXCEPT
                        ![run[r].job][run[r].copy.step][run[r].copy.count] = "completed"]
                  \/ attempts' = [attempts EXCEPT
                        ![run[r].job][run[r].copy.step][run[r].copy.count] = "failed"]
    BY <1>6, <2>2 DEF RecordAttempt
  <2>3. {"completed", "failed"} \subseteq AttemptStates \ {"none"}
    BY DEF AttemptStates
  <2> QED
    BY <1>2, <2>1, <2>2, <2>3, OneAttempt
<1>7. ASSUME NEW r \in Runners, RunnerStep(r) \/ Abort(r) PROVE AttemptsKept
  <2>1. CASE Load(r)
    BY <1>1, <1>2, <2>1 DEF Load
  <2>2. CASE Start(r) \/ Checkpoint(r) \/ Complete(r) \/ Fail(r)
    BY <1>3, <2>2 DEF Start, Checkpoint, Complete, Fail
  <2>3. CASE BeginStep(r)
    BY <1>1, <1>3, <2>3 DEF BeginStep
  <2>4. CASE Reconstruct(r) \/ Execute(r)
    BY <1>1, <2>4 DEF Reconstruct, Execute
  <2>5. CASE RecordRetry(r)
    BY <1>1, <1>2, <2>5 DEF RecordRetry
  <2>6. CASE Abort(r)
    BY <1>2, <2>6 DEF Abort
  <2> QED
    BY <1>4, <1>5, <1>6, <1>7, <2>1, <2>2, <2>3, <2>4, <2>5, <2>6 DEF RunnerStep
<1>8. ASSUME NEW e \in Executors, NEW j \in Jobs, Poll(e, j) \/ Heartbeat(e, j)
      PROVE  AttemptsKept
  BY <1>1, <1>8 DEF Poll, Heartbeat
<1>9. ASSUME NEW r \in ApiRunners, NEW j \in Jobs, Request(r, j)
      PROVE  AttemptsKept
  BY <1>1, <1>9 DEF Request
<1>10. ASSUME NEW j \in Jobs,
              LeaseAges(j) \/ CompleteCommitted(j) \/ ResetQueued(j) \/ ClearOwnership(j)
       PROVE  AttemptsKept
  BY <1>1, <1>10 DEF LeaseAges, CompleteCommitted, ResetQueued, ClearOwnership
<1>11. CASE UNCHANGED vars
  BY <1>1, <1>11 DEF vars
<1> QED
  BY <1>7, <1>8, <1>9, <1>10, <1>11 DEF Next

-----------------------------------------------------------------------------
(* Every step is a step of KnowledgePersistence                            *)

\* A runner that drops its preparation, or holds none, discards it or stutters.
LEMMA DropIsKnowledgeStep ==
  ASSUME WeakTypeOK, NEW r \in Runners, UNCHANGED <<document, chunks, receipt>>,
         prepared' = prepared \/ prepared' = [prepared EXCEPT ![r] = NoPlan]
  PROVE  [Knowledge!Next]_knowledgeVars
<1>1. prepared \in [Runners -> Knowledge!Preparations \union {NoPlan}]
  BY DEF WeakTypeOK, Knowledge!TypeOK
<1>2. CASE prepared[r] = NoPlan
  BY <1>1, <1>2 DEF knowledgeVars
<1>3. CASE prepared' = [prepared EXCEPT ![r] = NoPlan] /\ prepared[r] # NoPlan
  BY <1>3 DEF Knowledge!Next, Knowledge!Discard
<1>4. CASE prepared' = prepared
  BY <1>4 DEF knowledgeVars
<1> QED
  BY <1>2, <1>3, <1>4

\* An execution that gives up, or updates its row, does no more than that.
LEMMA UpdateIsKnowledgeStep ==
  ASSUME WeakTypeOK, NEW r \in Runners, NEW copy, NEW continued,
         Abandon(r) \/ Update(r, copy, continued)
  PROVE  [Knowledge!Next]_knowledgeVars
  BY AbandonEffect, UpdateEffect, DropIsKnowledgeStep

\* Where the context is rebuilt the runner holds no preparation.
LEMMA ReconstructIsKnowledgeStep ==
  ASSUME PipelineInv, NEW r \in Runners, Reconstruct(r)
  PROVE  [Knowledge!Next]_knowledgeVars
<1>1. ASSUME NEW found \in Contents, Knowledge!Prepare(r, run[r].job, found)
      PROVE  Knowledge!Next
  <2>1. prepared[r] = NoPlan
    BY DEF PipelineInv, PlanSound, Reconstruct, At
  <2>2. run[r].job \in Jobs
    BY RunFields DEF PipelineInv, Reconstruct, At
  <2> QED
    BY <1>1, <2>1, <2>2 DEF Knowledge!Next
<1> QED
  BY <1>1 DEF Reconstruct

\* Where EMBED runs, it has the chunks and the runner holds no preparation.
LEMMA ExecuteIsKnowledgeStep ==
  ASSUME PipelineInv, NEW r \in Runners, Execute(r)
  PROVE  [Knowledge!Next]_knowledgeVars
<1>1. ASSUME ExecuteEmbed(r), Knowledge!Prepare(r, run[r].job, run[r].chunked)
      PROVE  Knowledge!Next
  <2>1. run[r] # NoRun /\ run[r].at = "execute" /\ run[r].job \in Jobs
    BY RunFields DEF Execute, At, PipelineInv
  <2>2. run[r].next = Embed
    BY <1>1, <2>1 DEF ExecuteEmbed, PipelineInv, RunSound, PlaceSound, Beginning, InStep
  <2>3. run[r].chunked \in Contents
    BY <2>1, <2>2 DEF PipelineInv, RunSound, OutputsSound, Beginning, Embed
  <2>4. prepared[r] = NoPlan
    BY <2>1, <2>2 DEF PipelineInv, PlanSound, PlanPlace, Embed, Parse, Chunk
  <2> QED
    BY <1>1, <2>1, <2>3, <2>4 DEF Knowledge!Next
<1>2. ASSUME ExecutePersist(r)
      PROVE  Knowledge!Next
  BY <1>2 DEF ExecutePersist, Knowledge!Next
<1> QED
  BY <1>1, <1>2 DEF Execute, ExecuteParse, ExecuteChunk, ExecuteEmbed

\* Every step of the pipeline is one of KnowledgePersistence, or changes nothing of it.
LEMMA KnowledgeStep == PipelineInv /\ [Next]_vars => [Knowledge!Next]_knowledgeVars
<1> SUFFICES ASSUME PipelineInv, [Next]_vars PROVE [Knowledge!Next]_knowledgeVars
  OBVIOUS
<1>0. WeakTypeOK
  BY DEF PipelineInv
<1>1. ASSUME NEW r \in Runners, RunnerStep(r) \/ Abort(r)
      PROVE  [Knowledge!Next]_knowledgeVars
  <2>1. CASE Interrupt(r)
    BY <2>1 DEF Interrupt
  <2>2. CASE Load(r)
    BY <1>0, <2>2, UpdateIsKnowledgeStep DEF Load
  <2>3. CASE Start(r) \/ Checkpoint(r) \/ Complete(r) \/ Fail(r)
    BY <1>0, <2>3, UpdateIsKnowledgeStep DEF Start, Checkpoint, Complete, Fail
  <2>4. CASE BeginStep(r)
    BY <1>0, <2>4, UpdateIsKnowledgeStep DEF BeginStep
  <2>5. CASE StartAttempt(r) \/ RecordAttempt(r) \/ RecordRetry(r) \/ Abort(r)
    BY <1>0, <2>5, UpdateIsKnowledgeStep DEF StartAttempt, RecordAttempt, RecordRetry, Abort
  <2> QED
    BY <1>1, <2>1, <2>2, <2>3, <2>4, <2>5, ReconstructIsKnowledgeStep,
       ExecuteIsKnowledgeStep DEF RunnerStep
<1>2. ASSUME NEW e \in Executors, NEW j \in Jobs, Poll(e, j) \/ Heartbeat(e, j)
      PROVE  [Knowledge!Next]_knowledgeVars
  BY <1>2 DEF Poll, Heartbeat
<1>3. ASSUME NEW r \in ApiRunners, NEW j \in Jobs, Request(r, j)
      PROVE  [Knowledge!Next]_knowledgeVars
  BY <1>3 DEF Request
<1>4. ASSUME NEW j \in Jobs,
             LeaseAges(j) \/ CompleteCommitted(j) \/ ResetQueued(j) \/ ClearOwnership(j)
      PROVE  [Knowledge!Next]_knowledgeVars
  BY <1>4 DEF LeaseAges, CompleteCommitted, ResetQueued, ClearOwnership
<1>5. CASE UNCHANGED vars
  BY <1>5 DEF vars, knowledgeVars
<1> QED
  BY <1>1, <1>2, <1>3, <1>4, <1>5 DEF Next

-----------------------------------------------------------------------------
(* Every step is a step of IngestionLease, unless a request thread writes  *)

\* What a request thread may do to a row: overwrite its status.
PlainStatus ==
    /\ \E r \in ApiRunners : run[r] # NoRun
    /\ status' \in [Jobs -> Lease!Statuses]
    /\ UNCHANGED <<worker, lease, version, stamped, claim>>

\* An execution that gives up leaves its claim, if it has one.
LEMMA AbandonIsLeaseStep ==
  ASSUME WeakTypeOK, NEW r \in Runners, Abandon(r)
  PROVE  [Lease!Next]_leaseVars
<1>1. claim \in [Executors -> Lease!Claims \union {NoClaim}]
  BY DEF WeakTypeOK, Lease!TypeOK
<1>2. CASE r \in Executors /\ claim[r] # NoClaim
  <2>1. claim' = [claim EXCEPT ![r] = NoClaim]
    BY <1>1, <1>2 DEF Abandon
  <2> QED
    BY <1>2, <2>1 DEF Abandon, Lease!Next, Lease!Leave
<1>3. CASE ~(r \in Executors /\ claim[r] # NoClaim)
  <2>1. claim' = claim
    BY <1>1, <1>3 DEF Abandon
  <2> QED
    BY <2>1 DEF Abandon, leaseVars
<1> QED
  BY <1>2, <1>3

\* A worker's update finishes the claim, gives it up or leaves the row's owner.
LEMMA UpdateIsLeaseStep ==
  ASSUME WeakTypeOK, NEW r \in Runners, run[r] # NoRun, NEW copy, NEW continued,
         copy.status \in Lease!Statuses, Update(r, copy, continued)
  PROVE  [Lease!Next]_leaseVars \/ PlainStatus
<1>1. run[r].job \in Jobs
  BY RunFields
<1>2. CASE r \in Executors /\ Lease!Fenced(r, run[r].job)
  BY <1>1, <1>2 DEF Update, FencedUpdate, Lease!Next
<1>3. CASE r \in Executors /\ ~Lease!Fenced(r, run[r].job)
  BY <1>3, AbandonIsLeaseStep DEF Update, FencedUpdate
<1>4. CASE r \notin Executors
  BY <1>1, <1>4 DEF Update, PlainUpdate, PlainStatus, WeakTypeOK, Lease!TypeOK, Runners
<1> QED
  BY <1>2, <1>3, <1>4

\* Every step of the pipeline is one of IngestionLease, or the write of a request.
LEMMA LeaseStep == PipelineInv /\ [Next]_vars => [Lease!Next]_leaseVars \/ PlainStatus
<1> SUFFICES ASSUME PipelineInv, [Next]_vars PROVE [Lease!Next]_leaseVars \/ PlainStatus
  OBVIOUS
<1>0. WeakTypeOK
  BY DEF PipelineInv
<1>1. ASSUME NEW r \in Runners, RunnerStep(r) \/ Abort(r)
      PROVE  [Lease!Next]_leaseVars \/ PlainStatus
  <2>1. ASSUME NEW x, Advance(r, x) PROVE [Lease!Next]_leaseVars
    BY <2>1 DEF Advance
  <2>2. CASE Interrupt(r) \/ Reconstruct(r) \/ Execute(r)
    BY <2>1, <2>2
       DEF Interrupt, Reconstruct, Execute, ExecuteParse, ExecuteChunk, ExecuteEmbed, ExecutePersist
  <2>3. CASE Load(r) \/ StartAttempt(r) \/ RecordAttempt(r)
    BY <1>0, <2>1, <2>3, AbandonIsLeaseStep DEF Load, StartAttempt, RecordAttempt
  <2>4. CASE RecordRetry(r) \/ Abort(r)
    BY <1>0, <2>4, AbandonIsLeaseStep DEF RecordRetry, Abort
  <2>5. ASSUME run[r] # NoRun PROVE run[r].copy \in JobCopies
    BY <1>0, <2>5, RunFields
  <2>6. CASE Start(r)
    BY <1>0, <2>5, <2>6, UpdateIsLeaseStep DEF Start, At, JobCopies
  <2>7. CASE BeginStep(r)
    <3> DEFINE first == [run[r].copy EXCEPT !.step = run[r].next, !.count = 1]
    <3>1. run[r] # NoRun
      BY <2>7 DEF BeginStep, At
    <3>2. first.status \in Lease!Statuses
      BY <2>5, <3>1 DEF JobCopies
    <3> QED
      BY <1>0, <2>1, <2>7, <3>1, <3>2, UpdateIsLeaseStep DEF BeginStep
  <2>8. CASE Checkpoint(r)
    <3> DEFINE copy == [run[r].copy EXCEPT !.ckpt = run[r].copy.step, !.count = 0]
    <3>1. run[r] # NoRun
      BY <2>8 DEF Checkpoint, At
    <3>2. copy.status \in Lease!Statuses
      BY <2>5, <3>1 DEF JobCopies
    <3> QED
      BY <1>0, <2>8, <3>1, <3>2, UpdateIsLeaseStep DEF Checkpoint
  <2>9. CASE Complete(r)
    <3> DEFINE copy == [run[r].copy EXCEPT !.status = "completed", !.step = NoStep, !.count = 0]
    <3>1. run[r] # NoRun
      BY <2>9 DEF Complete, At
    <3>2. copy.status \in Lease!Statuses
      BY <2>5, <3>1 DEF JobCopies, Lease!Statuses
    <3> QED
      BY <1>0, <2>9, <3>1, <3>2, UpdateIsLeaseStep DEF Complete
  <2>10. CASE Fail(r)
    <3> DEFINE copy == [run[r].copy EXCEPT !.status = "failed"]
    <3>1. run[r] # NoRun
      BY <2>10 DEF Fail, At
    <3>2. copy.status \in Lease!Statuses
      BY <2>5, <3>1 DEF JobCopies, Lease!Statuses
    <3> QED
      BY <1>0, <2>10, <3>1, <3>2, UpdateIsLeaseStep DEF Fail
  <2> QED
    BY <1>1, <2>2, <2>3, <2>4, <2>6, <2>7, <2>8, <2>9, <2>10 DEF RunnerStep
<1>2. ASSUME NEW e \in Executors, NEW j \in Jobs, Poll(e, j) \/ Heartbeat(e, j)
      PROVE  Lease!Next
  BY <1>2 DEF Poll, Heartbeat, Lease!Next
<1>3. ASSUME NEW r \in ApiRunners, NEW j \in Jobs, Request(r, j)
      PROVE  [Lease!Next]_leaseVars
  BY <1>3 DEF Request
<1>4. ASSUME NEW j \in Jobs,
             LeaseAges(j) \/ CompleteCommitted(j) \/ ResetQueued(j) \/ ClearOwnership(j)
      PROVE  Lease!Next
  BY <1>4 DEF LeaseAges, CompleteCommitted, ResetQueued, ClearOwnership, Lease!Next
<1>5. CASE UNCHANGED vars
  BY <1>5 DEF vars, leaseVars
<1> QED
  BY <1>1, <1>2, <1>3, <1>4, <1>5 DEF Next

\* Rows and claims keep their types, whoever writes.
LEMMA RowsTyped == PipelineInv /\ [Next]_vars => Lease!TypeOK'
<1>1. PipelineInv => Lease!TypeOK
  BY DEF PipelineInv, WeakTypeOK
<1>2. Lease!TypeOK /\ PlainStatus => Lease!TypeOK'
  BY DEF Lease!TypeOK, PlainStatus, Lease!Statuses, Lease!Phases, Lease!Claims
<1> QED
  BY <1>1, <1>2, LeaseStep, LeaseTyped

-----------------------------------------------------------------------------
(* What a runner's step does to the runner                                 *)

Growth ==
    \A j \in Jobs :
        /\ HasReceipt(j) => HasReceipt(j)'
        /\ ChunkTried(j) => ChunkTried(j)'

\* Receipts and the first attempts of CHUNK stay.
LEMMA GrowthStep == PipelineInv /\ [Next]_vars => Growth
<1> SUFFICES ASSUME PipelineInv, [Next]_vars, NEW j \in Jobs
             PROVE  /\ HasReceipt(j) => HasReceipt(j)'
                    /\ ChunkTried(j) => ChunkTried(j)'
  BY DEF Growth
<1>1. HasReceipt(j) => HasReceipt(j)'
  BY KnowledgeStep, KnowledgeTyped DEF PipelineInv, WeakTypeOK
<1>2. ChunkTried(j) => ChunkTried(j)'
  <2>1. Chunk \in Steps /\ 1 \in 1..MaxNumber
    BY FirstNumber DEF Chunk, Steps
  <2> QED
    BY <2>1, AttemptsStep DEF PipelineInv, AttemptsKept, ChunkTried
<1> QED
  BY <1>1, <1>2

\* The runner r moves to a sound place, and no other runner moves.
RunnerMoves(r) ==
    /\ run' \in [Runners -> Runs \union {NoRun}]
    /\ OnlyRunner(r)
    /\ RunSound(r)'
    /\ PlanSound(r)'

\* A runner that moves to a sound place x with a preparation that fits it.
LEMMA MovesTo ==
  ASSUME WeakTypeOK, NEW r \in Runners, NEW x \in Runs, run' = [run EXCEPT ![r] = x],
         \A q \in Runners \ {r} : prepared'[q] = prepared[q],
         Beginning(x) \/ (CopySound(x)' /\ PlaceSound(x)' /\ (x.at = "fail" \/ OutputsSound(x)')),
         \/ prepared'[r] = NoPlan
         \/ /\ ~Beginning(x)
            /\ x.at \notin {"start", "context"}
            /\ prepared'[r].job = x.job
            /\ PlanPlace(x)'
  PROVE  RunnerMoves(r)
<1>1. run'[r] = x /\ x # NoRun /\ run' \in [Runners -> Runs \union {NoRun}]
  BY ComposedAssumption DEF WeakTypeOK
<1>2. OnlyRunner(r)
  BY DEF WeakTypeOK, OnlyRunner
<1>3. RunSound(r)'
  BY <1>1 DEF RunSound, Beginning
<1>4. PlanSound(r)'
  BY <1>1 DEF PlanSound, Beginning
<1> QED
  BY <1>1, <1>2, <1>3, <1>4 DEF RunnerMoves

\* A runner that ends holds nothing.
LEMMA MovesOut ==
  ASSUME WeakTypeOK, NEW r \in Runners, run' = [run EXCEPT ![r] = NoRun],
         prepared' = [prepared EXCEPT ![r] = NoPlan]
  PROVE  RunnerMoves(r)
<1>1. run'[r] = NoRun /\ run' \in [Runners -> Runs \union {NoRun}]
  BY DEF WeakTypeOK
<1>2. prepared'[r] = NoPlan /\ OnlyRunner(r)
  BY DEF WeakTypeOK, Knowledge!TypeOK, OnlyRunner
<1>3. RunSound(r)' /\ PlanSound(r)'
  BY <1>1, <1>2 DEF RunSound, PlanSound
<1> QED
  BY <1>1, <1>2, <1>3 DEF RunnerMoves

\* What the invariant says of a runner that executes.
LEMMA RunnerFacts ==
  ASSUME PipelineInv, NEW r \in Runners, run[r] # NoRun
  PROVE  /\ run[r] \in Runs
         /\ run[r].job \in Jobs
         /\ RowSound(run[r].job)
         /\ ~Beginning(run[r]) =>
               /\ CopySound(run[r])
               /\ PlaceSound(run[r])
               /\ run[r].at # "fail" => OutputsSound(run[r])
         /\ prepared[r] = NoPlan \/ (prepared[r].job = run[r].job /\ PlanPlace(run[r]))
         /\ run[r].at \in {"interrupt", "load", "start", "context"} => prepared[r] = NoPlan
  BY RunFields DEF PipelineInv, RunSound, PlanSound, Beginning

\* interrupt_running_attempts comes before the row is read.
LEMMA InterruptMoves ==
  ASSUME PipelineInv, NEW r \in Runners, Interrupt(r)
  PROVE  RunnerMoves(r)
<1>1. WeakTypeOK /\ run[r] # NoRun /\ run[r].at = "interrupt"
  BY DEF PipelineInv, Interrupt, At
<1>2. PICK x : x = [run[r] EXCEPT !.at = "load"]
  OBVIOUS
<1>3. x \in Runs /\ Beginning(x)
  BY <1>1, <1>2, RunnerFacts DEF Runs, Points, Beginning
<1>4. prepared' = prepared /\ prepared[r] = NoPlan
  BY <1>1, RunnerFacts DEF Interrupt, knowledgeVars
<1>5. run' = [run EXCEPT ![r] = x]
  BY <1>2 DEF Interrupt, Advance
<1> QED
  BY <1>1, <1>3, <1>4, <1>5, MovesTo

\* A row that is loaded starts at PARSE, or is past PERSIST with its receipt.
LEMMA LoadMoves ==
  ASSUME PipelineInv, Growth, NEW r \in Runners, Load(r)
  PROVE  RunnerMoves(r)
<1>1. WeakTypeOK /\ run[r] # NoRun /\ run[r].at = "load"
  BY DEF PipelineInv, Load, At
<1>2. CASE Abandon(r)
  BY <1>1, <1>2, AbandonEffect, MovesOut
<1>3. CASE ~Abandon(r)
  <2>1. PICK j \in Jobs, copy \in JobCopies : j = run[r].job /\ copy = Row(j)
    BY <1>1, RunnerFacts, RowFields
  <2>2. PICK x : x = [run[r] EXCEPT
                        !.at = IF copy.status = "queued" THEN "start" ELSE "context",
                        !.copy = [copy EXCEPT !.status = "running"],
                        !.next = copy.ckpt + 1]
    OBVIOUS
  <2>3. run' = [run EXCEPT ![r] = x] /\ prepared' = prepared
    BY <1>3, <2>1, <2>2 DEF Load, Advance, knowledgeVars
  <2>4. run[r] \in Runs /\ RowSound(j) /\ prepared[r] = NoPlan
    BY <1>1, <2>1, RunnerFacts
  <2>5. copy.step = step[j] /\ copy.ckpt = ckpt[j] /\ ckpt[j] \in {NoStep, Persist}
    BY <2>1, <2>4 DEF Row, RowSound
  <2>6. PICK begun \in JobCopies : begun = [copy EXCEPT !.status = "running"]
    BY DEF JobCopies, Lease!Statuses
  <2>7. /\ begun.status = "running" /\ begun.step = step[j] /\ begun.ckpt = ckpt[j]
        /\ copy.ckpt + 1 \in {1, 5}
    BY <2>5, <2>6 DEF JobCopies, NoStep, Persist
  <2>8. /\ x \in Runs
        /\ x.job = j /\ x.copy = begun /\ x.at \in {"start", "context"}
        /\ x.next = ckpt[j] + 1
    <3>1. PICK place \in {"start", "context"} :
                   place = IF copy.status = "queued" THEN "start" ELSE "context"
      OBVIOUS
    <3>2. x = [run[r] EXCEPT !.at = place, !.copy = begun, !.next = copy.ckpt + 1]
      BY <2>2, <2>6, <3>1
    <3>3. place \in Points /\ copy.ckpt + 1 \in 1..5
      BY <2>7 DEF Points
    <3>4. x \in Runs
      BY <2>4, <3>2, <3>3 DEF Runs
    <3>5. x.job = j /\ x.copy = begun /\ x.at = place /\ x.next = copy.ckpt + 1
      BY <2>1, <2>4, <3>2 DEF Runs
    <3> QED
      BY <2>5, <3>4, <3>5
  <2>9. /\ ckpt[j] = Persist => HasReceipt(j)'
        /\ step[j] \in {Embed, Persist} => ChunkTried(j)'
    BY <2>4 DEF RowSound, Growth
  <2>10. CopySound(x)'
    BY <2>5, <2>7, <2>8, <2>9 DEF CopySound
  <2>11. PlaceSound(x)' /\ OutputsSound(x)'
    BY <2>5, <2>7, <2>8, <2>9
       DEF PlaceSound, OutputsSound, InStep, NoStep, Parse, Chunk, Persist
  <2> QED
    BY <1>1, <2>3, <2>4, <2>8, <2>10, <2>11, MovesTo
<1> QED
  BY <1>2, <1>3

\* The outcome of an update for its runner: it ends, or goes on at x.
LEMMA UpdateMoves ==
  ASSUME WeakTypeOK, NEW r \in Runners, NEW copy, NEW x, Update(r, copy, x),
         \/ copy.status \in Lease!Terminal
         \/ /\ x \in Runs
            /\ CopySound(x)' /\ PlaceSound(x)' /\ OutputsSound(x)'
            /\ \/ prepared[r] = NoPlan
               \/ /\ ~Beginning(x)
                  /\ x.at \notin {"start", "context"}
                  /\ prepared[r].job = x.job
                  /\ PlanPlace(x)'
  PROVE  RunnerMoves(r)
<1>1. CASE run' = [run EXCEPT ![r] = NoRun] /\ prepared' = [prepared EXCEPT ![r] = NoPlan]
  BY <1>1, MovesOut
<1>2. CASE copy.status \notin Lease!Terminal /\ run' = [run EXCEPT ![r] = x] /\ prepared' = prepared
  BY <1>2, MovesTo
<1> QED
  BY <1>1, <1>2, UpdateEffect, AbandonEffect

\* mark_running
LEMMA StartMoves ==
  ASSUME PipelineInv, Growth, NEW r \in Runners, Start(r)
  PROVE  RunnerMoves(r)
<1>1. WeakTypeOK /\ run[r] # NoRun /\ run[r].at = "start"
  BY DEF PipelineInv, Start, At
<1>2. PICK x : x = [run[r] EXCEPT !.at = "context"]
  OBVIOUS
<1>3. /\ run[r] \in Runs /\ run[r].job \in Jobs
      /\ CopySound(run[r]) /\ PlaceSound(run[r]) /\ OutputsSound(run[r])
      /\ prepared[r] = NoPlan
  BY <1>1, RunnerFacts DEF Beginning
<1>4. /\ x \in Runs /\ x.job = run[r].job /\ x.at = "context" /\ x.copy = run[r].copy
      /\ x.next = run[r].next /\ x.parsed = run[r].parsed /\ x.chunked = run[r].chunked
  BY <1>2, <1>3 DEF Runs, Points
<1>5. CopySound(x)'
  BY <1>3, <1>4 DEF CopySound, Growth
<1>6. PlaceSound(x)' /\ OutputsSound(x)'
  BY <1>1, <1>3, <1>4
     DEF PlaceSound, OutputsSound, CopySound, Growth, InStep, NoStep, Parse, Chunk, Persist
<1>7. Update(r, run[r].copy, x)
  BY <1>2 DEF Start
<1> QED
  BY <1>1, <1>3, <1>4, <1>5, <1>6, <1>7, UpdateMoves

\* A runner that fails to rebuild its context, or has none to rebuild, or holds
\* the outputs of the steps it will not run again.
LEMMA ReconstructMoves ==
  ASSUME PipelineInv, Growth, NEW r \in Runners, Reconstruct(r)
  PROVE  RunnerMoves(r)
<1>1. WeakTypeOK /\ run[r] # NoRun /\ run[r].at = "context"
  BY DEF PipelineInv, Reconstruct, At
<1>2. /\ run[r] \in Runs /\ run[r].job \in Jobs
      /\ CopySound(run[r]) /\ PlaceSound(run[r])
      /\ prepared[r] = NoPlan
  BY <1>1, RunnerFacts DEF Beginning
<1>3. PICK j \in Jobs, copy \in JobCopies : j = run[r].job /\ copy = run[r].copy
  BY <1>1, <1>2, RunFields
<1>4. /\ copy.status = "running" /\ copy.ckpt \in {NoStep, Persist}
      /\ copy.ckpt = Persist => HasReceipt(j)'
      /\ copy.step \in {Embed, Persist} => ChunkTried(j)'
      /\ run[r].next = copy.ckpt + 1
  BY <1>1, <1>2, <1>3 DEF CopySound, PlaceSound, Growth
<1>5. ASSUME NEW x \in Runs, x.job = j, x.copy = copy, x.at \in {"step", "fail"},
             x.next = run[r].next
      PROVE  CopySound(x)' /\ PlaceSound(x)' /\ OutputsSound(x)'
  BY <1>4, <1>5 DEF CopySound, PlaceSound, OutputsSound, InStep, NoStep, Parse, Chunk, Persist
<1>6. ASSUME NEW x \in Runs, x.job = j, x.copy = copy, x.at \in {"step", "fail"},
             x.next = run[r].next, run' = [run EXCEPT ![r] = x], UNCHANGED knowledgeVars
      PROVE  RunnerMoves(r)
  <2>1. prepared' = prepared
    BY <1>6 DEF knowledgeVars
  <2> QED
    BY <1>1, <1>2, <1>5, <1>6, <2>1, MovesTo
<1>7. CASE Advance(r, [run[r] EXCEPT !.at = "step"]) /\ UNCHANGED knowledgeVars
  <2>1. PICK x : x = [run[r] EXCEPT !.at = "step"]
    OBVIOUS
  <2>2. /\ x \in Runs /\ x.job = j /\ x.copy = copy /\ x.at = "step" /\ x.next = run[r].next
    BY <1>2, <1>3, <2>1 DEF Runs, Points
  <2> QED
    BY <1>6, <1>7, <2>1, <2>2 DEF Advance
<1>8. CASE Advance(r, [run[r] EXCEPT !.at = "fail"]) /\ UNCHANGED knowledgeVars
  <2>1. PICK x : x = [run[r] EXCEPT !.at = "fail"]
    OBVIOUS
  <2>2. /\ x \in Runs /\ x.job = j /\ x.copy = copy /\ x.at = "fail" /\ x.next = run[r].next
    BY <1>2, <1>3, <2>1 DEF Runs, Points
  <2> QED
    BY <1>6, <1>8, <2>1, <2>2 DEF Advance
<1>9. ASSUME NEW found \in Contents, NEW chunked \in {found, NoContent},
             Advance(r, [[run[r] EXCEPT !.at = "step"] EXCEPT
                           !.parsed = found, !.chunked = chunked]),
             \/ UNCHANGED knowledgeVars
             \/ /\ ReconstructionStep(copy) >= Embed
                /\ Knowledge!Prepare(r, j, found)
      PROVE  RunnerMoves(r)
  <2>1. PICK x : x = [run[r] EXCEPT !.at = "step", !.parsed = found, !.chunked = chunked]
    OBVIOUS
  <2>2. run' = [run EXCEPT ![r] = x]
    <3>1. x = [[run[r] EXCEPT !.at = "step"] EXCEPT !.parsed = found, !.chunked = chunked]
      BY <1>2, <2>1 DEF Runs
    <3> QED
      BY <1>9, <3>1 DEF Advance
  <2>3. /\ x \in Runs /\ x.job = j /\ x.copy = copy /\ x.at = "step" /\ x.next = run[r].next
    BY <1>2, <1>3, <2>1 DEF Runs, Points
  <2>4. CASE UNCHANGED knowledgeVars
    BY <1>6, <2>2, <2>3, <2>4
  <2>5. CASE ReconstructionStep(copy) >= Embed /\ Knowledge!Prepare(r, j, found)
    <3>1. /\ \A q \in Runners \ {r} : prepared'[q] = prepared[q]
          /\ prepared'[r].job = j
      BY <1>1, <2>5 DEF Knowledge!Prepare, WeakTypeOK, Knowledge!TypeOK
    <3>2. copy.ckpt = Persist \/ copy.step = Persist
      BY <1>4, <2>5 DEF ReconstructionStep, JobCopies, NoStep, Embed, Persist
    <3>3. PlanPlace(x)'
      BY <1>4, <2>3, <3>2 DEF PlanPlace, NoStep, Parse, Embed, Persist
    <3> QED
      BY <1>1, <1>5, <2>2, <2>3, <3>1, <3>3, MovesTo DEF Beginning
  <2> QED
    BY <1>9, <2>4, <2>5
<1> QED
  BY <1>3, <1>7, <1>8, <1>9 DEF Reconstruct

\* A step begins with the number its claim has counted, or with attempt 1.
LEMMA BeginStepMoves ==
  ASSUME PipelineInv, Growth, NEW r \in Runners, BeginStep(r)
  PROVE  RunnerMoves(r)
<1>1. WeakTypeOK /\ run[r] # NoRun /\ run[r].at = "step" /\ run[r].next \in Steps
  BY DEF PipelineInv, BeginStep, At
<1>2. /\ run[r] \in Runs /\ run[r].job \in Jobs
      /\ CopySound(run[r]) /\ PlaceSound(run[r]) /\ OutputsSound(run[r])
      /\ prepared[r] = NoPlan \/ (prepared[r].job = run[r].job /\ PlanPlace(run[r]))
  BY <1>1, RunnerFacts DEF Beginning
<1>3. PICK j \in Jobs, copy \in JobCopies : j = run[r].job /\ copy = run[r].copy
  BY <1>1, <1>2, RunFields
<1>4. /\ copy.status = "running" /\ copy.ckpt \in {NoStep, Persist}
      /\ copy.ckpt = Persist => HasReceipt(j)'
      /\ copy.step \in {Embed, Persist} => ChunkTried(j)'
      /\ run[r].next \in 2..4 => copy.step = run[r].next - 1 /\ run[r].parsed \in Contents
      /\ run[r].next \in 3..4 => run[r].chunked \in Contents /\ ChunkTried(j)'
      /\ prepared[r] = NoPlan \/ run[r].next = Persist
            \/ (ChunkTried(j)' /\ run[r].next \in {Parse, Chunk})
  BY <1>1, <1>2, <1>3
     DEF CopySound, PlaceSound, OutputsSound, PlanPlace, Growth, Steps, Persist
<1>5. CASE copy.step = run[r].next /\ copy.count > 0
  <2>1. PICK x : x = [run[r] EXCEPT !.at = "attempt"]
    OBVIOUS
  <2>2. /\ x \in Runs /\ x.job = j /\ x.copy = copy /\ x.at = "attempt"
        /\ x.next = run[r].next /\ x.parsed = run[r].parsed /\ x.chunked = run[r].chunked
    BY <1>2, <1>3, <2>1 DEF Runs, Points
  <2>3. x.next = Parse
    BY <1>1, <1>4, <1>5, <2>2 DEF Steps, Parse
  <2>4. CopySound(x)' /\ PlaceSound(x)' /\ OutputsSound(x)'
    BY <1>4, <1>5, <2>2, <2>3
       DEF CopySound, PlaceSound, OutputsSound, InStep, Steps, Parse, Chunk, Persist
  <2>5. prepared[r] = NoPlan \/ PlanPlace(x)'
    BY <1>4, <2>2, <2>3 DEF PlanPlace, Parse, Persist
  <2>6. run' = [run EXCEPT ![r] = x] /\ prepared' = prepared
    BY <1>3, <1>5, <2>1 DEF BeginStep, Advance, knowledgeVars
  <2> QED
    BY <1>1, <1>2, <1>3, <2>2, <2>4, <2>5, <2>6, MovesTo DEF Beginning
<1>6. CASE ~(copy.step = run[r].next /\ copy.count > 0)
  <2>1. PICK first : first = [copy EXCEPT !.step = run[r].next, !.count = 1]
    OBVIOUS
  <2>2. /\ first \in JobCopies /\ first.status = "running" /\ first.step = run[r].next
        /\ first.count = 1 /\ first.ckpt = copy.ckpt
    <3>1. run[r].next \in 0..4 /\ 1 \in Nat
      BY <1>1 DEF Steps
    <3>2. first \in JobCopies
      BY <2>1, <3>1 DEF JobCopies
    <3>3. /\ first.status = copy.status /\ first.step = run[r].next
          /\ first.count = 1 /\ first.ckpt = copy.ckpt
      BY <2>1 DEF JobCopies
    <3> QED
      BY <1>4, <3>2, <3>3
  <2>3. PICK x : x = [run[r] EXCEPT !.at = "attempt", !.copy = first]
    OBVIOUS
  <2>4. /\ x \in Runs /\ x.job = j /\ x.copy = first /\ x.at = "attempt"
        /\ x.next = run[r].next /\ x.parsed = run[r].parsed /\ x.chunked = run[r].chunked
    BY <1>2, <1>3, <2>2, <2>3 DEF Runs, Points
  <2>5. CopySound(x)'
    BY <1>4, <2>2, <2>4 DEF CopySound, Embed, Persist
  <2>6. PlaceSound(x)' /\ OutputsSound(x)'
    BY <1>1, <1>4, <2>2, <2>4 DEF PlaceSound, OutputsSound, InStep, Steps, Parse, Chunk, Persist
  <2>7. prepared[r] = NoPlan \/ PlanPlace(x)'
    BY <1>4, <2>2, <2>4 DEF PlanPlace, Persist
  <2>8. Update(r, first, x)
    BY <1>3, <1>6, <2>1, <2>3 DEF BeginStep
  <2> QED
    BY <1>1, <1>2, <1>3, <2>4, <2>5, <2>6, <2>7, <2>8, UpdateMoves DEF Beginning
<1> QED
  BY <1>5, <1>6

\* An attempt that does not exist yet starts; from CHUNK on there is a first one.
LEMMA StartAttemptMoves ==
  ASSUME PipelineInv, Growth, NEW r \in Runners, StartAttempt(r)
  PROVE  RunnerMoves(r)
<1>1. WeakTypeOK /\ run[r] # NoRun /\ run[r].at = "attempt"
  BY DEF PipelineInv, StartAttempt, At
<1>2. /\ run[r] \in Runs /\ run[r].job \in Jobs
      /\ CopySound(run[r]) /\ PlaceSound(run[r]) /\ OutputsSound(run[r])
      /\ prepared[r] = NoPlan \/ (prepared[r].job = run[r].job /\ PlanPlace(run[r]))
  BY <1>1, RunnerFacts DEF Beginning
<1>3. PICK j \in Jobs, copy \in JobCopies : j = run[r].job /\ copy = run[r].copy
  BY <1>1, <1>2, RunFields
<1>4. CASE Abandon(r)
  BY <1>1, <1>4, AbandonEffect, MovesOut
<1>5. CASE ~Abandon(r)
  <2>1. PICK x : x = [run[r] EXCEPT !.at = "execute"]
    OBVIOUS
  <2>2. /\ x \in Runs /\ x.job = j /\ x.copy = copy /\ x.at = "execute"
        /\ x.next = run[r].next /\ x.parsed = run[r].parsed /\ x.chunked = run[r].chunked
    BY <1>2, <1>3, <2>1 DEF Runs, Points
  <2>3. /\ run' = [run EXCEPT ![r] = x] /\ prepared' = prepared
        /\ attempts[j][copy.step][copy.count] = "none"
        /\ attempts' = [attempts EXCEPT ![j][copy.step][copy.count] = "running"]
    BY <1>3, <1>5, <2>1 DEF StartAttempt, Advance, knowledgeVars
  <2>4. copy.step = run[r].next /\ run[r].next \in Steps
    BY <1>1, <1>2, <1>3 DEF PlaceSound, InStep
  <2>5. copy.step = Chunk => ChunkTried(j)'
    <3>1. CASE copy.step = Chunk /\ copy.count = 1
      <4>1. attempts[j] \in [Steps -> [1..MaxNumber -> AttemptStates]]
        BY <1>1 DEF WeakTypeOK
      <4>2. attempts'[j][Chunk][1] = "running"
        BY <1>1, <2>3, <3>1, <4>1, FirstNumber DEF WeakTypeOK, Steps, Chunk
      <4> QED
        BY <4>2 DEF ChunkTried
    <3>2. CASE copy.step = Chunk /\ copy.count # 1
      BY <1>1, <1>2, <1>3, <2>4, <3>2 DEF OutputsSound, Growth
    <3> QED
      BY <3>1, <3>2
  <2>6. CopySound(x)'
    BY <1>2, <1>3, <2>2 DEF CopySound, Growth
  <2>7. PlaceSound(x)' /\ OutputsSound(x)'
    BY <1>1, <1>2, <1>3, <2>2, <2>4, <2>5
       DEF PlaceSound, OutputsSound, InStep, Growth, Steps, Chunk, Parse, Persist
  <2>8. prepared[r] = NoPlan \/ PlanPlace(x)'
    BY <1>1, <1>2, <1>3, <2>2, <2>3, <2>4
       DEF PlanPlace, Growth, ChunkTried, Steps, Chunk, Parse, Embed
  <2> QED
    BY <1>1, <1>2, <1>3, <2>2, <2>3, <2>6, <2>7, <2>8, MovesTo DEF Beginning
<1> QED
  BY <1>4, <1>5

\* A step that has run leaves its output, or the receipt of PERSIST.
LEMMA ExecuteMoves ==
  ASSUME PipelineInv, Growth, NEW r \in Runners, Execute(r)
  PROVE  RunnerMoves(r)
<1>1. WeakTypeOK /\ run[r] # NoRun /\ run[r].at = "execute"
  BY DEF PipelineInv, Execute, At
<1>2. /\ run[r] \in Runs /\ run[r].job \in Jobs
      /\ CopySound(run[r]) /\ PlaceSound(run[r]) /\ OutputsSound(run[r])
      /\ prepared[r] = NoPlan \/ (prepared[r].job = run[r].job /\ PlanPlace(run[r]))
  BY <1>1, RunnerFacts DEF Beginning
<1>3. PICK j \in Jobs, copy \in JobCopies : j = run[r].job /\ copy = run[r].copy
  BY <1>1, <1>2, RunFields
<1>4. /\ copy.status = "running" /\ copy.ckpt \in {NoStep, Persist}
      /\ copy.ckpt = Persist => HasReceipt(j)'
      /\ copy.step = run[r].next /\ run[r].next \in Steps
      /\ run[r].next \in 2..4 => run[r].parsed \in Contents
      /\ run[r].next \in 3..4 => run[r].chunked \in Contents
      /\ run[r].next \in 2..4 => ChunkTried(j)'
      /\ prepared[r] = NoPlan \/ run[r].next = Persist
            \/ (ChunkTried(j)' /\ run[r].next = Parse)
  BY <1>1, <1>2, <1>3
     DEF CopySound, PlaceSound, OutputsSound, PlanPlace, Growth, InStep, Steps, Chunk, Persist
<1>5. ASSUME NEW x \in Runs, run' = [run EXCEPT ![r] = x],
             x.job = j, x.copy = copy, x.next = run[r].next, x.at = "record",
             x.next \in 2..4 => x.parsed \in Contents,
             x.next \in 3..4 => x.chunked \in Contents,
             x.outcome = "success" =>
                /\ x.next = Parse => x.parsed \in Contents
                /\ x.next = Chunk => x.chunked \in Contents
                /\ x.next = Persist => HasReceipt(j)',
             \/ prepared' = prepared
             \/ /\ x.next = Embed /\ x.outcome = "success"
                /\ \A q \in Runners \ {r} : prepared'[q] = prepared[q]
                /\ prepared'[r].job = j
      PROVE  RunnerMoves(r)
  <2>1. CopySound(x)'
    BY <1>4, <1>5 DEF CopySound, Embed, Persist
  <2>2. PlaceSound(x)' /\ OutputsSound(x)'
    BY <1>4, <1>5 DEF PlaceSound, OutputsSound, InStep, Steps, Parse, Chunk, Persist
  <2>3. \/ prepared'[r] = NoPlan
        \/ prepared'[r].job = x.job /\ PlanPlace(x)'
    BY <1>2, <1>3, <1>4, <1>5 DEF PlanPlace, Persist, Parse
  <2> QED
    BY <1>1, <1>5, <2>1, <2>2, <2>3, MovesTo DEF Beginning
<1>6. ASSUME NEW outcome \in Outcomes, NEW x, x = Result(r, outcome)
      PROVE  /\ x \in Runs
             /\ x.job = j /\ x.copy = copy /\ x.next = run[r].next /\ x.at = "record"
             /\ x.parsed = run[r].parsed /\ x.chunked = run[r].chunked
             /\ x.outcome = outcome
  <2>1. x = [run[r] EXCEPT !.at = "record", !.outcome = outcome]
    BY <1>6 DEF Result
  <2>2. x \in Runs
    BY <1>2, <2>1 DEF Runs, Points
  <2> QED
    BY <1>2, <1>3, <2>1, <2>2 DEF Runs
<1>7. ASSUME NEW failure \in {"retryable", "permanent"}, Advance(r, Result(r, failure)),
             prepared' = prepared
      PROVE  RunnerMoves(r)
  <2>1. failure \in Outcomes /\ failure # "success"
    BY DEF Outcomes
  <2>2. PICK x : x = Result(r, failure)
    OBVIOUS
  <2>3. /\ x \in Runs
        /\ x.job = j /\ x.copy = copy /\ x.next = run[r].next /\ x.at = "record"
        /\ x.parsed = run[r].parsed /\ x.chunked = run[r].chunked
        /\ x.outcome # "success"
    BY <1>6, <2>1, <2>2
  <2>4. /\ x.next \in 2..4 => x.parsed \in Contents
        /\ x.next \in 3..4 => x.chunked \in Contents
    BY <1>4, <2>3
  <2>5. run' = [run EXCEPT ![r] = x]
    BY <1>7, <2>2 DEF Advance
  <2> QED
    BY <1>5, <1>7, <2>3, <2>4, <2>5
<1>8. CASE ExecuteParse(r)
  <2>1. run[r].next = Parse /\ prepared' = prepared
    BY <1>3, <1>4, <1>8 DEF ExecuteParse, knowledgeVars
  <2>2. ASSUME NEW found \in Contents,
               Advance(r, [Result(r, "success") EXCEPT !.parsed = found])
        PROVE  RunnerMoves(r)
    <3>1. PICK x : x = [Result(r, "success") EXCEPT !.parsed = found]
      OBVIOUS
    <3>2. /\ x \in Runs /\ x.job = j /\ x.copy = copy /\ x.next = run[r].next
          /\ x.at = "record" /\ x.parsed = found
      BY <1>2, <1>3, <3>1 DEF Result, Runs, Points, Outcomes
    <3>3. /\ x.next \notin 2..4 /\ x.next \notin 3..4 /\ x.next # Chunk /\ x.next # Persist
          /\ run' = [run EXCEPT ![r] = x]
      BY <2>1, <2>2, <3>1, <3>2 DEF Advance, Parse, Chunk, Persist
    <3> QED
      BY <1>5, <2>1, <3>2, <3>3
  <2> QED
    BY <1>7, <1>8, <2>1, <2>2 DEF ExecuteParse
<1>9. CASE ExecuteChunk(r)
  <2>1. run[r].next = Chunk /\ prepared' = prepared
    BY <1>3, <1>4, <1>9 DEF ExecuteChunk, knowledgeVars
  <2>2. CASE Advance(r, [Result(r, "success") EXCEPT !.chunked = run[r].parsed])
    <3>1. run[r].parsed \in Contents
      BY <1>4, <2>1 DEF Chunk
    <3>2. PICK x : x = [Result(r, "success") EXCEPT !.chunked = run[r].parsed]
      OBVIOUS
    <3>3. /\ x \in Runs /\ x.job = j /\ x.copy = copy /\ x.next = run[r].next
          /\ x.at = "record" /\ x.parsed = run[r].parsed /\ x.chunked = run[r].parsed
      BY <1>2, <1>3, <3>1, <3>2 DEF Result, Runs, Points, Outcomes
    <3>4. /\ x.next \notin 3..4 /\ x.next # Persist
          /\ run' = [run EXCEPT ![r] = x]
      BY <2>1, <2>2, <3>2, <3>3 DEF Advance, Chunk, Persist
    <3> QED
      BY <1>5, <2>1, <3>1, <3>3, <3>4
  <2> QED
    BY <1>7, <1>9, <2>1, <2>2 DEF ExecuteChunk
<1>10. CASE ExecuteEmbed(r)
  <2>1. run[r].next = Embed
    BY <1>3, <1>4, <1>10 DEF ExecuteEmbed
  <2>2. CASE /\ Knowledge!Prepare(r, run[r].job, run[r].chunked)
             /\ Advance(r, Result(r, "success"))
    <3>1. PICK x : x = Result(r, "success")
      OBVIOUS
    <3>2. /\ x \in Runs
          /\ x.job = j /\ x.copy = copy /\ x.next = run[r].next /\ x.at = "record"
          /\ x.parsed = run[r].parsed /\ x.chunked = run[r].chunked
          /\ x.outcome = "success"
      BY <1>6, <3>1 DEF Outcomes
    <3>3. /\ \A q \in Runners \ {r} : prepared'[q] = prepared[q]
          /\ prepared'[r].job = j
      BY <1>1, <1>3, <2>2 DEF Knowledge!Prepare, WeakTypeOK, Knowledge!TypeOK
    <3>4. /\ x.parsed \in Contents /\ x.chunked \in Contents
          /\ x.next = Embed /\ x.next # Persist
          /\ run' = [run EXCEPT ![r] = x]
      BY <1>4, <2>1, <2>2, <3>1, <3>2 DEF Advance, Embed, Persist
    <3> QED
      BY <1>5, <3>2, <3>3, <3>4
  <2> QED
    BY <1>7, <1>10, <2>2 DEF ExecuteEmbed, knowledgeVars
<1>11. CASE ExecutePersist(r)
  <2>1. run[r].next = Persist /\ prepared' = prepared
    BY <1>3, <1>4, <1>11
       DEF ExecutePersist, Knowledge!Commit, Knowledge!Replay, Knowledge!RollBack,
           Knowledge!Refuse, Knowledge!knowledgeVars
  <2>2. CASE /\ Knowledge!Commit(r) \/ Knowledge!Replay(r)
             /\ Advance(r, Result(r, "success"))
    <3>1. prepared[r] # NoPlan /\ prepared[r].job = j
      BY <1>2, <1>3, <2>2 DEF Knowledge!Commit, Knowledge!Replay
    <3>2. HasReceipt(j)'
      <4>1. CASE Knowledge!Commit(r)
        <5>1. receipt'[j] = prepared[r].content
          BY <3>1, <4>1 DEF Knowledge!Commit
        <5>2. prepared[r] \in Knowledge!Preparations
          BY <1>1, <3>1 DEF WeakTypeOK, Knowledge!TypeOK
        <5>3. prepared[r].content \in Contents
          BY <5>2 DEF Knowledge!Preparations, Knowledge!PreparedBy
        <5> QED
          BY <5>1, <5>3, ComposedAssumption DEF Knowledge!KnowledgeAssumption, HasReceipt
      <4>2. CASE Knowledge!Replay(r)
        BY <3>1, <4>2 DEF Knowledge!Replay, Knowledge!Committed, Knowledge!knowledgeVars,
                          HasReceipt
      <4> QED
        BY <2>2, <4>1, <4>2
    <3>3. PICK x : x = Result(r, "success")
      OBVIOUS
    <3>4. /\ x \in Runs
          /\ x.job = j /\ x.copy = copy /\ x.next = run[r].next /\ x.at = "record"
          /\ x.parsed = run[r].parsed /\ x.chunked = run[r].chunked
          /\ x.outcome = "success"
      BY <1>6, <3>3 DEF Outcomes
    <3>5. x.parsed \in Contents /\ x.chunked \in Contents /\ run' = [run EXCEPT ![r] = x]
      BY <1>4, <2>1, <2>2, <3>3, <3>4 DEF Advance, Persist
    <3> QED
      BY <1>5, <2>1, <3>2, <3>4, <3>5
  <2> QED
    BY <1>7, <1>11, <2>1, <2>2 DEF ExecutePersist
<1> QED
  BY <1>8, <1>9, <1>10, <1>11 DEF Execute

\* A result sends the runner to the next step, to a retry, to its checkpoint or to
\* failure.
LEMMA RecordAttemptMoves ==
  ASSUME PipelineInv, Growth, NEW r \in Runners, RecordAttempt(r)
  PROVE  RunnerMoves(r)
<1>1. WeakTypeOK /\ run[r] # NoRun /\ run[r].at = "record"
  BY DEF PipelineInv, RecordAttempt, At
<1>2. /\ run[r] \in Runs /\ run[r].job \in Jobs
      /\ CopySound(run[r]) /\ PlaceSound(run[r]) /\ OutputsSound(run[r])
      /\ prepared[r] = NoPlan \/ (prepared[r].job = run[r].job /\ PlanPlace(run[r]))
  BY <1>1, RunnerFacts DEF Beginning
<1>3. PICK j \in Jobs, copy \in JobCopies : j = run[r].job /\ copy = run[r].copy
  BY <1>1, <1>2, RunFields
<1>4. CASE Abandon(r)
  BY <1>1, <1>4, AbandonEffect, MovesOut
<1>5. CASE ~Abandon(r)
  <2>1. /\ run' = [run EXCEPT ![r] = AfterAttempt(r)]
        /\ prepared' = prepared
    BY <1>5 DEF RecordAttempt, Advance, knowledgeVars
  <2>2. copy.step = run[r].next /\ run[r].next \in Steps
    BY <1>1, <1>2, <1>3 DEF PlaceSound, InStep
  <2>3. CASE run[r].outcome = "success" /\ copy.step = Persist
    <3>1. PICK x : x = [run[r] EXCEPT !.at = "checkpoint"]
      OBVIOUS
    <3>2. /\ x \in Runs /\ x.job = j /\ x.copy = copy /\ x.at = "checkpoint"
          /\ x.next = run[r].next /\ x.parsed = run[r].parsed /\ x.chunked = run[r].chunked
      BY <1>2, <1>3, <3>1 DEF Runs, Points
    <3>3. run' = [run EXCEPT ![r] = x]
      BY <1>3, <2>1, <2>3, <3>1 DEF AfterAttempt, CheckpointSteps
    <3>4. CopySound(x)'
      BY <1>2, <1>3, <3>2 DEF CopySound, Growth
    <3>5. PlaceSound(x)' /\ OutputsSound(x)'
      BY <1>1, <1>2, <1>3, <2>2, <2>3, <3>2
         DEF PlaceSound, OutputsSound, InStep, Growth, Steps, Parse, Chunk, Persist
    <3>6. PlanPlace(x)'
      BY <2>2, <2>3, <3>2 DEF PlanPlace, Persist
    <3> QED
      BY <1>1, <1>2, <1>3, <2>1, <3>2, <3>3, <3>4, <3>5, <3>6, MovesTo DEF Beginning
  <2>4. CASE run[r].outcome = "success" /\ copy.step # Persist
    <3>1. PICK reset \in JobCopies : reset = [copy EXCEPT !.count = 0]
      BY DEF JobCopies
    <3>2. reset.status = copy.status /\ reset.step = copy.step /\ reset.ckpt = copy.ckpt
      BY <3>1 DEF JobCopies
    <3>3. PICK x : x = [run[r] EXCEPT !.at = "step", !.next = @ + 1, !.copy = reset]
      OBVIOUS
    <3>4. run[r].next \in 1..3 /\ run[r].next + 1 \in 2..4
      BY <2>2, <2>4 DEF Steps, Persist
    <3>5. /\ x \in Runs /\ x.job = j /\ x.copy = reset /\ x.at = "step"
          /\ x.next = run[r].next + 1
          /\ x.parsed = run[r].parsed /\ x.chunked = run[r].chunked
      <4>1. run[r].next + 1 \in 1..5 /\ "step" \in Points
        BY <3>4 DEF Points
      <4>2. x \in Runs
        BY <1>2, <3>3, <4>1 DEF Runs
      <4> QED
        BY <1>2, <1>3, <3>3, <4>2 DEF Runs
    <3>6. run' = [run EXCEPT ![r] = x]
      <4>1. AfterAttempt(r) = [run[r] EXCEPT !.at = "step", !.next = @ + 1, !.copy.count = 0]
        BY <1>3, <2>4 DEF AfterAttempt, CheckpointSteps
      <4>2. x = [run[r] EXCEPT !.at = "step", !.next = @ + 1, !.copy.count = 0]
        BY <1>2, <1>3, <3>1, <3>3 DEF Runs
      <4> QED
        BY <2>1, <4>1, <4>2
    <3>7. CopySound(x)'
      BY <1>2, <1>3, <3>2, <3>5 DEF CopySound, Growth
    <3>8. PlaceSound(x)'
      BY <2>2, <3>2, <3>4, <3>5 DEF PlaceSound, InStep
    <3>9. OutputsSound(x)'
      BY <1>1, <1>2, <1>3, <2>4, <3>4, <3>5
         DEF OutputsSound, Growth, Parse, Chunk
    <3>10. prepared[r] = NoPlan \/ PlanPlace(x)'
      BY <1>1, <1>2, <1>3, <2>4, <3>4, <3>5
         DEF PlanPlace, Growth, Parse, Chunk, Embed
    <3> QED
      BY <1>1, <1>2, <1>3, <2>1, <3>5, <3>6, <3>7, <3>8, <3>9, <3>10, MovesTo DEF Beginning
  <2>5. CASE run[r].outcome # "success"
    <3>1. PICK place \in {"retry", "fail"} :
                 AfterAttempt(r) = [run[r] EXCEPT !.at = place]
      BY <2>5 DEF AfterAttempt
    <3>2. PICK x : x = [run[r] EXCEPT !.at = place]
      OBVIOUS
    <3>3. /\ x \in Runs /\ x.job = j /\ x.copy = copy /\ x.at = place
          /\ x.next = run[r].next /\ x.parsed = run[r].parsed /\ x.chunked = run[r].chunked
      BY <1>2, <1>3, <3>2 DEF Runs, Points
    <3>4. run' = [run EXCEPT ![r] = x]
      BY <2>1, <3>1, <3>2
    <3>5. CopySound(x)'
      BY <1>2, <1>3, <3>3 DEF CopySound, Growth
    <3>6. PlaceSound(x)' /\ OutputsSound(x)'
      BY <1>1, <1>2, <1>3, <2>2, <3>3
         DEF PlaceSound, OutputsSound, InStep, Growth, Steps, Parse, Chunk, Persist
    <3>7. prepared[r] = NoPlan \/ PlanPlace(x)'
      BY <1>1, <1>2, <1>3, <2>5, <3>3
         DEF PlanPlace, Growth, Parse, Chunk, Embed
    <3> QED
      BY <1>1, <1>2, <1>3, <2>1, <3>3, <3>4, <3>5, <3>6, <3>7, MovesTo DEF Beginning
  <2> QED
    BY <2>3, <2>4, <2>5
<1> QED
  BY <1>4, <1>5

\* A retry runs the same step under the number the row has counted.
LEMMA RecordRetryMoves ==
  ASSUME PipelineInv, Growth, NEW r \in Runners, RecordRetry(r)
  PROVE  RunnerMoves(r)
<1>1. WeakTypeOK /\ run[r] # NoRun /\ run[r].at = "retry"
  BY DEF PipelineInv, RecordRetry, At
<1>2. /\ run[r] \in Runs /\ run[r].job \in Jobs
      /\ CopySound(run[r]) /\ PlaceSound(run[r]) /\ OutputsSound(run[r])
      /\ prepared[r] = NoPlan \/ (prepared[r].job = run[r].job /\ PlanPlace(run[r]))
  BY <1>1, RunnerFacts DEF Beginning
<1>3. PICK j \in Jobs, row \in JobCopies : j = run[r].job /\ row = Row(j)
  BY <1>2, <1>1, RowFields
<1>4. CASE Abandon(r)
  BY <1>1, <1>4, AbandonEffect, MovesOut
<1>5. CASE ~Abandon(r)
  <2>1. PICK counted : counted = [row EXCEPT !.count = @ + 1]
    OBVIOUS
  <2>2. /\ counted \in JobCopies /\ counted.status = row.status
        /\ counted.step = row.step /\ counted.ckpt = row.ckpt
    BY <2>1 DEF JobCopies
  <2>3. PICK x : x = [run[r] EXCEPT !.at = "attempt", !.copy = counted]
    OBVIOUS
  <2>4. /\ x \in Runs /\ x.job = j /\ x.copy = counted /\ x.at = "attempt"
        /\ x.next = run[r].next /\ x.parsed = run[r].parsed /\ x.chunked = run[r].chunked
    BY <1>2, <1>3, <2>2, <2>3 DEF Runs, Points
  <2>5. /\ run' = [run EXCEPT ![r] = x] /\ prepared' = prepared
        /\ status[j] = "running" /\ step[j] = run[r].copy.step
    <3>1. run' = [run EXCEPT ![r] = [@ EXCEPT !.at = "attempt", !.copy = counted]]
      BY <1>3, <1>5, <2>1 DEF RecordRetry
    <3> QED
      BY <1>3, <1>5, <2>3, <3>1 DEF RecordRetry, knowledgeVars
  <2>6. row.status = status[j] /\ row.step = step[j] /\ row.ckpt = ckpt[j]
    BY <1>3 DEF Row
  <2>7. /\ ckpt[j] \in {NoStep, Persist}
        /\ ckpt[j] = Persist => HasReceipt(j)'
        /\ step[j] \in {Embed, Persist} => ChunkTried(j)'
    BY <1>1, <1>3, RunnerFacts DEF RowSound, Growth
  <2>8. CopySound(x)'
    BY <2>2, <2>4, <2>5, <2>6, <2>7 DEF CopySound
  <2>9. PlaceSound(x)' /\ OutputsSound(x)'
    BY <1>1, <1>2, <1>3, <2>2, <2>4, <2>5, <2>6
       DEF PlaceSound, OutputsSound, InStep, Growth, Steps, Parse, Chunk, Persist
  <2>10. prepared[r] = NoPlan \/ PlanPlace(x)'
    BY <1>1, <1>2, <1>3, <2>4 DEF PlanPlace, Growth, Parse, Chunk, Embed
  <2> QED
    BY <1>1, <1>2, <1>3, <2>4, <2>5, <2>8, <2>9, <2>10, MovesTo DEF Beginning
<1> QED
  BY <1>4, <1>5

\* Past the checkpoint of PERSIST the receipt is there, and no step is left.
LEMMA CheckpointMoves ==
  ASSUME PipelineInv, Growth, NEW r \in Runners, Checkpoint(r)
  PROVE  RunnerMoves(r)
<1>1. WeakTypeOK /\ run[r] # NoRun /\ run[r].at = "checkpoint"
  BY DEF PipelineInv, Checkpoint, At
<1>2. /\ run[r] \in Runs /\ run[r].job \in Jobs
      /\ CopySound(run[r]) /\ PlaceSound(run[r])
      /\ prepared[r] = NoPlan \/ (prepared[r].job = run[r].job /\ PlanPlace(run[r]))
  BY <1>1, RunnerFacts DEF Beginning
<1>3. PICK j \in Jobs, copy \in JobCopies : j = run[r].job /\ copy = run[r].copy
  BY <1>1, <1>2, RunFields
<1>4. /\ run[r].next = Persist /\ copy.step = Persist /\ copy.status = "running"
      /\ HasReceipt(j)'
      /\ copy.step \in {Embed, Persist} => ChunkTried(j)'
  BY <1>1, <1>2, <1>3 DEF PlaceSound, InStep, CopySound, Growth
<1>5. PICK passed : passed = [copy EXCEPT !.ckpt = copy.step, !.count = 0]
  OBVIOUS
<1>6. /\ passed \in JobCopies /\ passed.status = "running"
      /\ passed.step = Persist /\ passed.ckpt = Persist
  BY <1>4, <1>5 DEF JobCopies, Persist
<1>7. PICK x : x = [run[r] EXCEPT !.at = "step", !.next = @ + 1, !.copy = passed]
  OBVIOUS
<1>8. x \in Runs /\ x.job = j /\ x.copy = passed /\ x.at = "step" /\ x.next = 5
  <2>1. run[r].next + 1 = 5 /\ 5 \in 1..5 /\ "step" \in Points
    BY <1>4 DEF Points, Persist
  <2>2. x \in Runs
    BY <1>2, <1>6, <1>7, <2>1 DEF Runs
  <2> QED
    BY <1>2, <1>3, <1>7, <2>1, <2>2 DEF Runs
<1>9. CopySound(x)'
  BY <1>4, <1>6, <1>8 DEF CopySound
<1>10. PlaceSound(x)' /\ OutputsSound(x)' /\ PlanPlace(x)'
  BY <1>4, <1>8 DEF PlaceSound, OutputsSound, PlanPlace, InStep, Parse, Chunk, Persist
<1>11. Update(r, passed, x)
  BY <1>3, <1>5, <1>7 DEF Checkpoint
<1> QED
  BY <1>1, <1>2, <1>3, <1>8, <1>9, <1>10, <1>11, UpdateMoves DEF Beginning

\* An update with a final status ends the execution, as giving up does.
LEMMA EndMoves ==
  ASSUME PipelineInv, NEW r \in Runners, Complete(r) \/ Fail(r) \/ Abort(r)
  PROVE  RunnerMoves(r)
<1>1. WeakTypeOK
  BY DEF PipelineInv
<1>2. CASE Abort(r)
  BY <1>1, <1>2, AbandonEffect, MovesOut DEF Abort
<1>3. CASE Complete(r)
  <2>1. PICK copy \in JobCopies : copy = run[r].copy
    BY <1>1, <1>3, RunFields DEF Complete, At
  <2>2. PICK final : final = [copy EXCEPT !.status = "completed", !.step = NoStep, !.count = 0]
    OBVIOUS
  <2>3. Update(r, final, NoRun) /\ final.status \in Lease!Terminal
    BY <1>3, <2>1, <2>2 DEF Complete, JobCopies, Lease!Terminal
  <2> QED
    BY <1>1, <2>3, UpdateMoves
<1>4. CASE Fail(r)
  <2>1. PICK copy \in JobCopies : copy = run[r].copy
    BY <1>1, <1>4, RunFields DEF Fail, At
  <2>2. PICK final : final = [copy EXCEPT !.status = "failed"]
    OBVIOUS
  <2>3. Update(r, final, NoRun) /\ final.status \in Lease!Terminal
    BY <1>4, <2>1, <2>2 DEF Fail, JobCopies, Lease!Terminal
  <2> QED
    BY <1>1, <2>3, UpdateMoves
<1> QED
  BY <1>2, <1>3, <1>4

\* Every step of a runner leads it from a sound place to a sound one.
LEMMA RunnerStepMoves ==
  ASSUME PipelineInv, Growth, NEW r \in Runners, RunnerStep(r) \/ Abort(r)
  PROVE  RunnerMoves(r)
  BY InterruptMoves, LoadMoves, StartMoves, ReconstructMoves, BeginStepMoves,
     StartAttemptMoves, ExecuteMoves, RecordAttemptMoves, RecordRetryMoves,
     CheckpointMoves, EndMoves DEF RunnerStep

\* An execution that begins has read nothing and prepared nothing.
LEMMA BeginMoves ==
  ASSUME PipelineInv, NEW r \in Runners, NEW j \in Jobs, NEW point \in {"interrupt", "load"},
         run[r] = NoRun, run' = [run EXCEPT ![r] = Began(j, point)], prepared' = prepared
  PROVE  RunnerMoves(r)
<1>1. WeakTypeOK
  BY DEF PipelineInv
<1>2. PICK row \in JobCopies : row = Row(j)
  BY <1>1, RowFields
<1>3. PICK x : x = [job |-> j, at |-> point, copy |-> row, next |-> 1,
                    parsed |-> NoContent, chunked |-> NoContent, outcome |-> "success"]
  OBVIOUS
<1>4. x \in Runs /\ Beginning(x)
  BY <1>2, <1>3 DEF Runs, Points, Outcomes, Beginning
<1>5. run' = [run EXCEPT ![r] = x]
  BY <1>2, <1>3 DEF Began
<1>6. prepared'[r] = NoPlan
  BY DEF PipelineInv, PlanSound
<1> QED
  BY <1>1, <1>4, <1>5, <1>6, MovesTo

-----------------------------------------------------------------------------
(* What a step does to the rows                                            *)

RowsMove ==
    /\ step' \in [Jobs -> 0..4]
    /\ count' \in [Jobs -> Nat]
    /\ ckpt' \in [Jobs -> 0..4]
    /\ \A j \in Jobs : RowSound(j)'

\* A step that writes neither status, step nor checkpoint leaves every row sound.
LEMMA RowsStay ==
  ASSUME PipelineInv, Growth, UNCHANGED <<step, ckpt>>, count' \in [Jobs -> Nat],
         \A j \in Jobs : status'[j] = "completed" => status[j] = "completed"
  PROVE  RowsMove
  BY DEF PipelineInv, WeakTypeOK, Growth, RowsMove, RowSound

\* An update writes what its runner may claim of the job.
LEMMA UpdateRows ==
  ASSUME PipelineInv, Growth, NEW r \in Runners, run[r] # NoRun,
         NEW copy \in JobCopies, NEW continued, Update(r, copy, continued),
         copy.ckpt \in {NoStep, Persist},
         copy.ckpt = Persist \/ copy.status = "completed" => HasReceipt(run[r].job),
         copy.step \in {Embed, Persist} => ChunkTried(run[r].job)
  PROVE  RowsMove
<1>1. WeakTypeOK /\ run[r].job \in Jobs
  BY RunnerFacts DEF PipelineInv
<1>2. CASE Abandon(r)
  <2>1. UNCHANGED <<status, step, count, ckpt>>
    BY <1>2, AbandonEffect
  <2> QED
    BY <1>1, <2>1, RowsStay DEF WeakTypeOK
<1>3. CASE ~Abandon(r)
  <2>1. PICK j \in Jobs : j = run[r].job
    BY <1>1
  <2>2. /\ step' = [step EXCEPT ![j] = copy.step]
        /\ count' = [count EXCEPT ![j] = copy.count]
        /\ ckpt' = [ckpt EXCEPT ![j] = copy.ckpt]
        /\ status' = status \/ status' = [status EXCEPT ![j] = copy.status]
    BY <1>3, <2>1, UpdateEffect DEF Progress
  <2>3. copy.step \in 0..4 /\ copy.count \in Nat /\ copy.ckpt \in 0..4
    BY DEF JobCopies
  <2>4. /\ step' \in [Jobs -> 0..4] /\ count' \in [Jobs -> Nat] /\ ckpt' \in [Jobs -> 0..4]
    BY <1>1, <2>2, <2>3 DEF WeakTypeOK
  <2>5. ASSUME NEW i \in Jobs PROVE RowSound(i)'
    <3>1. RowSound(i)
      BY DEF PipelineInv
    <3>2. CASE i = j
      <4>1. /\ step'[j] = copy.step /\ ckpt'[j] = copy.ckpt
            /\ status'[j] = status[j] \/ status'[j] = copy.status
        BY <1>1, <2>2 DEF WeakTypeOK, Lease!TypeOK
      <4> QED
        BY <2>1, <3>1, <3>2, <4>1 DEF RowSound, Growth
    <3>3. CASE i # j
      <4>1. step'[i] = step[i] /\ ckpt'[i] = ckpt[i] /\ status'[i] = status[i]
        BY <1>1, <2>2, <3>3 DEF WeakTypeOK, Lease!TypeOK
      <4> QED
        BY <3>1, <4>1 DEF RowSound, Growth
    <3> QED
      BY <3>2, <3>3
  <2> QED
    BY <2>4, <2>5 DEF RowsMove
<1> QED
  BY <1>2, <1>3

\* The five writes of a runner to its row.
LEMMA RunnerRows ==
  ASSUME PipelineInv, Growth, NEW r \in Runners, RunnerStep(r) \/ Abort(r)
  PROVE  RowsMove
<1>1. WeakTypeOK
  BY DEF PipelineInv
<1>2. ASSUME UNCHANGED <<status, step, count, ckpt>> PROVE RowsMove
  BY <1>1, <1>2, RowsStay DEF WeakTypeOK
<1>3. ASSUME NEW x, Advance(r, x) PROVE RowsMove
  BY <1>2, <1>3 DEF Advance, leaseVars, progressVars
<1>4. ASSUME Abandon(r) PROVE RowsMove
  BY <1>2, <1>4, AbandonEffect
<1>5. CASE Interrupt(r) \/ Reconstruct(r) \/ Execute(r)
  BY <1>3, <1>5
     DEF Interrupt, Reconstruct, Execute, ExecuteParse, ExecuteChunk, ExecuteEmbed, ExecutePersist
<1>6. CASE Load(r) \/ StartAttempt(r) \/ RecordAttempt(r) \/ Abort(r)
  BY <1>3, <1>4, <1>6 DEF Load, StartAttempt, RecordAttempt, Abort
<1>7. ASSUME run[r] # NoRun, ~Beginning(run[r])
      PROVE  /\ run[r] \in Runs /\ run[r].copy \in JobCopies
             /\ CopySound(run[r]) /\ PlaceSound(run[r])
             /\ run[r].at # "fail" => OutputsSound(run[r])
  BY <1>1, <1>7, RunnerFacts, RunFields
<1>8. CASE Start(r)
  BY <1>7, <1>8, UpdateRows DEF Start, At, Beginning, CopySound
<1>9. CASE BeginStep(r)
  <2>1. run[r] # NoRun /\ run[r].at = "step" /\ run[r].next \in Steps
    BY <1>9 DEF BeginStep, At
  <2>2. PICK copy \in JobCopies : copy = run[r].copy
    BY <1>7, <2>1 DEF Beginning
  <2>3. CASE Advance(r, [run[r] EXCEPT !.at = "attempt"])
    BY <1>3, <2>3
  <2>4. CASE ~Advance(r, [run[r] EXCEPT !.at = "attempt"])
    <3>1. PICK first : first = [copy EXCEPT !.step = run[r].next, !.count = 1]
      OBVIOUS
    <3>2. /\ first.status = copy.status /\ first.step = run[r].next
          /\ first.count = 1 /\ first.ckpt = copy.ckpt
      BY <3>1 DEF JobCopies
    <3>3. first \in JobCopies
      <4>1. run[r].next \in 0..4 /\ 1 \in Nat
        BY <2>1 DEF Steps
      <4> QED
        BY <3>1, <4>1 DEF JobCopies
    <3>4. Update(r, first, [run[r] EXCEPT !.at = "attempt", !.copy = first])
      BY <1>9, <2>2, <2>4, <3>1 DEF BeginStep
    <3>5. /\ first.ckpt \in {NoStep, Persist}
          /\ first.ckpt = Persist \/ first.status = "completed" => HasReceipt(run[r].job)
          /\ first.step \in {Embed, Persist} => ChunkTried(run[r].job)
      BY <1>7, <2>1, <2>2, <3>2 DEF Beginning, CopySound, OutputsSound, Embed, Persist
    <3> QED
      BY <2>1, <3>3, <3>4, <3>5, UpdateRows
  <2> QED
    BY <2>3, <2>4
<1>10. CASE RecordRetry(r)
  <2>1. /\ UNCHANGED <<status, step, ckpt>>
        /\ count' = count \/ count' = [count EXCEPT ![run[r].job] = @ + 1]
    BY <1>10, AbandonEffect DEF RecordRetry, leaseVars
  <2>2. run[r].job \in Jobs /\ count \in [Jobs -> Nat]
    BY <1>1, <1>10, RunFields DEF RecordRetry, At, WeakTypeOK
  <2>3. count' \in [Jobs -> Nat]
    BY <2>1, <2>2
  <2> QED
    BY <2>1, <2>3, RowsStay
<1>11. CASE Checkpoint(r)
  <2>1. run[r] # NoRun /\ run[r].at = "checkpoint"
    BY <1>11 DEF Checkpoint, At
  <2>2. PICK copy \in JobCopies : copy = run[r].copy
    BY <1>7, <2>1 DEF Beginning
  <2>3. /\ CopySound(run[r]) /\ copy.step = Persist /\ HasReceipt(run[r].job)
    BY <1>7, <2>1, <2>2 DEF Beginning, PlaceSound, InStep
  <2>4. PICK passed : passed = [copy EXCEPT !.ckpt = copy.step, !.count = 0]
    OBVIOUS
  <2>5. /\ passed \in JobCopies /\ passed.step = Persist /\ passed.ckpt = Persist
    BY <2>3, <2>4 DEF JobCopies, Persist
  <2>6. ChunkTried(run[r].job)
    BY <2>2, <2>3 DEF CopySound
  <2>7. Update(r, passed, [run[r] EXCEPT !.at = "step", !.next = @ + 1, !.copy = passed])
    BY <1>11, <2>2, <2>4 DEF Checkpoint
  <2> QED
    BY <2>1, <2>3, <2>5, <2>6, <2>7, UpdateRows
<1>12. CASE Complete(r)
  <2>1. run[r] # NoRun /\ run[r].at = "step" /\ run[r].next \notin Steps
    BY <1>12 DEF Complete, At
  <2>2. PICK copy \in JobCopies : copy = run[r].copy
    BY <1>7, <2>1 DEF Beginning
  <2>3. CopySound(run[r]) /\ HasReceipt(run[r].job)
    BY <1>1, <1>7, <2>1, RunFields DEF Beginning, PlaceSound, Steps
  <2>4. PICK final : final = [copy EXCEPT !.status = "completed", !.step = NoStep, !.count = 0]
    OBVIOUS
  <2>5. final \in JobCopies /\ final.step = NoStep /\ final.ckpt = copy.ckpt
    <3>1. final.step = NoStep /\ final.ckpt = copy.ckpt
      BY <2>4 DEF JobCopies
    <3>2. NoStep \in 0..4 /\ 0 \in Nat /\ "completed" \in Lease!Statuses
      BY DEF NoStep, Lease!Statuses
    <3>3. final \in JobCopies
      BY <2>4, <3>2 DEF JobCopies
    <3> QED
      BY <3>1, <3>3
  <2>6. final.ckpt \in {NoStep, Persist} /\ final.step \notin {Embed, Persist}
    BY <2>2, <2>3, <2>5 DEF CopySound, NoStep, Embed, Persist
  <2>7. Update(r, final, NoRun)
    BY <1>12, <2>2, <2>4 DEF Complete
  <2> QED
    BY <2>1, <2>3, <2>5, <2>6, <2>7, UpdateRows
<1>13. CASE Fail(r)
  <2>1. run[r] # NoRun /\ run[r].at = "fail"
    BY <1>13 DEF Fail, At
  <2>2. PICK copy \in JobCopies : copy = run[r].copy
    BY <1>7, <2>1 DEF Beginning
  <2>3. CopySound(run[r])
    BY <1>7, <2>1 DEF Beginning
  <2>4. PICK final : final = [copy EXCEPT !.status = "failed"]
    OBVIOUS
  <2>5. /\ final \in JobCopies /\ final.status = "failed"
        /\ final.step = copy.step /\ final.ckpt = copy.ckpt
    BY <2>4 DEF JobCopies, Lease!Statuses
  <2>6. Update(r, final, NoRun)
    BY <1>13, <2>2, <2>4 DEF Fail
  <2> QED
    BY <2>1, <2>2, <2>3, <2>5, <2>6, UpdateRows DEF CopySound
<1> QED
  BY <1>5, <1>6, <1>8, <1>9, <1>10, <1>11, <1>12, <1>13 DEF RunnerStep

\* Claims, heartbeats and the maintenance leave every row sound: a recovery
\* completes only a job that has its receipt.
LEMMA QueueRows ==
  ASSUME PipelineInv, Growth, NEW j \in Jobs,
         \/ \E e \in Executors : Poll(e, j) \/ Heartbeat(e, j)
         \/ \E r \in ApiRunners : Request(r, j)
         \/ LeaseAges(j) \/ CompleteCommitted(j) \/ ResetQueued(j) \/ ClearOwnership(j)
  PROVE  RowsMove
<1>1. status \in [Jobs -> Lease!Statuses] /\ count \in [Jobs -> Nat]
  BY DEF PipelineInv, WeakTypeOK, Lease!TypeOK
<1>2. ASSUME NEW e \in Executors, Poll(e, j)
      PROVE  RowsMove
  <2>1. UNCHANGED <<step, ckpt>> /\ status' = [status EXCEPT ![j] = "running"]
    BY <1>2 DEF Poll, Lease!Claim
  <2>2. count' \in [Jobs -> Nat]
    BY <1>1, <1>2 DEF Poll
  <2> QED
    BY <1>1, <2>1, <2>2, RowsStay
<1>3. ASSUME UNCHANGED <<step, ckpt, count>>,
             status' = status \/ status' = [status EXCEPT ![j] = "queued"]
      PROVE  RowsMove
  BY <1>1, <1>3, RowsStay
<1>4. ASSUME NEW e \in Executors, Heartbeat(e, j) PROVE RowsMove
  BY <1>3, <1>4 DEF Heartbeat, Lease!Renew, progressVars
<1>5. ASSUME NEW r \in ApiRunners, Request(r, j) PROVE RowsMove
  BY <1>3, <1>5 DEF Request, leaseVars, progressVars
<1>6. CASE LeaseAges(j) \/ ResetQueued(j) \/ ClearOwnership(j)
  BY <1>3, <1>6 DEF LeaseAges, Lease!LeaseAges, ResetQueued, Lease!ResetQueued,
                    ClearOwnership, Lease!ClearOwnership, progressVars
<1>7. CASE CompleteCommitted(j)
  <2>1. HasReceipt(j)
    BY <1>7 DEF CompleteCommitted, ExactlyCommitted, HasReceipt
  <2>2. /\ step' = [step EXCEPT ![j] = NoStep]
        /\ count' = [count EXCEPT ![j] = 0]
        /\ ckpt' = [ckpt EXCEPT ![j] = Persist]
        /\ status' = [status EXCEPT ![j] = "completed"]
    BY <1>7 DEF CompleteCommitted, Progress, Lease!CompleteCommitted
  <2>3. step \in [Jobs -> 0..4] /\ ckpt \in [Jobs -> 0..4]
    BY DEF PipelineInv, WeakTypeOK
  <2>4. /\ step' \in [Jobs -> 0..4] /\ count' \in [Jobs -> Nat] /\ ckpt' \in [Jobs -> 0..4]
    BY <1>1, <2>2, <2>3 DEF NoStep, Persist
  <2>5. ASSUME NEW i \in Jobs PROVE RowSound(i)'
    <3>1. CASE i = j
      BY <2>1, <2>2, <2>3, <3>1 DEF RowSound, Growth, NoStep, Embed, Persist
    <3>2. CASE i # j
      <4>1. step'[i] = step[i] /\ ckpt'[i] = ckpt[i] /\ status'[i] = status[i]
        BY <1>1, <2>2, <2>3, <3>2
      <4> QED
        BY <4>1 DEF PipelineInv, RowSound, Growth
    <3> QED
      BY <3>1, <3>2
  <2> QED
    BY <2>4, <2>5 DEF RowsMove
<1> QED
  BY <1>2, <1>4, <1>5, <1>6, <1>7

-----------------------------------------------------------------------------
(* The invariant is inductive                                              *)

\* A fresh database: no job has a step, no runner executes.
LEMMA PipelineInit == Init => PipelineInv
<1> SUFFICES ASSUME Init PROVE PipelineInv
  OBVIOUS
<1>1. Lease!TypeOK
  <2>1. LeaseP!Init
    BY DEF Init, Lease!Init, LeaseP!Init
  <2>2. LeaseP!TypeOK
    BY <2>1, SameAssumptions, LeaseP!TypeInit
  <2> QED
    BY <2>2, SameLeaseTypes
<1>2. Knowledge!TypeOK
  <2>1. KnowledgeP!Init
    BY DEF Init, Knowledge!Init, KnowledgeP!Init
  <2>2. KnowledgeP!TypeOK
    BY <2>1, SameAssumptions, KnowledgeP!TypeInit
  <2> QED
    BY <2>2, SameKnowledgeTypes
<1>3. WeakTypeOK
  BY <1>1, <1>2, PipelineAssumption DEF Init, WeakTypeOK, NoStep, AttemptStates
<1>4. \A j \in Jobs : RowSound(j)
  BY DEF Init, Lease!Init, RowSound, NoStep, Embed, Persist
<1>5. \A r \in Runners : run[r] = NoRun /\ prepared[r] = NoPlan
  BY DEF Init, Knowledge!Init
<1> QED
  BY <1>3, <1>4, <1>5 DEF PipelineInv, RunSound, PlanSound

\* A runner that does not move stays sound: receipts and attempts stay.
LEMMA RunnerStays ==
  ASSUME PipelineInv, Growth, NEW q \in Runners, run'[q] = run[q], prepared'[q] = prepared[q]
  PROVE  RunSound(q)' /\ PlanSound(q)'
<1>1. CASE run[q] = NoRun
  BY <1>1 DEF PipelineInv, RunSound, PlanSound
<1>2. CASE run[q] # NoRun
  <2>1. PICK x \in Runs, j \in Jobs : x = run[q] /\ j = x.job
    BY <1>2, RunnerFacts
  <2>2. ~Beginning(x) => CopySound(x)'
    BY <1>2, <2>1, RunnerFacts DEF CopySound, Growth
  <2>3. ~Beginning(x) => PlaceSound(x)'
    BY <1>2, <2>1, RunnerFacts DEF PlaceSound, InStep, Growth
  <2>4. ~Beginning(x) /\ x.at # "fail" => OutputsSound(x)'
    BY <1>2, <2>1, RunnerFacts DEF OutputsSound, Growth
  <2>5. PlanPlace(x) => PlanPlace(x)'
    BY <2>1 DEF PlanPlace, Growth
  <2>6. RunSound(q)'
    BY <2>1, <2>2, <2>3, <2>4 DEF RunSound, Beginning
  <2>7. PlanSound(q)'
    BY <1>2, <2>1, <2>5 DEF PipelineInv, PlanSound, Beginning
  <2> QED
    BY <2>6, <2>7
<1> QED
  BY <1>1, <1>2

\* Every step of the pipeline keeps the invariant.
LEMMA PipelineStep == PipelineInv /\ [Next]_vars => PipelineInv'
<1> SUFFICES ASSUME PipelineInv, [Next]_vars PROVE PipelineInv'
  OBVIOUS
<1>1. Growth
  BY GrowthStep
<1>2. Lease!TypeOK' /\ Knowledge!TypeOK'
  BY RowsTyped, KnowledgeStep, KnowledgeTyped DEF PipelineInv, WeakTypeOK
<1>3. attempts' \in [Jobs -> [Steps -> [1..MaxNumber -> AttemptStates]]]
  BY AttemptsStep DEF PipelineInv, AttemptsKept
<1>4. ASSUME NEW r \in Runners, RunnerMoves(r), RowsMove, aborts' \in 0..MaxAborts
      PROVE  PipelineInv'
  <2>1. \A q \in Runners : RunSound(q)' /\ PlanSound(q)'
    BY <1>1, <1>4, RunnerStays DEF RunnerMoves, OnlyRunner
  <2>2. WeakTypeOK'
    BY <1>2, <1>3, <1>4 DEF WeakTypeOK, RunnerMoves, RowsMove
  <2> QED
    BY <1>4, <2>1, <2>2 DEF PipelineInv, RowsMove
<1>5. ASSUME UNCHANGED <<run, prepared, aborts>>, RowsMove
      PROVE  PipelineInv'
  <2>1. \A q \in Runners : RunSound(q)' /\ PlanSound(q)'
    BY <1>1, <1>5, RunnerStays
  <2>2. WeakTypeOK'
    BY <1>2, <1>3, <1>5 DEF PipelineInv, WeakTypeOK, RowsMove
  <2> QED
    BY <1>5, <2>1, <2>2 DEF PipelineInv, RowsMove
<1>6. aborts \in 0..MaxAborts /\ MaxAborts \in Nat
  BY PipelineAssumption DEF PipelineInv, WeakTypeOK
<1>7. ASSUME NEW r \in Runners, RunnerStep(r) \/ Abort(r)
      PROVE  PipelineInv'
  <2>1. aborts' \in 0..MaxAborts
    <3>1. CASE Abort(r)
      BY <1>6, <3>1 DEF Abort
    <3>2. CASE RunnerStep(r)
      <4>1. aborts' = aborts
        BY <3>2, Zenon DEF RunnerStep, Interrupt, Load, Start, Reconstruct, BeginStep,
           StartAttempt, Execute, RecordAttempt, RecordRetry, Checkpoint, Complete, Fail
      <4> QED
        BY <1>6, <4>1
    <3> QED
      BY <1>7, <3>1, <3>2
  <2> QED
    BY <1>1, <1>4, <1>7, <2>1, RunnerStepMoves, RunnerRows
<1>8. ASSUME NEW e \in Executors, NEW j \in Jobs, Poll(e, j)
      PROVE  PipelineInv'
  <2>1. e \in Runners /\ run[e] = NoRun /\ prepared' = prepared /\ aborts' = aborts
    BY <1>8 DEF Poll, Runners, knowledgeVars
  <2>2. PICK point \in {"interrupt", "load"} : run' = [run EXCEPT ![e] = Began(j, point)]
    BY <1>8 DEF Poll
  <2> QED
    BY <1>1, <1>4, <1>6, <1>8, <2>1, <2>2, BeginMoves, QueueRows
<1>9. ASSUME NEW r \in ApiRunners, NEW j \in Jobs, Request(r, j)
      PROVE  PipelineInv'
  <2>1. /\ r \in Runners /\ run[r] = NoRun /\ prepared' = prepared /\ aborts' = aborts
        /\ run' = [run EXCEPT ![r] = Began(j, "load")]
    BY <1>9 DEF Request, Runners, knowledgeVars
  <2> QED
    BY <1>1, <1>4, <1>6, <1>9, <2>1, BeginMoves, QueueRows
<1>10. ASSUME NEW j \in Jobs,
              \/ \E e \in Executors : Heartbeat(e, j)
              \/ LeaseAges(j) \/ CompleteCommitted(j) \/ ResetQueued(j) \/ ClearOwnership(j)
       PROVE  PipelineInv'
  <2>1. UNCHANGED <<run, prepared, aborts>>
    BY <1>10 DEF Heartbeat, LeaseAges, CompleteCommitted, ResetQueued, ClearOwnership,
                 knowledgeVars
  <2> QED
    BY <1>1, <1>5, <1>10, <2>1, QueueRows
<1>11. CASE UNCHANGED vars
  <2>1. UNCHANGED <<run, prepared, aborts, status, step, count, ckpt>>
    BY <1>11 DEF vars
  <2>2. RowsMove
    BY <1>1, <2>1, RowsStay DEF PipelineInv, WeakTypeOK
  <2> QED
    BY <1>5, <2>1, <2>2
<1> QED
  BY <1>7, <1>8, <1>9, <1>10, <1>11 DEF Next

\* What rows, runners and preparations hold, with or without a fence.
THEOREM PipelineInvariant == Spec => []PipelineInv
  BY PipelineInit, PipelineStep, PTL DEF Spec

-----------------------------------------------------------------------------
(* What holds of the pipeline whoever runs it                              *)

\* A job that is completed, or past its PERSIST checkpoint, has committed its
\* knowledge, whether a worker, a request, a recovery or the maintenance set it.
THEOREM CompletedHasReceipt == Spec => []CompletedIsCommitted
<1>1. PipelineInv => CompletedIsCommitted
  BY DEF PipelineInv, RowSound, HasReceipt, CompletedIsCommitted
<1> QED
  BY <1>1, PipelineInvariant, PTL

\* A recorded attempt keeps its result.
THEOREM ResultsAreFinal == Spec => AttemptResultsAreFinal
<1>1. PipelineInv /\ [Next]_vars =>
        [\A j \in Jobs, s \in Steps, n \in 1..MaxNumber :
            attempts[j][s][n] \notin {"none", "running"}
               => attempts'[j][s][n] = attempts[j][s][n]]_vars
  BY AttemptsStep DEF PipelineInv, AttemptsKept
<1> QED
  BY <1>1, PipelineInvariant, PTL DEF Spec, AttemptResultsAreFinal

\* Whatever the pipeline does, its documents, chunks and receipts change as
\* KnowledgePersistence says: no runner prepares over a preparation it holds.
THEOREM KnowledgeRefined == Spec => KnowledgeSpec
<1>1. Init => Knowledge!Init
  BY DEF Init
<1>2. PipelineInv /\ [Next]_vars => [Knowledge!Next]_Knowledge!knowledgeVars
  BY KnowledgeStep DEF knowledgeVars, Knowledge!knowledgeVars
<1> QED
  BY <1>1, <1>2, PipelineInvariant, PTL DEF Spec, KnowledgeSpec, Knowledge!Spec

\* Hence a page that a pipeline writes shows one generation of chunks.
THEOREM PipelineGeneration == Spec => []Knowledge!OneChunkSet
<1>1. Knowledge!Init => KnowledgeP!Init
  BY DEF Knowledge!Init, KnowledgeP!Init
<1>2. [Knowledge!Next]_Knowledge!knowledgeVars => [KnowledgeP!Next]_KnowledgeP!knowledgeVars
  BY SameKnowledgeStep DEF knowledgeVars, Knowledge!knowledgeVars
<1>3. KnowledgeSpec => KnowledgeP!Spec
  BY <1>1, <1>2, PTL DEF KnowledgeSpec, Knowledge!Spec, KnowledgeP!Spec
<1>4. KnowledgeP!Spec => []KnowledgeP!OneChunkSet
  BY SameAssumptions, KnowledgeP!OneGeneration
<1>5. KnowledgeP!OneChunkSet => Knowledge!OneChunkSet
  BY SameKnowledgeTypes DEF Knowledge!OneChunkSet, KnowledgeP!OneChunkSet
<1> QED
  BY <1>3, <1>4, <1>5, KnowledgeRefined, PTL

-----------------------------------------------------------------------------
(* What a worker does to its row                                           *)

\* A worker's execution that has lost its claim leaves the row alone.
LEMMA LostWritesNothing ==
  ASSUME NEW r \in Executors, RunnerStep(r) \/ Abort(r), ~Lease!Fenced(r, run[r].job)
  PROVE  UNCHANGED <<status, step, count, ckpt>>
<1>0. r \in Runners
  BY DEF Runners
<1>1. ASSUME Abandon(r) PROVE UNCHANGED <<status, step, count, ckpt>>
  BY <1>0, <1>1, AbandonEffect
<1>2. ASSUME NEW copy, NEW x, Update(r, copy, x) PROVE Abandon(r)
  BY <1>2 DEF Update, FencedUpdate
<1>3. ASSUME NEW x, Advance(r, x) PROVE UNCHANGED <<status, step, count, ckpt>>
  BY <1>3 DEF Advance, leaseVars, progressVars
<1>4. CASE Interrupt(r) \/ Reconstruct(r) \/ Execute(r)
  BY <1>3, <1>4
     DEF Interrupt, Reconstruct, Execute, ExecuteParse, ExecuteChunk, ExecuteEmbed, ExecutePersist
<1>5. CASE Load(r) \/ StartAttempt(r) \/ RecordAttempt(r) \/ RecordRetry(r) \/ Abort(r)
  BY <1>1, <1>3, <1>5 DEF Load, StartAttempt, RecordAttempt, RecordRetry, Abort
<1>6. CASE Start(r) \/ BeginStep(r) \/ Checkpoint(r) \/ Complete(r) \/ Fail(r)
  BY <1>1, <1>2, <1>3, <1>6 DEF Start, BeginStep, Checkpoint, Complete, Fail
<1> QED
  BY <1>4, <1>5, <1>6 DEF RunnerStep

\* Steps other than its own do not move a runner.
LEMMA OnlyItsStepsMove ==
  ASSUME PipelineInv, Next, NEW e \in Executors, run[e] # NoRun, run'[e] # run[e]
  PROVE  RunnerStep(e) \/ Abort(e)
<1>1. run \in [Runners -> Runs \union {NoRun}] /\ e \in Runners
  BY DEF PipelineInv, WeakTypeOK, Runners
<1>2. ASSUME NEW r \in Runners, RunnerStep(r) \/ Abort(r)
      PROVE  r = e
  BY <1>1, <1>2, GrowthStep, RunnerStepMoves DEF RunnerMoves, OnlyRunner
<1>3. ASSUME NEW f \in Executors, NEW j \in Jobs, Poll(f, j) \/ Heartbeat(f, j)
      PROVE  FALSE
  BY <1>1, <1>3 DEF Poll, Heartbeat
<1>4. ASSUME NEW r \in ApiRunners, NEW j \in Jobs, Request(r, j)
      PROVE  FALSE
  BY <1>1, <1>4 DEF Request
<1>5. ASSUME NEW j \in Jobs,
             LeaseAges(j) \/ CompleteCommitted(j) \/ ResetQueued(j) \/ ClearOwnership(j)
      PROVE  FALSE
  BY <1>5 DEF LeaseAges, CompleteCommitted, ResetQueued, ClearOwnership
<1> QED
  BY <1>2, <1>3, <1>4, <1>5 DEF Next

\* An execution that has lost its job no longer changes the job's row.
THEOREM SupersededIsHarmless == Spec => SupersededNeverWrites
<1>1. PipelineInv /\ [Next]_vars =>
        [\A e \in Executors, j \in Jobs :
            /\ run[e] # NoRun
            /\ run[e].job = j
            /\ run'[e] # run[e]
            /\ ~Lease!Fenced(e, j)
            => Row(j)' = Row(j)]_vars
  <2> SUFFICES ASSUME PipelineInv, Next, NEW e \in Executors, NEW j \in Jobs,
                      run[e] # NoRun, run[e].job = j, run'[e] # run[e],
                      ~Lease!Fenced(e, j)
               PROVE  Row(j)' = Row(j)
    OBVIOUS
  <2>1. UNCHANGED <<status, step, count, ckpt>>
    BY OnlyItsStepsMove, LostWritesNothing
  <2> QED
    BY <2>1 DEF Row
<1> QED
  BY <1>1, PipelineInvariant, PTL DEF Spec, SupersededNeverWrites

-----------------------------------------------------------------------------
(* Without request threads: the queue, and the copies of its workers       *)

\* With workers alone every step is a step of the queue.
LEMMA FencedLeaseStep ==
  ASSUME ApiRunners = {}
  PROVE  PipelineInv /\ [Next]_vars => [Lease!Next]_leaseVars
  BY LeaseStep DEF PlainStatus

\* Where nobody runs a job without a claim, the pipeline treats the rows as the
\* queue's protocol says.
THEOREM LeaseRefined ==
  ASSUME ApiRunners = {}
  PROVE  Spec => LeaseSpec
<1>1. Init => Lease!Init
  BY DEF Init
<1>2. PipelineInv /\ [Next]_vars => [Lease!Next]_Lease!leaseVars
  BY FencedLeaseStep DEF leaseVars, Lease!leaseVars
<1> QED
  BY <1>1, <1>2, PipelineInvariant, PTL DEF Spec, LeaseSpec, Lease!Spec

\* What the copy x says is what the row j says; a step that needs no checkpoint
\* has reset the count in memory.
MatchesRow(x, j) ==
    /\ x.copy.step = step[j]
    /\ x.copy.ckpt = ckpt[j]
    /\ x.copy.count = count[j] \/ (x.at = "step" /\ x.copy.count = 0)

\* Current also while the lease has expired and nobody has taken the job over:
\* a late heartbeat may make the execution effective again.
CopyCurrent(e) ==
    run[e] # NoRun /\ ~Beginning(run[e]) /\ Lease!Holds(e, run[e].job) =>
        MatchesRow(run[e], run[e].job)

ClaimKept(e) ==
    run[e] # NoRun => claim[e] # NoClaim /\ claim[e].job = run[e].job

RowCountBounded(j) ==
    version[j] <= MaxVersion /\ count[j] <= MaxAttempts + version[j]

CopyCountBounded(e) ==
    run[e] # NoRun =>
        /\ run[e].copy.count <= MaxAttempts + MaxVersion
        /\ run[e].at = "retry" => run[e].copy.count < MaxAttempts

OwnerInv ==
    /\ Lease!IInv
    /\ \A j \in Jobs : RowCountBounded(j)
    /\ \A e \in Executors : ClaimKept(e) /\ CopyCurrent(e) /\ CopyCountBounded(e)

-----------------------------------------------------------------------------
(* A worker's copy after its own step                                      *)

\* The runner r has ended, or stands where its copy says what its row says, if it
\* held the row before.
CopyMoves(r) ==
    \/ run'[r] = NoRun
    \/ /\ run'[r].job = run[r].job
       /\ UNCHANGED leaseVars
       /\ CopyCountBounded(r)'
       /\ \/ Beginning(run'[r])
          \/ ~Lease!Holds(r, run[r].job)
          \/ MatchesRow(run[r], run[r].job)'

\* A worker that ends.
LEMMA CopyEnds ==
  ASSUME WeakTypeOK, NEW r \in Runners, run' = [run EXCEPT ![r] = NoRun]
  PROVE  CopyMoves(r)
  BY DEF WeakTypeOK, CopyMoves

\* A worker that goes on at x.
LEMMA CopyGoesOn ==
  ASSUME WeakTypeOK, NEW r \in Runners, NEW x, run' = [run EXCEPT ![r] = x],
         UNCHANGED leaseVars, NEW j, j = run[r].job, x.job = j,
         x.copy.count <= MaxAttempts + MaxVersion,
         x.at = "retry" => x.copy.count < MaxAttempts,
         Beginning(x) \/ ~Lease!Holds(r, j) \/ MatchesRow(x, j)'
  PROVE  CopyMoves(r)
<1>1. run'[r] = x
  BY DEF WeakTypeOK
<1>2. MatchesRow(x, j)' => MatchesRow(run[r], run[r].job)'
  BY <1>1 DEF MatchesRow
<1>3. CopyCountBounded(r)'
  BY <1>1 DEF CopyCountBounded
<1> QED
  BY <1>1, <1>2, <1>3 DEF CopyMoves

\* A worker that moves on without a write and keeps its copy.
LEMMA CopyKept ==
  ASSUME PipelineInv, NEW r \in Runners, run[r] # NoRun, ~Beginning(run[r]),
         CopyCurrent(r), CopyCountBounded(r),
         NEW x, Advance(r, x), x.job = run[r].job, x.copy = run[r].copy,
         x.at = "retry" => x.copy.count < MaxAttempts,
         run[r].at = "step" => x.copy.count > 0
  PROVE  CopyMoves(r)
<1>1. WeakTypeOK /\ run[r].copy.count \in Nat
  BY RunFields DEF PipelineInv
<1>0. PICK j : j = run[r].job
  OBVIOUS
<1>2. run' = [run EXCEPT ![r] = x] /\ UNCHANGED leaseVars /\ UNCHANGED <<step, count, ckpt>>
  BY DEF Advance, progressVars
<1>3. Lease!Holds(r, j) => MatchesRow(x, j)'
  BY <1>0, <1>1, <1>2 DEF CopyCurrent, MatchesRow
<1> QED
  BY <1>0, <1>1, <1>2, <1>3, CopyGoesOn DEF CopyCountBounded

\* A worker whose fenced UPDATE writes the copy it goes on with.
LEMMA CopyWritten ==
  ASSUME PipelineInv, NEW r \in Executors, run[r] # NoRun,
         NEW copy, copy.count <= MaxAttempts + MaxVersion,
         NEW x, x.job = run[r].job, x.copy = copy, x.at # "retry",
         Update(r, copy, x)
  PROVE  CopyMoves(r)
<1>1. WeakTypeOK /\ r \in Runners
  BY DEF PipelineInv, Runners
<1>0. PICK j \in Jobs : j = run[r].job
  BY <1>1, RunFields
<1>2. CASE run' = [run EXCEPT ![r] = NoRun]
  BY <1>1, <1>2, CopyEnds
<1>3. CASE run' # [run EXCEPT ![r] = NoRun]
  <2>1. /\ run' = [run EXCEPT ![r] = x] /\ UNCHANGED leaseVars
        /\ Progress(j, copy)
    BY <1>0, <1>3 DEF Update, FencedUpdate, Abandon
  <2>2. step'[j] = copy.step /\ count'[j] = copy.count /\ ckpt'[j] = copy.ckpt
    BY <1>1, <2>1 DEF WeakTypeOK, Progress
  <2>3. MatchesRow(x, j)'
    BY <2>2 DEF MatchesRow
  <2> QED
    BY <1>0, <1>1, <2>1, <2>3, CopyGoesOn
<1> QED
  BY <1>2, <1>3

\* Each step of a worker leaves it with the row in memory.
LEMMA WorkerCopy ==
  ASSUME PipelineInv, NEW r \in Executors, RunnerStep(r) \/ Abort(r), run[r] # NoRun,
         CopyCurrent(r), CopyCountBounded(r), RowCountBounded(run[r].job)
  PROVE  CopyMoves(r)
<1>1. WeakTypeOK /\ r \in Runners
  BY DEF PipelineInv, Runners
<1>2. PICK j \in Jobs, copy \in JobCopies : j = run[r].job /\ copy = run[r].copy
  BY <1>1, RunFields
<1>3. /\ run[r] \in Runs
      /\ copy.step \in 0..4 /\ copy.count \in Nat
      /\ step[j] \in 0..4 /\ count[j] \in Nat /\ version[j] \in Nat
      /\ MaxAttempts \in Nat \ {0} /\ MaxVersion \in Nat
  BY <1>1, RunFields, PipelineAssumption, ComposedAssumption
     DEF WeakTypeOK, Lease!TypeOK, JobCopies, Lease!LeaseAssumption
<1>4. /\ copy.count <= MaxAttempts + MaxVersion
      /\ count[j] <= MaxAttempts + MaxVersion
      /\ run[r].at = "retry" => copy.count < MaxAttempts
  BY <1>2, <1>3 DEF CopyCountBounded, RowCountBounded
<1>5. ASSUME Abandon(r) PROVE CopyMoves(r)
  BY <1>1, <1>5, AbandonEffect, CopyEnds
<1>6. ASSUME Interrupt(r) PROVE CopyMoves(r)
  <2>1. PICK x : x = [run[r] EXCEPT !.at = "load"]
    OBVIOUS
  <2>2. x.job = j /\ x.copy = copy /\ x.at = "load"
    BY <1>2, <1>3, <2>1 DEF Runs
  <2>3. run' = [run EXCEPT ![r] = x] /\ UNCHANGED leaseVars
    BY <1>6, <2>1 DEF Interrupt, Advance
  <2> QED
    BY <1>1, <1>2, <1>4, <2>2, <2>3, CopyGoesOn DEF Beginning
<1>7. ASSUME Load(r), ~Abandon(r) PROVE CopyMoves(r)
  <2>0. PICK point \in {"start", "context"} :
           point = IF Row(j).status = "queued" THEN "start" ELSE "context"
    OBVIOUS
  <2>1. PICK y : y = [run[r] EXCEPT !.at = point,
                        !.copy = [Row(j) EXCEPT !.status = "running"],
                        !.next = Row(j).ckpt + 1]
    OBVIOUS
  <2>6. Advance(r, y)
    BY <1>2, <1>7, <2>0, <2>1 DEF Load
  <2>2. /\ y.job = j /\ y.copy = [Row(j) EXCEPT !.status = "running"]
        /\ y.at \in {"start", "context"}
    BY <1>2, <1>3, <2>0, <2>1 DEF Runs
  <2>3. y.copy.step = step[j] /\ y.copy.count = count[j] /\ y.copy.ckpt = ckpt[j]
    BY <2>2 DEF Row
  <2>4. run' = [run EXCEPT ![r] = y] /\ UNCHANGED leaseVars /\ UNCHANGED <<step, count, ckpt>>
    BY <2>6 DEF Advance, progressVars
  <2>5. MatchesRow(y, j)'
    BY <2>3, <2>4 DEF MatchesRow
  <2> QED
    BY <1>1, <1>2, <1>4, <2>2, <2>3, <2>4, <2>5, CopyGoesOn
<1>8. ASSUME Start(r) PROVE CopyMoves(r)
  <2>1. PICK x : x = [run[r] EXCEPT !.at = "context"]
    OBVIOUS
  <2>2. x.job = j /\ x.copy = copy /\ x.at = "context" /\ Update(r, copy, x)
    BY <1>2, <1>3, <1>8, <2>1 DEF Start, Runs
  <2> QED
    BY <1>2, <1>4, <2>2, CopyWritten
<1>9. ASSUME Reconstruct(r) PROVE CopyMoves(r)
  <2>1. run[r].at = "context" /\ ~Beginning(run[r])
    BY <1>9 DEF Reconstruct, At, Beginning
  <2>2. PICK x : x.job = j /\ x.copy = copy /\ x.at \in {"step", "fail"} /\ Advance(r, x)
    <3>1. CASE Advance(r, [run[r] EXCEPT !.at = "step"])
      BY <1>2, <1>3, <3>1 DEF Runs
    <3>2. CASE Advance(r, [run[r] EXCEPT !.at = "fail"])
      BY <1>2, <1>3, <3>2 DEF Runs
    <3>3. ASSUME NEW found, NEW chunked,
                 Advance(r, [[run[r] EXCEPT !.at = "step"] EXCEPT
                               !.parsed = found, !.chunked = chunked])
          PROVE  \E x : x.job = j /\ x.copy = copy /\ x.at \in {"step", "fail"} /\ Advance(r, x)
      BY <1>2, <1>3, <3>3 DEF Runs
    <3> QED
      BY <1>9, <3>1, <3>2, <3>3 DEF Reconstruct
  <2> QED
    BY <1>2, <2>1, <2>2, <1>1, CopyKept
<1>10. ASSUME BeginStep(r) PROVE CopyMoves(r)
  <2>1. run[r].at = "step" /\ ~Beginning(run[r])
    BY <1>10 DEF BeginStep, At, Beginning
  <2>2. CASE copy.step = run[r].next /\ copy.count > 0
    <3>1. PICK x : x = [run[r] EXCEPT !.at = "attempt"]
      OBVIOUS
    <3>2. x.job = j /\ x.copy = copy /\ x.at = "attempt" /\ Advance(r, x)
      BY <1>2, <1>3, <1>10, <2>2, <3>1 DEF BeginStep, Runs
    <3> QED
      BY <1>1, <1>2, <2>1, <2>2, <3>2, CopyKept
  <2>3. CASE ~(copy.step = run[r].next /\ copy.count > 0)
    <3>1. PICK first : first = [copy EXCEPT !.step = run[r].next, !.count = 1]
      OBVIOUS
    <3>2. first.count = 1
      BY <3>1 DEF JobCopies
    <3>3. PICK x : x = [run[r] EXCEPT !.at = "attempt", !.copy = first]
      OBVIOUS
    <3>4. x.job = j /\ x.copy = first /\ x.at = "attempt" /\ Update(r, first, x)
      BY <1>2, <1>3, <1>10, <2>3, <3>1, <3>3 DEF BeginStep, Runs
    <3>5. first.count <= MaxAttempts + MaxVersion
      BY <1>3, <3>2
    <3> QED
      BY <1>2, <3>4, <3>5, CopyWritten
  <2> QED
    BY <2>2, <2>3
<1>11. ASSUME StartAttempt(r), ~Abandon(r) PROVE CopyMoves(r)
  <2>1. PICK x : x = [run[r] EXCEPT !.at = "execute"]
    OBVIOUS
  <2>2. /\ x.job = j /\ x.copy = copy /\ x.at = "execute" /\ Advance(r, x)
        /\ run[r].at = "attempt"
    BY <1>2, <1>3, <1>11, <2>1 DEF StartAttempt, At, Runs
  <2> QED
    BY <1>1, <1>2, <2>2, CopyKept DEF Beginning
<1>12. ASSUME Execute(r) PROVE CopyMoves(r)
  <2>1. run[r].at = "execute"
    BY <1>12 DEF Execute, At
  <2>2. ASSUME NEW x, Advance(r, x), x.job = j, x.copy = copy, x.at = "record"
        PROVE  CopyMoves(r)
    BY <1>1, <1>2, <2>1, <2>2, CopyKept DEF Beginning
  <2>3. ASSUME NEW outcome
        PROVE  /\ Result(r, outcome).job = j
               /\ Result(r, outcome).copy = copy
               /\ Result(r, outcome).at = "record"
    BY <1>2, <1>3 DEF Result, Runs
  <2>4. ASSUME NEW outcome, Advance(r, Result(r, outcome))
        PROVE  CopyMoves(r)
    BY <2>2, <2>3, <2>4
  <2>5. ASSUME NEW found,
               \/ Advance(r, [Result(r, "success") EXCEPT !.parsed = found])
               \/ Advance(r, [Result(r, "success") EXCEPT !.chunked = found])
        PROVE  CopyMoves(r)
    <3>1. PICK x : /\ Advance(r, x)
                   /\ \/ x = [Result(r, "success") EXCEPT !.parsed = found]
                      \/ x = [Result(r, "success") EXCEPT !.chunked = found]
      BY <2>5
    <3>2. x.job = j /\ x.copy = copy /\ x.at = "record"
      BY <1>2, <1>3, <3>1 DEF Result, Runs
    <3> QED
      BY <2>2, <3>1, <3>2
  <2> QED
    BY <1>12, <2>4, <2>5 DEF Execute, ExecuteParse, ExecuteChunk, ExecuteEmbed, ExecutePersist
<1>13. ASSUME RecordAttempt(r), ~Abandon(r) PROVE CopyMoves(r)
  <2>1. PICK x : x = AfterAttempt(r)
    OBVIOUS
  <2>2. run[r].at = "record" /\ Advance(r, x)
    BY <1>13, <2>1 DEF RecordAttempt, At
  <2>3. CASE run[r].outcome = "success" /\ copy.step \notin CheckpointSteps
    <3>1. x = [run[r] EXCEPT !.at = "step", !.next = @ + 1, !.copy.count = 0]
      BY <1>2, <2>1, <2>3 DEF AfterAttempt
    <3>2. x.job = j /\ x.at = "step" /\ x.copy = [copy EXCEPT !.count = 0]
      BY <1>2, <1>3, <3>1 DEF Runs
    <3>3. x.copy.step = copy.step /\ x.copy.ckpt = copy.ckpt /\ x.copy.count = 0
      BY <3>2 DEF JobCopies
    <3>4. /\ run' = [run EXCEPT ![r] = x] /\ UNCHANGED leaseVars
          /\ UNCHANGED <<step, count, ckpt>>
      BY <2>2 DEF Advance, progressVars
    <3>5. Lease!Holds(r, j) => MatchesRow(x, j)'
      BY <1>2, <2>2, <3>2, <3>3, <3>4 DEF CopyCurrent, MatchesRow, Beginning
    <3>6. x.copy.count <= MaxAttempts + MaxVersion
      BY <1>3, <3>3
    <3> QED
      BY <1>1, <1>2, <3>2, <3>4, <3>5, <3>6, CopyGoesOn
  <2>4. CASE ~(run[r].outcome = "success" /\ copy.step \notin CheckpointSteps)
    <3>1. PICK point : /\ x = [run[r] EXCEPT !.at = point]
                       /\ point = "retry" => copy.count < MaxAttempts
      BY <1>2, <2>1, <2>4 DEF AfterAttempt, ShouldRetry
    <3>2. x.job = j /\ x.copy = copy /\ x.at = point
      BY <1>2, <1>3, <3>1 DEF Runs
    <3> QED
      BY <1>1, <1>2, <2>2, <3>1, <3>2, CopyKept DEF Beginning
  <2> QED
    BY <2>3, <2>4
<1>14. ASSUME RecordRetry(r), ~Abandon(r) PROVE CopyMoves(r)
  <2>1. PICK x : x = [run[r] EXCEPT !.at = "attempt", !.copy = [Row(j) EXCEPT !.count = @ + 1]]
    OBVIOUS
  <2>2. /\ run[r].at = "retry" /\ Lease!Fenced(r, j) /\ run' = [run EXCEPT ![r] = x]
        /\ count' = [count EXCEPT ![j] = @ + 1]
        /\ UNCHANGED leaseVars /\ UNCHANGED <<step, ckpt>>
    BY <1>2, <1>14, <2>1 DEF RecordRetry, At
  <2>3. x.job = j /\ x.at = "attempt" /\ x.copy = [Row(j) EXCEPT !.count = @ + 1]
    BY <1>2, <1>3, <2>1 DEF Runs
  <2>4. x.copy.step = step[j] /\ x.copy.count = count[j] + 1 /\ x.copy.ckpt = ckpt[j]
    BY <2>3 DEF Row
  <2>5. count[j] = copy.count
    BY <1>2, <2>2 DEF CopyCurrent, MatchesRow, Beginning, Lease!Fenced
  <2>6. count'[j] = count[j] + 1
    BY <1>1, <2>2 DEF WeakTypeOK
  <2>7. MatchesRow(x, j)'
    BY <2>2, <2>4, <2>6 DEF MatchesRow
  <2>8. x.copy.count <= MaxAttempts + MaxVersion
    BY <1>3, <1>4, <2>2, <2>4, <2>5
  <2> QED
    BY <1>1, <1>2, <2>2, <2>3, <2>7, <2>8, CopyGoesOn
<1>15. ASSUME Checkpoint(r) PROVE CopyMoves(r)
  <2>1. PICK written : written = [copy EXCEPT !.ckpt = copy.step, !.count = 0]
    OBVIOUS
  <2>2. written.count = 0
    BY <2>1 DEF JobCopies
  <2>3. PICK x : x = [run[r] EXCEPT !.at = "step", !.next = @ + 1, !.copy = written]
    OBVIOUS
  <2>4. x.job = j /\ x.copy = written /\ x.at = "step" /\ Update(r, written, x)
    BY <1>2, <1>3, <1>15, <2>1, <2>3 DEF Checkpoint, Runs
  <2>5. written.count <= MaxAttempts + MaxVersion
    BY <1>3, <2>2
  <2> QED
    BY <1>2, <2>4, <2>5, CopyWritten
<1>16. ASSUME Complete(r) \/ Fail(r) PROVE CopyMoves(r)
  BY <1>1, <1>5, <1>16, CopyEnds, UpdateEffect DEF Complete, Fail
<1> QED
  BY <1>5, <1>6, <1>7, <1>8, <1>9, <1>10, <1>11, <1>12, <1>13, <1>14, <1>15, <1>16
     DEF RunnerStep, Abort

-----------------------------------------------------------------------------
(* The rows and the other workers                                          *)

\* The queue's invariant is that of IngestionLeaseProofs.
LEMMA SameLeaseInvariant == Lease!IInv <=> LeaseP!IInv
  BY SameLeaseTypes
     DEF Lease!IInv, Lease!LeaseInv, Lease!ClaimsBehindRow, Lease!ClaimsDistinct,
         Lease!CurrentClaimRecorded, Lease!Terminal, LeaseP!IInv, LeaseP!LeaseInv,
         LeaseP!ClaimsBehindRow, LeaseP!ClaimsDistinct, LeaseP!CurrentClaimRecorded,
         LeaseP!Terminal

\* A step of the queue keeps the queue's invariant.
LEMMA LeaseKept == Lease!IInv /\ [Lease!Next]_leaseVars => Lease!IInv'
<1> SUFFICES ASSUME Lease!IInv, [Lease!Next]_leaseVars PROVE Lease!IInv'
  OBVIOUS
<1>1. LeaseP!IInv /\ [LeaseP!Next]_LeaseP!leaseVars
  BY SameLeaseInvariant, SameLeaseStep
<1>2. LeaseP!TypeOK' /\ LeaseP!LeaseInv'
  BY <1>1, SameAssumptions, LeaseP!TypeStep, LeaseP!LeaseInvStep DEF LeaseP!IInv
<1>3. Lease!IInv' <=> LeaseP!IInv'
  BY DEF Lease!TypeOK, Lease!Statuses, Lease!Phases, Lease!Claims,
         LeaseP!TypeOK, LeaseP!Statuses, LeaseP!Phases, LeaseP!Claims,
         Lease!IInv, Lease!LeaseInv, Lease!ClaimsBehindRow, Lease!ClaimsDistinct,
         Lease!CurrentClaimRecorded, Lease!Terminal, LeaseP!IInv, LeaseP!LeaseInv,
         LeaseP!ClaimsBehindRow, LeaseP!ClaimsDistinct, LeaseP!CurrentClaimRecorded,
         LeaseP!Terminal
<1> QED
  BY <1>2, <1>3 DEF LeaseP!IInv

\* Versions only grow.
LEMMA VersionsGrow ==
  ASSUME Lease!TypeOK, [Lease!Next]_leaseVars, NEW j \in Jobs
  PROVE  version'[j] \in Nat /\ version'[j] >= version[j]
  BY DEF Lease!TypeOK, leaseVars, Lease!Next, Lease!Claim, Lease!NextVersion, Lease!Renew,
         Lease!Finish, Lease!Leave, Lease!LeaseAges, Lease!ReleaseRow,
         Lease!CompleteCommitted, Lease!ResetQueued, Lease!ClearOwnership

\* Who holds a job after a step under the claim it had before held it before,
\* and nobody has claimed or repaired the row.
LEMMA HoldsBackward ==
  ASSUME Lease!IInv, [Lease!Next]_leaseVars, NEW e \in Executors, NEW j \in Jobs,
         claim'[e] = claim[e], Lease!Holds(e, j)'
  PROVE  Lease!Holds(e, j) /\ version'[j] = version[j]
<1>1. /\ claim[e] # NoClaim /\ claim[e].job = j
      /\ status'[j] = "running" /\ version'[j] = claim[e].version
  BY DEF Lease!Holds
<1>2. /\ claim[e].version \in Nat /\ version[j] \in Nat
      /\ claim[e].version <= version[j]
  BY <1>1 DEF Lease!IInv, Lease!TypeOK, Lease!Claims, Lease!LeaseInv, Lease!ClaimsBehindRow
<1>3. version'[j] = version[j]
  BY <1>1, <1>2, VersionsGrow DEF Lease!IInv
<1>4. status[j] \notin Lease!Terminal
  <2>1. /\ LeaseP!TypeOK /\ [LeaseP!Next]_LeaseP!leaseVars
        /\ status[j] \in LeaseP!Terminal => status'[j] = status[j]
    BY SameLeaseTypes, SameLeaseStep, SameAssumptions, LeaseP!TerminalStep
       DEF Lease!IInv, LeaseP!leaseVars
  <2> QED
    BY <1>1, <2>1 DEF Lease!Terminal, LeaseP!Terminal
<1> QED
  BY <1>1, <1>3, <1>4 DEF Lease!IInv, Lease!LeaseInv, Lease!CurrentClaimRecorded, Lease!Holds

\* What a worker's own step may do to the rows: nothing, or, under the fence, one
\* write to the row of its job, with a count its copy or the row gives.
RowWritten(r) ==
    \/ UNCHANGED <<step, count, ckpt>>
    \/ /\ Lease!Fenced(r, run[r].job)
       /\ \A j \in Jobs \ {run[r].job} :
             step'[j] = step[j] /\ count'[j] = count[j] /\ ckpt'[j] = ckpt[j]
       /\ \/ count'[run[r].job] <= 1
          \/ ~Beginning(run[r]) /\ run[r].at # "step" /\ count'[run[r].job] = run[r].copy.count
          \/ run[r].at = "retry" /\ count'[run[r].job] = count[run[r].job] + 1

\* A fenced UPDATE writes one row.
LEMMA UpdateWrites ==
  ASSUME WeakTypeOK, NEW r \in Executors, run[r] # NoRun,
         NEW copy, NEW x, Update(r, copy, x),
         \/ copy.count <= 1
         \/ ~Beginning(run[r]) /\ run[r].at # "step" /\ copy.count = run[r].copy.count
  PROVE  RowWritten(r)
<1>1. r \in Runners
  BY DEF Runners
<1>2. PICK j \in Jobs : j = run[r].job
  BY <1>1, RunFields
<1>3. CASE Abandon(r)
  BY <1>1, <1>3, AbandonEffect DEF RowWritten
<1>4. CASE ~Abandon(r)
  <2>1. Lease!Fenced(r, j) /\ Progress(j, copy)
    BY <1>2, <1>4 DEF Update, FencedUpdate
  <2>2. /\ count'[j] = copy.count
        /\ \A i \in Jobs \ {j} : step'[i] = step[i] /\ count'[i] = count[i] /\ ckpt'[i] = ckpt[i]
    BY <2>1 DEF WeakTypeOK, Progress
  <2> QED
    BY <1>2, <2>1, <2>2 DEF RowWritten
<1> QED
  BY <1>3, <1>4

\* Each step of a worker writes its own row at most, and only under the fence.
LEMMA WorkerWrites ==
  ASSUME PipelineInv, NEW r \in Executors, RunnerStep(r) \/ Abort(r), run[r] # NoRun
  PROVE  RowWritten(r)
<1>1. WeakTypeOK /\ r \in Runners
  BY DEF PipelineInv, Runners
<1>2. run[r] \in Runs /\ run[r].job \in Jobs /\ run[r].copy \in JobCopies
  BY <1>1, RunFields
<1>3. ASSUME Abandon(r) PROVE RowWritten(r)
  BY <1>1, <1>3, AbandonEffect DEF RowWritten
<1>4. ASSUME NEW x, Advance(r, x) PROVE RowWritten(r)
  BY <1>4 DEF Advance, progressVars, RowWritten
<1>5. CASE \/ Interrupt(r) \/ Load(r) \/ Reconstruct(r) \/ StartAttempt(r)
           \/ Execute(r) \/ RecordAttempt(r) \/ Abort(r)
  BY <1>3, <1>4, <1>5
     DEF Interrupt, Load, Reconstruct, StartAttempt, RecordAttempt, Abort,
         Execute, ExecuteParse, ExecuteChunk, ExecuteEmbed, ExecutePersist
<1>6. CASE Start(r)
  BY <1>1, <1>6, UpdateWrites DEF Start, At, Beginning
<1>7. CASE BeginStep(r)
  <2>1. PICK first : first = [run[r].copy EXCEPT !.step = run[r].next, !.count = 1]
    OBVIOUS
  <2>2. first.count <= 1
    BY <1>2, <2>1 DEF JobCopies
  <2>3. (\E x : Advance(r, x)) \/ (\E x : Update(r, first, x))
    BY <1>7, <2>1 DEF BeginStep
  <2> QED
    BY <1>1, <1>4, <2>2, <2>3, UpdateWrites
<1>8. CASE RecordRetry(r)
  <2>1. CASE Abandon(r)
    BY <1>3, <2>1
  <2>2. CASE ~Abandon(r)
    <3>1. /\ Lease!Fenced(r, run[r].job) /\ run[r].at = "retry"
          /\ count' = [count EXCEPT ![run[r].job] = @ + 1] /\ UNCHANGED <<step, ckpt>>
      BY <1>8, <2>2 DEF RecordRetry, At
    <3>2. /\ count'[run[r].job] = count[run[r].job] + 1
          /\ \A i \in Jobs \ {run[r].job} : count'[i] = count[i]
      BY <1>1, <1>2, <3>1 DEF WeakTypeOK
    <3> QED
      BY <3>1, <3>2 DEF RowWritten
  <2> QED
    BY <2>1, <2>2
<1>9. CASE Checkpoint(r)
  <2>1. PICK copy, x : /\ copy = [run[r].copy EXCEPT !.ckpt = run[r].copy.step, !.count = 0]
                       /\ Update(r, copy, x)
    BY <1>9 DEF Checkpoint
  <2>2. copy.count <= 1
    BY <1>2, <2>1 DEF JobCopies
  <2> QED
    BY <1>1, <2>1, <2>2, UpdateWrites
<1>10. CASE Complete(r)
  <2>1. PICK copy : /\ copy = [run[r].copy EXCEPT !.status = "completed", !.step = NoStep,
                                                  !.count = 0]
                    /\ Update(r, copy, NoRun)
    BY <1>10 DEF Complete
  <2>2. copy.count <= 1
    BY <1>2, <2>1 DEF JobCopies
  <2> QED
    BY <1>1, <2>1, <2>2, UpdateWrites
<1>11. CASE Fail(r)
  <2>1. PICK copy : copy = [run[r].copy EXCEPT !.status = "failed"] /\ Update(r, copy, NoRun)
    BY <1>11 DEF Fail
  <2>2. copy.count = run[r].copy.count /\ run[r].at = "fail"
    BY <1>2, <1>11, <2>1 DEF JobCopies, Fail, At
  <2> QED
    BY <1>1, <2>1, <2>2, UpdateWrites DEF Beginning
<1> QED
  BY <1>5, <1>6, <1>7, <1>8, <1>9, <1>10, <1>11 DEF RunnerStep

\* What a worker's own step does to claims and versions: it may give its own
\* claim up, when it ends.
LEMMA WorkerClaims ==
  ASSUME PipelineInv, NEW r \in Executors, RunnerStep(r) \/ Abort(r)
  PROVE  /\ run[r] # NoRun
         /\ version' = version
         /\ \A e \in Executors \ {r} : claim'[e] = claim[e]
<1>1. ASSUME Abandon(r) PROVE version' = version /\ \A e \in Executors \ {r} : claim'[e] = claim[e]
  BY <1>1 DEF Abandon
<1>2. ASSUME NEW x, Advance(r, x)
      PROVE  version' = version /\ \A e \in Executors \ {r} : claim'[e] = claim[e]
  BY <1>2 DEF Advance, leaseVars
<1>3. ASSUME NEW copy, NEW x, Update(r, copy, x)
      PROVE  version' = version /\ \A e \in Executors \ {r} : claim'[e] = claim[e]
  BY <1>1, <1>3
     DEF Update, FencedUpdate, leaseVars, Lease!Finish, PipelineInv, WeakTypeOK, Lease!TypeOK
<1>4. CASE \/ Interrupt(r) \/ Load(r) \/ Reconstruct(r) \/ StartAttempt(r)
           \/ Execute(r) \/ RecordAttempt(r) \/ Abort(r)
  BY <1>1, <1>2, <1>4
     DEF Interrupt, Load, Reconstruct, StartAttempt, RecordAttempt, Abort, At,
         Execute, ExecuteParse, ExecuteChunk, ExecuteEmbed, ExecutePersist
<1>5. CASE Start(r) \/ BeginStep(r) \/ Checkpoint(r) \/ Complete(r) \/ Fail(r)
  BY <1>1, <1>2, <1>3, <1>5 DEF Start, BeginStep, Checkpoint, Complete, Fail, At
<1>6. CASE RecordRetry(r)
  BY <1>1, <1>6 DEF RecordRetry, leaseVars, At
<1> QED
  BY <1>4, <1>5, <1>6 DEF RunnerStep

\* The limits are naturals, and a step may run once at least.
LEMMA Limits == MaxAttempts \in Nat \ {0} /\ MaxVersion \in Nat
  BY PipelineAssumption, ComposedAssumption DEF Lease!LeaseAssumption

\* A row whose version and count do not exceed what they were stays bounded.
LEMMA RowStaysBounded ==
  ASSUME PipelineInv, NEW j \in Jobs, RowCountBounded(j), version'[j] \in Nat,
         version'[j] <= MaxVersion, version'[j] >= version[j],
         \/ count'[j] = count[j]
         \/ count'[j] \in Nat /\ count'[j] <= MaxAttempts
         \/ count'[j] = count[j] + 1 /\ version'[j] = version[j] + 1
  PROVE  RowCountBounded(j)'
<1>1. count[j] \in Nat /\ version[j] \in Nat
  BY DEF PipelineInv, WeakTypeOK, Lease!TypeOK
<1> QED
  BY <1>1, Limits DEF RowCountBounded

\* A worker that a step leaves alone, with its claim, keeps a current copy, unless
\* the step writes a row that the worker holds.
LEMMA StaysCurrent ==
  ASSUME Lease!IInv, PipelineInv, [Lease!Next]_leaseVars,
         NEW e \in Executors, run'[e] = run[e], claim'[e] = claim[e],
         ClaimKept(e), CopyCurrent(e), CopyCountBounded(e),
         run[e] # NoRun /\ Lease!Holds(e, run[e].job) =>
            \/ version'[run[e].job] # version[run[e].job]
            \/ /\ step'[run[e].job] = step[run[e].job]
               /\ count'[run[e].job] = count[run[e].job]
               /\ ckpt'[run[e].job] = ckpt[run[e].job]
  PROVE  ClaimKept(e)' /\ CopyCurrent(e)' /\ CopyCountBounded(e)'
<1>1. ClaimKept(e)' /\ CopyCountBounded(e)'
  BY DEF ClaimKept, CopyCountBounded
<1>2. CASE run[e] = NoRun
  BY <1>1, <1>2 DEF CopyCurrent
<1>3. CASE run[e] # NoRun
  <2>1. PICK j \in Jobs : j = run[e].job
    BY <1>3, RunFields DEF PipelineInv, Runners
  <2>2. ASSUME Lease!Holds(e, j)' PROVE Lease!Holds(e, j) /\ version'[j] = version[j]
    BY <2>2, HoldsBackward
  <2>3. CopyCurrent(e)'
    BY <1>3, <2>1, <2>2 DEF CopyCurrent, MatchesRow, Beginning, Lease!Holds
  <2> QED
    BY <1>1, <2>3
<1> QED
  BY <1>2, <1>3

\* The parts of OwnerInv that speak of one worker.
WorkerOwns(e) == ClaimKept(e) /\ CopyCurrent(e) /\ CopyCountBounded(e)

\* At most one worker holds a job.
LEMMA OneHolder ==
  ASSUME Lease!IInv, NEW j \in Jobs, NEW e \in Executors, NEW f \in Executors,
         Lease!Holds(e, j), Lease!Holds(f, j)
  PROVE  e = f
  BY DEF Lease!IInv, Lease!LeaseInv, Lease!ClaimsDistinct, Lease!Holds

\* A worker's own step.
LEMMA OwnerWorkerStep ==
  ASSUME PipelineInv, OwnerInv, [Lease!Next]_leaseVars, PipelineInv',
         NEW r \in Executors, RunnerStep(r) \/ Abort(r)
  PROVE  /\ \A j \in Jobs : RowCountBounded(j)'
         /\ \A e \in Executors : WorkerOwns(e)'
<1>1. /\ WeakTypeOK /\ r \in Runners /\ run[r] # NoRun /\ Lease!IInv
      /\ version' = version
      /\ \A e \in Executors \ {r} : claim'[e] = claim[e]
  BY WorkerClaims DEF PipelineInv, Runners, OwnerInv
<1>2. PICK j \in Jobs : j = run[r].job
  BY <1>1, RunFields
<1>3. /\ \A i \in Jobs : RowCountBounded(i)
      /\ CopyCurrent(r) /\ CopyCountBounded(r) /\ ClaimKept(r)
  BY DEF OwnerInv
<1>4. RowWritten(r)
  BY <1>1, WorkerWrites
<1>5. ASSUME NEW i \in Jobs PROVE RowCountBounded(i)'
  <2>1. /\ version'[i] \in Nat /\ version'[i] <= MaxVersion /\ version'[i] >= version[i]
        /\ count'[i] \in Nat /\ count[i] \in Nat /\ run[r].copy.count \in Nat
    BY <1>1, <1>3, RunFields, Limits
       DEF WeakTypeOK, Lease!TypeOK, RowCountBounded, PipelineInv
  <2>2. CASE UNCHANGED <<step, count, ckpt>> \/ i # j
    <3>1. count'[i] = count[i]
      BY <1>2, <1>4, <2>2 DEF RowWritten
    <3> QED
      BY <1>3, <2>1, <3>1, RowStaysBounded
  <2>3. CASE i = j /\ ~UNCHANGED <<step, count, ckpt>>
    <3>1. /\ Lease!Fenced(r, j)
          /\ \/ count'[j] <= 1
             \/ ~Beginning(run[r]) /\ run[r].at # "step" /\ count'[j] = run[r].copy.count
             \/ run[r].at = "retry" /\ count'[j] = count[j] + 1
      BY <1>2, <1>4, <2>3 DEF RowWritten
    <3>2. ~Beginning(run[r]) /\ run[r].at # "step" => run[r].copy.count = count[j]
      BY <1>1, <1>2, <1>3, <3>1 DEF CopyCurrent, MatchesRow, Lease!Fenced
    <3>3. run[r].at = "retry" => count[j] < MaxAttempts
      BY <1>1, <1>3, <3>2 DEF CopyCountBounded, Beginning
    <3>4. count'[j] = count[j] \/ count'[j] <= MaxAttempts
      BY <2>1, <2>3, <3>1, <3>2, <3>3, Limits
    <3> QED
      BY <1>3, <2>1, <2>3, <3>4, RowStaysBounded
  <2> QED
    BY <2>2, <2>3
<1>6. ASSUME NEW e \in Executors, e # r PROVE WorkerOwns(e)'
  <2>1. e \in Runners /\ run'[e] = run[e] /\ claim'[e] = claim[e]
    BY <1>1, <1>6, GrowthStep, RunnerStepMoves DEF Runners, RunnerMoves, OnlyRunner, Next
  <2>2. ASSUME run[e] # NoRun, Lease!Holds(e, run[e].job)
        PROVE  /\ step'[run[e].job] = step[run[e].job]
               /\ count'[run[e].job] = count[run[e].job]
               /\ ckpt'[run[e].job] = ckpt[run[e].job]
    <3>1. run[e].job \in Jobs
      BY <1>1, <2>1, <2>2, RunFields
    <3>2. Lease!Fenced(r, j) => run[e].job # j
      BY <1>1, <1>6, <2>2, OneHolder DEF Lease!Fenced
    <3> QED
      BY <1>2, <1>4, <3>1, <3>2 DEF RowWritten
  <2>3. ClaimKept(e) /\ CopyCurrent(e) /\ CopyCountBounded(e)
    BY DEF OwnerInv
  <2> QED
    BY <1>1, <2>1, <2>2, <2>3, StaysCurrent DEF WorkerOwns
<1>7. WorkerOwns(r)'
  <2>1. CopyMoves(r)
    BY <1>1, <1>2, <1>3, WorkerCopy
  <2>2. CASE run'[r] = NoRun
    BY <2>2 DEF WorkerOwns, ClaimKept, CopyCurrent, CopyCountBounded
  <2>3. CASE run'[r] # NoRun
    <3>1. /\ run'[r].job = j /\ UNCHANGED leaseVars /\ CopyCountBounded(r)'
          /\ \/ Beginning(run'[r])
             \/ ~Lease!Holds(r, j)
             \/ MatchesRow(run[r], run[r].job)'
      BY <1>2, <2>1, <2>3 DEF CopyMoves
    <3>2. ClaimKept(r)'
      BY <1>1, <1>2, <1>3, <3>1 DEF ClaimKept, leaseVars
    <3>3. Lease!Holds(r, j)' => Lease!Holds(r, j)
      BY <3>1 DEF leaseVars, Lease!Holds
    <3>4. CopyCurrent(r)'
      BY <3>1, <3>3 DEF CopyCurrent, Beginning
    <3> QED
      BY <3>1, <3>2, <3>4 DEF WorkerOwns
  <2> QED
    BY <2>2, <2>3
<1> QED
  BY <1>5, <1>6, <1>7

\* Claims, heartbeats, time and the maintenance.
LEMMA OwnerQueueStep ==
  ASSUME PipelineInv, OwnerInv, [Lease!Next]_leaseVars, NEW j \in Jobs,
         \/ \E e \in Executors : Poll(e, j) \/ Heartbeat(e, j)
         \/ LeaseAges(j) \/ CompleteCommitted(j) \/ ResetQueued(j) \/ ClearOwnership(j)
  PROVE  /\ \A i \in Jobs : RowCountBounded(i)'
         /\ \A e \in Executors : WorkerOwns(e)'
<1>1. /\ WeakTypeOK /\ Lease!IInv /\ Lease!TypeOK
      /\ \A i \in Jobs : RowCountBounded(i) /\ version[i] \in Nat /\ count[i] \in Nat
      /\ \A e \in Executors : ClaimKept(e) /\ CopyCurrent(e) /\ CopyCountBounded(e)
  BY DEF PipelineInv, WeakTypeOK, Lease!TypeOK, OwnerInv
<1>2. ASSUME NEW e \in Executors, Poll(e, j)
      PROVE  /\ \A i \in Jobs : RowCountBounded(i)'
             /\ \A f \in Executors : WorkerOwns(f)'
  <2>1. /\ run[e] = NoRun /\ e \in Runners
        /\ version[j] < MaxVersion /\ version' = [version EXCEPT ![j] = version[j] + 1]
        /\ claim' = [claim EXCEPT ![e] = [job |-> j, version |-> version[j] + 1]]
        /\ count' = count \/ count' = [count EXCEPT ![j] = @ + 1]
        /\ UNCHANGED <<step, ckpt>>
    BY <1>2 DEF Poll, Lease!Claim, Lease!NextVersion, Runners
  <2>2. PICK point \in {"interrupt", "load"} : run' = [run EXCEPT ![e] = Began(j, point)]
    BY <1>2 DEF Poll
  <2>3. ASSUME NEW i \in Jobs PROVE RowCountBounded(i)'
    <3>1. /\ version'[i] \in Nat /\ version'[i] >= version[i] /\ version'[i] <= MaxVersion
          /\ \/ count'[i] = count[i]
             \/ count'[i] = count[i] + 1 /\ version'[i] = version[i] + 1
      BY <1>1, <2>1, Limits DEF WeakTypeOK, Lease!TypeOK, RowCountBounded
    <3> QED
      BY <1>1, <3>1, RowStaysBounded
  <2>4. ASSUME NEW f \in Executors, f # e PROVE WorkerOwns(f)'
    <3>1. f \in Runners /\ run'[f] = run[f] /\ claim'[f] = claim[f]
      BY <1>1, <2>1, <2>2, <2>4 DEF WeakTypeOK, Lease!TypeOK, Runners
    <3>2. ASSUME run[f] # NoRun
          PROVE  \/ version'[run[f].job] # version[run[f].job]
                 \/ /\ step'[run[f].job] = step[run[f].job]
                    /\ count'[run[f].job] = count[run[f].job]
                    /\ ckpt'[run[f].job] = ckpt[run[f].job]
      <4>1. run[f].job \in Jobs
        BY <1>1, <3>1, <3>2, RunFields
      <4> QED
        BY <1>1, <2>1, <4>1 DEF WeakTypeOK, Lease!TypeOK
    <3> QED
      BY <1>1, <3>1, <3>2, StaysCurrent DEF WorkerOwns
  <2>5. WorkerOwns(e)'
    <3>1. PICK x : x = Began(j, point)
      OBVIOUS
    <3>2. run'[e] = x /\ x.job = j /\ Beginning(x) /\ x.at # "retry" /\ x.copy = Row(j)
      BY <1>1, <2>1, <2>2, <3>1 DEF WeakTypeOK, Began, Beginning
    <3>3. claim'[e] = [job |-> j, version |-> version[j] + 1] /\ claim'[e] # NoClaim
      BY <1>1, <2>1, ComposedAssumption DEF Lease!TypeOK, Lease!LeaseAssumption
    <3>4. ClaimKept(e)'
      BY <3>2, <3>3 DEF ClaimKept
    <3>5. x.copy.count <= MaxAttempts + MaxVersion
      BY <1>1, <3>2, Limits DEF Row, RowCountBounded
    <3>6. CopyCountBounded(e)' /\ CopyCurrent(e)'
      BY <3>2, <3>5 DEF CopyCountBounded, CopyCurrent, Beginning
    <3> QED
      BY <3>4, <3>6 DEF WorkerOwns
  <2> QED
    BY <2>3, <2>4, <2>5
<1>3. ASSUME UNCHANGED <<step, count, ckpt, version, run, claim>>
      PROVE  /\ \A i \in Jobs : RowCountBounded(i)'
             /\ \A f \in Executors : WorkerOwns(f)'
  <2>1. ASSUME NEW i \in Jobs PROVE RowCountBounded(i)'
    BY <1>1, <1>3 DEF RowCountBounded
  <2>2. ASSUME NEW f \in Executors PROVE WorkerOwns(f)'
    BY <1>1, <1>3, StaysCurrent DEF WorkerOwns
  <2> QED
    BY <2>1, <2>2
<1>4. CASE LeaseAges(j) \/ \E e \in Executors : Heartbeat(e, j)
  BY <1>3, <1>4 DEF LeaseAges, Heartbeat, Lease!LeaseAges, Lease!Renew, progressVars
<1>5. CASE CompleteCommitted(j) \/ ResetQueued(j) \/ ClearOwnership(j)
  <2>1. /\ UNCHANGED <<run, claim>>
        /\ version[j] < MaxVersion /\ version' = [version EXCEPT ![j] = version[j] + 1]
        /\ \A i \in Jobs \ {j} :
              step'[i] = step[i] /\ count'[i] = count[i] /\ ckpt'[i] = ckpt[i]
        /\ count'[j] = count[j] \/ count'[j] = 0
    BY <1>1, <1>5
       DEF CompleteCommitted, ResetQueued, ClearOwnership, Lease!CompleteCommitted,
           Lease!ResetQueued, Lease!ClearOwnership, Lease!ReleaseRow, Lease!NextVersion,
           progressVars, Progress, WeakTypeOK
  <2>2. ASSUME NEW i \in Jobs PROVE RowCountBounded(i)'
    <3>1. /\ version'[i] \in Nat /\ version'[i] >= version[i] /\ version'[i] <= MaxVersion
          /\ count'[i] = count[i] \/ count'[i] = 0
      BY <1>1, <2>1, Limits DEF Lease!TypeOK, RowCountBounded
    <3> QED
      BY <1>1, <3>1, RowStaysBounded, Limits
  <2>3. ASSUME NEW f \in Executors PROVE WorkerOwns(f)'
    <3>1. ASSUME run[f] # NoRun
          PROVE  \/ version'[run[f].job] # version[run[f].job]
                 \/ /\ step'[run[f].job] = step[run[f].job]
                    /\ count'[run[f].job] = count[run[f].job]
                    /\ ckpt'[run[f].job] = ckpt[run[f].job]
      <4>1. run[f].job \in Jobs
        BY <1>1, <3>1, RunFields DEF Runners
      <4> QED
        BY <1>1, <2>1, <4>1 DEF Lease!TypeOK
    <3> QED
      BY <1>1, <2>1, <3>1, StaysCurrent DEF WorkerOwns
  <2> QED
    BY <2>2, <2>3
<1> QED
  BY <1>2, <1>4, <1>5

\* Every step of a pipeline of workers keeps the queue's invariant, the copies
\* and the bounds.
LEMMA OwnerStep ==
  ASSUME ApiRunners = {}
  PROVE  PipelineInv /\ OwnerInv /\ [Next]_vars => OwnerInv'
<1> SUFFICES ASSUME PipelineInv, OwnerInv, [Next]_vars PROVE OwnerInv'
  OBVIOUS
<1>1. [Lease!Next]_leaseVars /\ PipelineInv' /\ Lease!IInv
  BY FencedLeaseStep, PipelineStep DEF OwnerInv
<1>2. Lease!IInv'
  BY <1>1, LeaseKept
<1>3. SUFFICES /\ \A j \in Jobs : RowCountBounded(j)'
               /\ \A e \in Executors : WorkerOwns(e)'
  BY <1>2 DEF OwnerInv, WorkerOwns
<1>4. CASE \E r \in Runners : RunnerStep(r) \/ Abort(r)
  BY <1>1, <1>4, OwnerWorkerStep DEF Runners
<1>5. CASE \E j \in Jobs :
             \/ \E e \in Executors : Poll(e, j) \/ Heartbeat(e, j)
             \/ LeaseAges(j) \/ CompleteCommitted(j) \/ ResetQueued(j) \/ ClearOwnership(j)
  BY <1>1, <1>5, OwnerQueueStep
<1>6. CASE UNCHANGED vars
  BY <1>6
     DEF vars, OwnerInv, RowCountBounded, WorkerOwns, ClaimKept, CopyCurrent,
         CopyCountBounded, MatchesRow, Lease!Holds
<1> QED
  BY <1>4, <1>5, <1>6 DEF Next

\* Without a runner that has begun, nothing is copied.
LEMMA OwnerInit == Init => OwnerInv
<1> SUFFICES ASSUME Init PROVE OwnerInv
  OBVIOUS
<1>1. Lease!IInv
  <2>1. LeaseP!Init
    BY DEF Init, Lease!Init, LeaseP!Init
  <2>2. LeaseP!TypeOK /\ LeaseP!LeaseInv
    BY <2>1, SameAssumptions, LeaseP!TypeInit, LeaseP!LeaseInvInit
  <2> QED
    BY <2>2, SameLeaseInvariant DEF LeaseP!IInv
<1>2. ASSUME NEW j \in Jobs PROVE RowCountBounded(j)
  BY Limits DEF Init, Lease!Init, RowCountBounded
<1>3. ASSUME NEW e \in Executors PROVE ClaimKept(e) /\ CopyCurrent(e) /\ CopyCountBounded(e)
  BY DEF Init, ClaimKept, CopyCurrent, CopyCountBounded, Runners
<1> QED
  BY <1>1, <1>2, <1>3 DEF OwnerInv

\* With workers alone, a worker that may still write its job has the row's
\* progress in memory, and no attempt number leaves its range.
THEOREM OwnerCopy ==
  ASSUME ApiRunners = {}
  PROVE  Spec => []OwnerCopyIsCurrent
<1>1. PipelineInv /\ OwnerInv => OwnerCopyIsCurrent
  <2> SUFFICES ASSUME PipelineInv, OwnerInv PROVE OwnerCopyIsCurrent
    OBVIOUS
  <2>1. MaxNumber = MaxAttempts + MaxVersion
    BY FS_EmptySet, Limits DEF MaxNumber
  <2>2. ASSUME NEW j \in Jobs PROVE count[j] \in 0..MaxNumber
    BY <2>1, Limits
       DEF PipelineInv, WeakTypeOK, Lease!TypeOK, OwnerInv, RowCountBounded
  <2>3. ASSUME NEW r \in Runners, run[r] # NoRun PROVE run[r].copy.count <= MaxNumber
    BY <2>1, <2>3 DEF Runners, OwnerInv, CopyCountBounded
  <2>4. TypeOK
    <3>1. count \in [Jobs -> 0..MaxNumber]
      BY <2>2 DEF PipelineInv, WeakTypeOK
    <3> QED
      BY <2>3, <3>1 DEF TypeOK, PipelineInv, WeakTypeOK
  <2>5. ASSUME NEW e \in Executors, run[e] # NoRun, run[e].at \notin {"interrupt", "load"},
               Lease!Fenced(e, run[e].job)
        PROVE  /\ run[e].copy.step = step[run[e].job]
               /\ run[e].copy.ckpt = ckpt[run[e].job]
               /\ run[e].copy.count = count[run[e].job] \/ run[e].at = "step"
    BY <2>5 DEF OwnerInv, CopyCurrent, MatchesRow, Beginning, Lease!Fenced
  <2> QED
    BY <2>4, <2>5 DEF OwnerCopyIsCurrent
<1>2. PipelineInv /\ OwnerInv /\ [Next]_vars => OwnerInv'
  BY OwnerStep
<1> QED
  BY <1>1, <1>2, OwnerInit, PipelineInvariant, PTL DEF Spec
=============================================================================
