--------------------------- MODULE MCIngestionApi ---------------------------
(***************************************************************************)
(* Two ways in which requests of the ingestion API meet background work.   *)
(* They share no table here: a behaviour is one of the area while the      *)
(* other rests.                                                            *)
(*                                                                         *)
(* Sources: the instance of MCKnowledgeSources.                            *)
(* Run: a worker and a request to POST /ingestion/jobs/{id}/run, which     *)
(* has no fence, execute the one job of a page; either may die.            *)
(***************************************************************************)
EXTENDS MCKnowledgeSources

CONSTANTS
    job, slot, api, identity, page, text, hash, Nothing

VARIABLES
    area,   \* which of the two this behaviour is about
    status, worker, lease, version, stamped, claim, document, chunks, receipt,
    prepared, step, count, ckpt, attempts, run, aborts

Api == INSTANCE IngestionPipeline WITH
    Jobs <- {job}, Executors <- {slot}, ApiRunners <- {api},
    WorkerIds <- {identity}, WorkerOf <- [e \in {slot} |-> identity], Skewed <- {},
    Pages <- {page}, Reps <- {text}, Hashes <- {hash}, HashOf <- [x \in {text} |-> hash],
    Contents <- [{page} -> {text}], PendingHashes <- {}, PageOf <- [j \in {job} |-> page],
    DirectText <- {}, NoWorker <- Nothing, NoClaim <- Nothing, NoRep <- Nothing,
    NoHash <- Nothing, NoDocument <- Nothing, NoReceipt <- Nothing, NoPlan <- Nothing,
    NoContent <- Nothing, NoRun <- Nothing,
    MaxVersion <- 1, MaxAttempts <- 1, MaxAborts <- 1, LateHeartbeats <- TRUE

runVars == <<status, worker, lease, version, stamped, claim, document, chunks, receipt,
             prepared, step, count, ckpt, attempts, run, aborts>>

SourcesRest == sources = [s \in Sources |-> None] /\ Init
RunRests == status = [j \in {job} |-> "queued"] /\ Api!Init

ApiInit ==
    \/ area = "sources" /\ Init /\ RunRests
    \/ area = "run" /\ SourcesRest /\ Api!Init

ApiNext ==
    \/ area = "sources" /\ Next /\ UNCHANGED <<runVars, area>>
    \/ area = "run" /\ Api!Next /\ UNCHANGED <<sourcesVars, area>>

ApiSpec == ApiInit /\ [][ApiNext]_<<sourcesVars, runVars, area>>

-----------------------------------------------------------------------------
(* The properties of the pipeline that hold without a fence                *)

\* A job that is completed, or whose PERSIST checkpoint is set, has committed its
\* knowledge, also when a worker and a request run it together.
CompletedIsCommitted == Api!CompletedIsCommitted

\* A recorded attempt keeps its result, although the worker and the request both
\* start, interrupt and finish attempts of the job.
AttemptResultsAreFinal == Api!AttemptResultsAreFinal
=============================================================================
