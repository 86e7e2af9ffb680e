-------------------------- MODULE MCLeasesAndPermits --------------------------
(***************************************************************************)
(* What is granted for a while and has to come back: the jobs of the       *)
(* ingestion queue and the slots of the public chat. They share no state:  *)
(* a behaviour is one of the part in "area" while the other rests.         *)
(*                                                                         *)
(* Jobs: two jobs and three execution slots. e1 and e2 share a worker      *)
(* identity (a worker with concurrency 2, or two processes configured      *)
(* alike), the clock of e3's process is skewed.                            *)
(* Chat: two requests of one caller, with one slot of the caller and one   *)
(* of the deployment, in memory or in Redis, where a slot that has lapsed  *)
(* lets the second request on while the first still runs.                  *)
(***************************************************************************)
EXTENDS IngestionLease

CONSTANTS
    e1, e2, e3, w1, w2,
    Requests, Clients, Deployment, Nobody, Orphan, MaxDeltas, MaxFaults

VARIABLES
    area,   \* the part that is at work
    limiter, byClient, total, lock, gauge, faults, pc, client, tries, held, lapsed, cleaned,
    answer, events, link

MCExecutors == {e1, e2, e3}
MCWorkerIds == {w1, w2}
MCWorkerOf == [e \in MCExecutors |-> IF e = e3 THEN w2 ELSE w1]
MCSkewed == {e3}

Envelope == [origin |-> "allowed", media |-> "json", body |-> "small", texts |-> "short",
             history |-> <<"user", "assistant">>]

Chat == INSTANCE PublicChat WITH
    status <- answer,
    HistoryLimit <- 2,
    Envelopes <- {Envelope},
    Limiters <- {[kind |-> k, perClient |-> 1, globally |-> 1] : k \in {"memory", "redis"}}

chatVars == <<limiter, byClient, total, lock, gauge, faults, pc, client, tries, held, lapsed,
              cleaned, answer, events, link>>
allVars == <<leaseVars, chatVars, area>>

-----------------------------------------------------------------------------
(* One of the two *)

\* Jobs that have ended: no slot has anything to claim, and no lease ages.
LeaseRests ==
    /\ status = [j \in Jobs |-> "completed"]
    /\ worker = [j \in Jobs |-> NoWorker]
    /\ lease = [j \in Jobs |-> "unset"]
    /\ version = [j \in Jobs |-> 1]
    /\ stamped = [j \in Jobs |-> TRUE]
    /\ claim = [e \in Executors |-> NoClaim]
ChatRests == Chat!Init /\ limiter.kind = "memory"

GrantsInit ==
    \/ area = "lease" /\ Init /\ ChatRests
    \/ area = "chat" /\ LeaseRests /\ Chat!Init

GrantsNext ==
    \/ area = "lease" /\ Next /\ UNCHANGED <<chatVars, area>>
    \/ area = "chat" /\ Chat!Next /\ UNCHANGED <<leaseVars, area>>

GrantsSpec == GrantsInit /\ [][GrantsNext]_allVars /\ Fairness /\ Chat!Fairness

-----------------------------------------------------------------------------
\* A permit of the chat comes back while its process lives (PublicChat.PermitsComeBack;
\* assistant/api/public_chat.py, _RequestCleanup and the background task).
PermitsComeBack == Chat!PermitsComeBack
=============================================================================
