------------------------- MODULE MCIngestionPipeline -------------------------
(***************************************************************************)
(* Instances of IngestionPipeline: one page with two possible texts; jobs, *)
(* slots and request threads are chosen by each configuration.             *)
(***************************************************************************)
EXTENDS IngestionPipeline, TLC

CONSTANTS j1, j2, e1, e2, w1, w2, api, a, b, ha, hb, p1

OneJob == {j1}
TwoJobs == {j1, j2}
OneSlot == {e1}
TwoSlots == {e1, e2}
NoSlots == {}
OneApi == {api}

MCWorkerIds == {w1, w2}
\* e1 and e2 are slots of one worker process, or of two with one identity.
SharedIdentity == [e \in Executors |-> w1]

MCPages == {p1}
MCReps == {a, b}
MCHashes == {ha, hb}
MCHashOf == [r \in MCReps |-> IF r = b THEN hb ELSE ha]
MCContents == [{p1} -> MCReps]
OneContent == [{p1} -> {a}]
MCPageOf == [j \in Jobs |-> p1]

NoPending == {}

\* Slots under one identity are interchangeable; for runs without liveness.
Interchangeable == Permutations(Executors)
=============================================================================
