----------------------- MODULE MCKnowledgePersistence -----------------------
(***************************************************************************)
(* Two jobs, the legacy writer without a job, and two pages. a and t have  *)
(* the same text under different titles; b is another text.                *)
(***************************************************************************)
EXTENDS KnowledgePersistence, TLC

CONSTANTS a, t, b, ha, hb, hOther, p1, p2

MCPages == {p1, p2}
MCReps == {a, t, b}
MCHashes == {ha, hb, hOther}
MCHashOf == [r \in MCReps |-> IF r = b THEN hb ELSE ha]
MCContents ==
    [{p1} -> {a, t, b}] \union {[p \in MCPages |-> a], [p \in MCPages |-> IF p = p1 THEN b ELSE a]}

\* A source whose stored payload hash never equals the hash of its text, as for
\* a URL source, whose payload is the URL.
OtherHashes == {hOther}

\* A direct text in normal form: cleaning yields the stored payload itself.
PayloadHashes == {ha, hOther}

\* Jobs and writers are interchangeable; no liveness is checked.
Interchangeable == Permutations(Jobs) \union Permutations(Writers)
=============================================================================
