------------------------------ MODULE MCServices ------------------------------
(***************************************************************************)
(* Four parts that share no state: a behaviour of this module is one of    *)
(* the part in "area" while the others rest.                               *)
(*                                                                         *)
(* Evaluation, in two workloads. Gate: one command, its run of two cases   *)
(* compared with any earlier run of this dataset or another version of it. *)
(* Files: two commands and a request write one directory.                  *)
(* Website: four pages, one of them on another origin, at most three of    *)
(* them loaded, one redirection, two attempts a stage, two failing writes. *)
(* Backend: two chats, three questions of which two have one form, one     *)
(* request a minute, a cache of queries for one.                           *)
(* Chunking: every document of up to three of ten blocks, four settings.   *)
(***************************************************************************)
EXTENDS EvaluationRuns, WebsiteIngestion, RagBackend, TextChunking, TLC

CONSTANTS
    p1, p2, q1, shared, name, current, earlier, c1, c2, c3, s1, s2, f1, f2,
    u1, u2, u3, far, near, away,
    typed, shouted, other

VARIABLES
    area    \* the part that is at work

-----------------------------------------------------------------------------
(* Evaluation *)

Case(id, sources, fragments, excluded) ==
    [id |-> id, sources |-> sources, fragments |-> fragments, excluded |-> excluded]
Now == [name |-> name, version |-> current,
        cases |-> <<Case(c1, {s1, s2}, {f1}, {}), Case(c2, {}, {}, {f2})>>]
Before == [name |-> name, version |-> earlier,
           cases |-> <<Case(c1, {s1}, {f1}, {}), Case(c3, {}, {}, {})>>]

Strict == [k |-> 2, requireAll |-> TRUE, allFragments |-> TRUE, requireCitations |-> TRUE,
           validateCitations |-> TRUE, stop |-> FALSE]
Lenient == [Strict EXCEPT !.requireAll = FALSE, !.requireCitations = FALSE, !.k = None, !.stop = TRUE]

Says(text, cites) == [text |-> text, cites |-> cites]
Right == [documents |-> <<s1, s2>>, answer |-> Says({f1}, <<s1>>)]
Partial == [documents |-> <<s1, s1, s2>>, answer |-> Says({f1}, <<s1>>)]
Wrong == [documents |-> <<s2>>, answer |-> Says({f1, f2}, <<s1>>)]
Silent == [documents |-> <<>>, answer |-> Says({}, <<>>)]
Unread == [documents |-> None, answer |-> None]
Unanswered == [documents |-> <<s2>>, answer |-> None]

Allowance == [absolute |-> Ratio(1, 4), relative |-> None]
Share == [absolute |-> None, relative |-> Ratio(1, 2)]
Policies ==
    {None,
     [DefaultPolicy EXCEPT !.thresholds = [m \in Metrics |-> Allowance],
                           !.newFailures = FALSE, !.removed = TRUE],
     [DefaultPolicy EXCEPT !.thresholds = [m \in Metrics |-> IF m = "recall" THEN Share ELSE None],
                           !.newErrors = FALSE, !.added = TRUE, !.sameK = FALSE]}

Args(report, overwrite, baseline, policy, options) ==
    [dataset |-> Now, options |-> options, report |-> report, overwrite |-> overwrite,
     baseline |-> baseline, policy |-> policy]

EarlierRuns ==
    {RunOf(shared, [dataset |-> d, options |-> o], responses, "completed") :
        d \in {Now, Before}, o \in {Strict, Lenient},
        responses \in [1 .. 2 -> {Right, Partial, Wrong, Unanswered}]}

Gate ==
    [processes |-> {p1},
     arguments |-> {Args(None, FALSE, b, pol, o) :
                       b \in {shared}, pol \in Policies, o \in {Strict, Lenient}}
                   \union {Args(None, FALSE, None, None, o) : o \in {Strict, Lenient}},
     responses |-> {Right, Partial, Wrong, Silent, Unread, Unanswered},
     reads |-> {},
     earlier |-> {shared :> run : run \in EarlierRuns}]

Files ==
    [processes |-> {p1, p2, q1},
     arguments |-> {Args(shared, FALSE, None, None, Lenient), Args(shared, TRUE, None, None, Lenient),
                    Args("directory", FALSE, None, None, Lenient),
                    Args(shared, TRUE, shared, None, Lenient)},
     responses |-> {Unread},
     reads |-> {<<p1>>, <<p1, shared>>},
     earlier |-> {<<>>, shared :> RunOf(shared, [dataset |-> Now, options |-> Lenient], <<Right, Right>>, "completed")}]

MCWorkloads == {Gate, Files}

-----------------------------------------------------------------------------
(* Website *)

MCOrigin == [u \in {u1, u2, u3, far} |-> IF u = far THEN away ELSE near]
Moved(u) == [to |-> u, links |-> <<>>]
Page(links) == [to |-> Nowhere, links |-> links]
MCSites ==
    {[u \in {u1, u2, u3, far} |->
        IF u = u1 THEN one ELSE IF u = u2 THEN two ELSE IF u = u3 THEN three ELSE Page(<<u1, far>>)] :
     one \in {Moved(far), Moved(u2), Page(<<u2, u3>>), Page(<<u1, u2, u2, far>>)},
     two \in {Moved(u3), Moved(u1), Moved(far), Page(<<u3, u1>>), Page(<<>>)},
     three \in {Moved(u2), Page(<<u2, far>>), Page(<<u1>>)}}

-----------------------------------------------------------------------------
(* RAG backend *)

MCForm == [q \in Questions |-> IF q = shouted THEN typed ELSE q]
MCEarlier == {<<other, typed>>}

-----------------------------------------------------------------------------
(* Chunking *)

Heading(level, n) == [level |-> level, length |-> level + 1 + n, spaces |-> {level + 1}, stops |-> {}]
Paragraph(n, spaces, stops) == [level |-> 0, length |-> n, spaces |-> spaces, stops |-> stops]
Blocks ==
    {Heading(1, 1), Heading(2, 3), Heading(3, 2), Heading(3, 8),
     Paragraph(1, {}, {}), Paragraph(7, {3, 5}, {}), Paragraph(13, {}, {}), Paragraph(13, {7}, {}),
     Paragraph(14, {4, 9, 12}, {9}), Paragraph(23, {3, 5, 9, 22}, {9, 22})}
MCDocuments == UNION {[1 .. n -> Blocks] : n \in 1 .. 3}

Chunker(size, overlap, minimum) == [size |-> size, overlap |-> overlap, minimum |-> minimum]
MCSettings == {Chunker(10, 3, 5), Chunker(9, 0, 8), Chunker(6, 5, 3), Chunker(12, 5, 6)}

-----------------------------------------------------------------------------
(* One of the four *)

EvaluationRests == workload = Files /\ reports = <<>> /\ RunInit
WebsiteRests ==
    /\ site = CHOOSE s \in Sites : TRUE
    /\ stored = [u \in Urls |-> "none"]
    /\ IngestionInit
BackendRests == auditing = TRUE /\ RagInit
ChunkingRests ==
    /\ document = <<Paragraph(1, {}, {})>>
    /\ setting = Chunker(10, 3, 5)
    /\ ChunkingInit

ServicesInit ==
    \/ area = "evaluation" /\ RunInit /\ WebsiteRests /\ BackendRests /\ ChunkingRests
    \/ area = "website" /\ EvaluationRests /\ IngestionInit /\ BackendRests /\ ChunkingRests
    \/ area = "backend" /\ EvaluationRests /\ WebsiteRests /\ RagInit /\ ChunkingRests
    \/ area = "chunking" /\ EvaluationRests /\ WebsiteRests /\ BackendRests /\ ChunkingInit

ServicesNext ==
    \/ area = "evaluation" /\ RunNext /\ UNCHANGED <<ingestionVars, ragVars, chunkingVars, area>>
    \/ area = "website" /\ IngestionNext /\ UNCHANGED <<vars, ragVars, chunkingVars, area>>
    \/ area = "backend" /\ RagNext /\ UNCHANGED <<vars, ingestionVars, chunkingVars, area>>
    \/ area = "chunking" /\ ChunkingNext /\ UNCHANGED <<vars, ingestionVars, ragVars, area>>

ServicesSpec ==
    ServicesInit /\ [][ServicesNext]_<<vars, ingestionVars, ragVars, chunkingVars, area>>

Interchangeable == Permutations(Chats)
=============================================================================
