--------------------------- MODULE EvaluationScores ---------------------------
(***************************************************************************)
(* The arithmetic of an evaluation: what one case scores, what a run adds  *)
(* up to, and how two runs compare. Texts are the set of fragments they    *)
(* contain; a ratio is a pair of numbers, so nothing is rounded (the       *)
(* thresholds' 1e-12 stands for exactly that).                             *)
(***************************************************************************)
EXTENDS Integers, Sequences, SequencesExt, FiniteSets

CONSTANTS
    None     \* a value that is not there

Ratios == [num : Nat, den : Nat \ {0}]
Statuses == {"passed", "failed", "skipped", "error"}

ASSUME NoneAssumption == None \notin BOOLEAN /\ None \notin Statuses /\ None \notin Ratios

-----------------------------------------------------------------------------
(* Ratios *)

Ratio(n, d) == [num |-> n, den |-> d]
Zero == Ratio(0, 1)
Below(a, b) == a.num * b.den < b.num * a.den
Plus(a, b) == Ratio(a.num * b.den + b.num * a.den, a.den * b.den)
Minus(a, b) == Plus(a, Ratio(-b.num, b.den))

\* The mean of the values that are there.
Mean(values) ==
    LET given == {i \in DOMAIN values : values[i] # None}
        sum[n \in 0 .. Len(values)] ==
            IF n = 0 THEN Zero
            ELSE IF n \in given THEN Plus(sum[n - 1], values[n]) ELSE sum[n - 1]
        total == sum[Len(values)]
    IN IF given = {} THEN None ELSE Ratio(total.num, total.den * Cardinality(given))

-----------------------------------------------------------------------------
(* One case *)

\* Rank of the first expected document, as its inverse.
ReciprocalRank(documents, expected) ==
    LET ranks == {i \in DOMAIN documents : documents[i] \in expected}
    IN IF ranks = {} THEN Zero
       ELSE Ratio(1, CHOOSE i \in ranks : \A j \in ranks : i <= j)

\* documents[i] is the document of the chunk production retrieval ranks i-th.
EvaluateRetrieval(case, documents, k) ==
    LET considered == IF k = None \/ k > Len(documents) THEN documents ELSE SubSeq(documents, 1, k)
        retrieved == ToSet(considered)
        matched == retrieved \intersect case.sources
    IN IF case.sources = {}
       THEN [retrieved |-> retrieved, precision |-> None, recall |-> None, hit |-> None, rank |-> None]
       ELSE [retrieved |-> retrieved,
             precision |-> IF retrieved = {} THEN Zero
                           ELSE Ratio(Cardinality(matched), Cardinality(retrieved)),
             recall |-> Ratio(Cardinality(matched), Cardinality(case.sources)),
             hit |-> matched # {},
             rank |-> ReciprocalRank(considered, case.sources)]

\* The checks that apply to an answer; cites lists the documents it cites.
AnswerChecks(case, answer, retrieved, options) ==
    (IF case.fragments = {} THEN {}
     ELSE IF options.allFragments THEN {case.fragments \subseteq answer.text}
     ELSE {case.fragments \intersect answer.text # {}})
    \union (IF case.excluded # {} THEN {case.excluded \intersect answer.text = {}} ELSE {})
    \union (IF case.sources # {} /\ options.requireCitations THEN {answer.cites # <<>>} ELSE {})
    \union (IF answer.cites # <<>> /\ options.validateCitations
            THEN {ToSet(answer.cites) \subseteq retrieved} ELSE {})

EvaluateAnswer(case, answer, retrieved, options) ==
    LET checks == AnswerChecks(case, answer, retrieved, options)
    IN IF checks = {} THEN None ELSE checks = {TRUE}

RetrievalPassed(retrieval, requireAll) ==
    IF retrieval.hit = None THEN None
    ELSE retrieval.hit /\ (requireAll => retrieval.recall.num = retrieval.recall.den)

CaseStatus(retrieval, passed, requireAll) ==
    LET applicable == {RetrievalPassed(retrieval, requireAll), passed} \ {None}
    IN IF applicable = {} THEN "skipped"
       ELSE IF applicable = {TRUE} THEN "passed" ELSE "failed"

\* response is what production does with the question: the retrieval may raise,
\* then the generation; the retrieval of an errored case is kept.
RunCase(case, response, options) ==
    LET raised == None \in {response.documents, response.answer}
        retrieval == IF response.documents = None THEN None
                     ELSE EvaluateRetrieval(case, response.documents, options.k)
        passed == IF raised THEN None
                  ELSE EvaluateAnswer(case, response.answer, retrieval.retrieved, options)
    IN [case |-> case.id, retrieval |-> retrieval, passed |-> passed,
        status |-> IF raised THEN "error"
                   ELSE CaseStatus(retrieval, passed, options.requireAll)]

-----------------------------------------------------------------------------
(* A run *)

\* What the retrieval of a case counts for, where there is one.
Score(retrieval, m) ==
    IF retrieval = None THEN None
    ELSE IF m # "hits" THEN retrieval[m]
    ELSE IF retrieval.hit = None THEN None
    ELSE IF retrieval.hit THEN Ratio(1, 1) ELSE Zero

SummariseRetrieval(results) ==
    [m \in {"precision", "recall", "hits", "rank"} |->
        Mean([i \in DOMAIN results |-> Score(results[i].retrieval, m)])]

PassRate(results) ==
    LET judged == {i \in DOMAIN results : results[i].passed # None}
    IN IF judged = {} THEN None
       ELSE Ratio(Cardinality({i \in judged : results[i].passed}), Cardinality(judged))

CasesIn(results, status) == Cardinality({i \in DOMAIN results : results[i].status = status})

Summarise(dataset, results) ==
    [total |-> Len(dataset.cases),
     failed |-> CasesIn(results, "failed"),
     error |-> CasesIn(results, "error"),
     skipped |-> CasesIn(results, "skipped"),
     metrics |-> [retrieval |-> SummariseRetrieval(results),
                  answers |-> PassRate(results)]]

Metrics == {"precision", "recall", "hits", "rank", "answers"}
Metric(run, m) ==
    IF m = "answers" THEN run.summary.metrics.answers ELSE run.summary.metrics.retrieval[m]

Run(id, dataset, status, results, options) ==
    [id |-> id, name |-> dataset.name, version |-> dataset.version, k |-> options.k,
     status |-> status, results |-> results, summary |-> Summarise(dataset, results)]

\* Exit codes
Success == 0
EvaluationFailed == 1
DatasetError == 3
CaseExecutionError == 4
RunError == 5
ReportError == 6
ComparisonError == 7
RegressionDetected == 8

ExitCodeForRun(run) ==
    IF run.summary.error > 0 THEN CaseExecutionError
    ELSE IF run.summary.failed > 0 \/ run.summary.skipped = run.summary.total
    THEN EvaluationFailed
    ELSE Success

-----------------------------------------------------------------------------
(* Two runs. A policy has thresholds [absolute, relative] for some metrics,  *)
(* and the switches of EvaluationRegressionPolicy.                           *)

\* What a report the program wrote may differ in: it is terminal, has a
\* summary and one result a case.
Compatible(baseline, current, policy) ==
    /\ baseline.name = current.name
    /\ policy.sameVersion => baseline.version = current.version
    /\ policy.sameK => baseline.k = current.k

\* A fall of d from the value b breaches a threshold; nothing is 0 of zero.
Breached(threshold, b, d) ==
    \/ threshold.absolute # None /\ Below(threshold.absolute, d)
    \/ /\ threshold.relative # None
       /\ Below(threshold.relative, IF b.num = 0 THEN Zero ELSE Ratio(d.num * b.den, d.den * b.num))

\* A metric that fell without a threshold is reported, and is no reason.
CompareMetric(b, c, threshold) ==
    IF b = None /\ c = None THEN "not_comparable"
    ELSE IF b = None THEN "new"
    ELSE IF c = None THEN IF threshold = None THEN "unevaluable" ELSE "became_unevaluable"
    ELSE IF ~Below(c, b) THEN IF Below(b, c) THEN "improved" ELSE "unchanged"
    ELSE IF threshold = None THEN "fell"
    ELSE IF Breached(threshold, b, Minus(b, c)) THEN "regressed" ELSE "within_tolerance"

Results(run) == {run.results[i] : i \in DOMAIN run.results}
StatusOf(run, c) == IF \E r \in Results(run) : r.case = c
                    THEN (CHOOSE r \in Results(run) : r.case = c).status ELSE None
CasesOf(run) == {r.case : r \in Results(run)}

CompareCases(baseline, current) ==
    [c \in CasesOf(baseline) \union CasesOf(current) |->
        <<StatusOf(baseline, c), StatusOf(current, c)>>]

NewlyFailed == {<<"passed", "failed">>, <<"skipped", "failed">>}
NewlyErroredFromPassed == {<<s, "error">> : s \in {"passed", "skipped"}}
NewlyErrored == {<<s, "error">> : s \in {"passed", "failed", "skipped"}}

RegressionReasons(baseline, current, policy) ==
    LET metrics == {CompareMetric(Metric(baseline, m), Metric(current, m), policy.thresholds[m]) :
                       m \in Metrics}
        cases == CompareCases(baseline, current)
        moves == {cases[c] : c \in DOMAIN cases}
        added == {m \in moves : m[1] = None}
        removed == {m \in moves : m[2] = None}
    IN (metrics \intersect {"regressed", "became_unevaluable"})
       \union (IF policy.newFailures /\ moves \intersect NewlyFailed # {} THEN {"new_failed"} ELSE {})
       \union (IF policy.newErrors /\ moves \intersect NewlyErrored # {} THEN {"new_error"} ELSE {})
       \union (IF \E m \in added : m[2] = "failed" THEN {"added_failing"} ELSE {})
       \union (IF \E m \in added : m[2] = "error" THEN {"added_error"} ELSE {})
       \union (IF policy.added /\ added # {} THEN {"added"} ELSE {})
       \union (IF policy.removed /\ removed # {} THEN {"removed"} ELSE {})

Regressed(baseline, current, policy) == RegressionReasons(baseline, current, policy) # {}
=============================================================================
