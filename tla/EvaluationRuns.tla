---------------------------- MODULE EvaluationRuns ----------------------------
(***************************************************************************)
(* Evaluation runs from the command line and from the admin API, over one  *)
(* directory of reports. Processes share nothing but the files; any of     *)
(* them may be killed between two steps, and leaves its temporary file.    *)
(*                                                                         *)
(* A report is named by the command (--report), or after its run           *)
(* (--report-dir and the API): names of the second kind are the runs' ids. *)
(* What production answers to a question is chosen, case by case.          *)
(***************************************************************************)
EXTENDS EvaluationScores

CONSTANTS
    Commands,     \* runs of python -m assistant.evaluation
    Requests,     \* requests to the admin API
    FileNames,    \* report names commands give
    Workloads     \* what a behaviour is about: who takes part, with what

VARIABLES
    workload,     \* the member of Workloads this behaviour is about
    reports,      \* the .json files there are in the directory, by name
    temps,        \* the temporary file of a process
    work          \* what each process is doing

vars == <<workload, reports, temps, work>>

Processes == Commands \union Requests
Idle == [pc |-> "idle"]

\* What the program accepts as a dataset, its settings and a policy.
IsDataset(dataset) ==
    /\ dataset.cases \in Seq(ToSet(dataset.cases)) /\ dataset.cases # <<>>
    /\ \A i, j \in DOMAIN dataset.cases : dataset.cases[i].id = dataset.cases[j].id => i = j
    /\ \A i \in DOMAIN dataset.cases : IsFiniteSet(dataset.cases[i].sources)
RunOptions ==
    [k : {None} \union (Nat \ {0}), requireAll : BOOLEAN, allFragments : BOOLEAN,
     requireCitations : BOOLEAN, validateCitations : BOOLEAN, stop : BOOLEAN]
MetricThresholds == [absolute : Ratios \union {None}, relative : Ratios \union {None}]
RegressionPolicies ==
    [thresholds : [Metrics -> MetricThresholds \union {None}], newFailures : BOOLEAN, newErrors : BOOLEAN,
     removed : BOOLEAN, added : BOOLEAN, sameVersion : BOOLEAN, sameK : BOOLEAN]

\* What production may answer; None where it raised.
IsResponse(response) ==
    /\ response.documents = None \/ response.documents \in Seq(ToSet(response.documents))
    /\ response.answer = None \/ response.answer.cites \in Seq(ToSet(response.answer.cites))

\* What a report that the program wrote says of a run.
IsScored(run) ==
    /\ \A m \in Metrics : Metric(run, m) \in Ratios \union {None}
    /\ \A i \in DOMAIN run.results : run.results[i].status \in Statuses

\* Runs of before have names of their own, and have ended.
ASSUME WorkloadAssumption ==
    /\ Commands \intersect Requests = {}
    /\ \A w \in Workloads :
          /\ w.processes \subseteq Processes
          /\ \A args \in w.arguments :
                /\ args.overwrite \in BOOLEAN /\ args.report \in FileNames \union {"directory", None}
                /\ IsDataset(args.dataset) /\ args.options \in RunOptions
                /\ args.policy = None \/ args.policy \in RegressionPolicies
          /\ \A response \in w.responses : IsResponse(response)
          /\ \A e \in w.earlier :
                /\ \A n \in DOMAIN e :
                      e[n].id \notin Processes /\ e[n].status \in {"completed", "failed"} /\ IsScored(e[n])
                /\ \A m, n \in DOMAIN e : e[m].id = e[n].id => m = n

\* A report as read: the fields a listing shows, and the results.
IsReport(n) == n \in DOMAIN reports /\ reports[n].whole

RunInit ==
    /\ workload \in Workloads
    /\ \E earlier \in workload.earlier :
          reports = [n \in DOMAIN earlier |-> [whole |-> TRUE, run |-> earlier[n]]]
    /\ temps = [p \in Processes |-> None]
    /\ work = [p \in Processes |-> Idle]

Set(p, w) == work' = [work EXCEPT ![p] = w]
To(p, pc) == Set(p, [work[p] EXCEPT !.pc = pc])
End(p, code) == Set(p, [work[p] EXCEPT !.pc = "ended", !.code = code])

\* The command's exit code, or the status of the API's answer.
Fail(p, exit, status) == End(p, IF p \in Commands THEN exit ELSE status)

-----------------------------------------------------------------------------
(* Running a dataset *)

UsageError(args) ==
    \/ args.overwrite /\ args.report = None
    \/ args.baseline = None /\ args.policy # None

Started(args) ==
    [pc |-> "running", args |-> args, responses |-> <<>>, run |-> None, against |-> {}, code |-> None]

\* The dataset is read before the services are built; either may fail.
Start(p, args, fault) ==
    /\ work[p] = Idle
    /\ LET w == Started(args)
           Ended(exit, status) == [w EXCEPT !.pc = "ended", !.code = IF p \in Commands THEN exit ELSE status]
       IN Set(p, IF p \in Commands /\ UsageError(args) THEN Ended(2, 422)
                 ELSE IF fault = "dataset" THEN Ended(DatasetError, 422)
                 ELSE IF fault = "services" THEN Ended(RunError, 503)
                 ELSE w)
    /\ UNCHANGED <<workload, reports, temps>>

RunOf(p, args, responses, status) ==
    LET results == [i \in DOMAIN responses |->
                       RunCase(args.dataset.cases[i], responses[i], args.options)]
        run == Run(p, args.dataset, status, results, args.options)
    IN [f \in DOMAIN run \union {"responses"} |-> IF f = "responses" THEN responses ELSE run[f]]

Stops(args, response) == args.options.stop /\ None \in {response.documents, response.answer}

\* Where a finished run goes. The report is saved before the baseline is read.
AfterRun(p, args) ==
    IF args.report # None THEN IF p \in Requests THEN "listing" ELSE "saving"
    ELSE IF args.baseline # None THEN "comparing" ELSE "ended"

\* The code of a run nothing more is asked of; a request answers 200.
CodeOf(p, run) == IF p \in Commands THEN ExitCodeForRun(run) ELSE 200

RunDataset(p, response) ==
    LET w == work[p]
        responses == Append(w.responses, response)
        stopped == Stops(w.args, response)
        run == RunOf(p, w.args, responses, IF stopped THEN "failed" ELSE "completed")
    IN /\ w.pc = "running"
       /\ Set(p, IF stopped \/ Len(responses) = Len(w.args.dataset.cases)
                 THEN [w EXCEPT !.pc = AfterRun(p, w.args), !.run = run, !.code = CodeOf(p, run)]
                 ELSE [w EXCEPT !.responses = responses])
       /\ UNCHANGED <<workload, reports, temps>>

-----------------------------------------------------------------------------
(* Saving a report *)

Path(p) == IF work[p].args.report = "directory" THEN p ELSE work[p].args.report

\* The API looks through all reports first, and again when it publishes.
ListReports(p) ==
    /\ work[p].pc = "listing"
    /\ LET found == DOMAIN reports
       IN IF \E n \in found : ~reports[n].whole THEN End(p, 422)
          ELSE IF \E m, n \in found : m # n /\ reports[m].run.id = reports[n].run.id THEN End(p, 503)
          ELSE IF \E n \in found : reports[n].run.id = p THEN End(p, 409)
          ELSE To(p, "saving")
    /\ UNCHANGED <<workload, reports, temps>>

CheckPath(p) ==
    /\ work[p].pc = "saving"
    /\ \/ Fail(p, ReportError, 500)    \* the directory cannot be made
       \/ IF ~work[p].args.overwrite /\ Path(p) \in DOMAIN reports
          THEN Fail(p, ReportError, 409) ELSE To(p, "creating")
    /\ UNCHANGED <<workload, reports, temps>>

CreateTemporary(p) ==
    /\ work[p].pc = "creating"
    /\ \/ Fail(p, ReportError, 500) /\ UNCHANGED temps
       \/ To(p, "writing") /\ temps' = [temps EXCEPT ![p] = [whole |-> FALSE, run |-> work[p].run]]
    /\ UNCHANGED <<workload, reports>>

\* Written, flushed and synced; a failure removes the temporary file.
WriteTemporary(p) ==
    /\ work[p].pc = "writing"
    /\ \/ Fail(p, ReportError, 500) /\ temps' = [temps EXCEPT ![p] = None]
       \/ /\ To(p, "publishing")
          /\ temps' = [temps EXCEPT ![p] = [whole |-> TRUE, run |-> work[p].run]]
    /\ UNCHANGED <<workload, reports>>

\* os.link refuses a name that exists; os.replace takes it.
MayLinkAnyway(p) == TRUE
MayLink(p) == Path(p) \notin DOMAIN reports

Published(p) ==
    IF work[p].args.baseline # None THEN "comparing" ELSE "ended"

Discard(p, status) ==
    Set(p, [work[p] EXCEPT !.pc = "discarding", !.code = IF p \in Commands THEN ReportError ELSE status])

WithReport(p) ==
    [n \in DOMAIN reports \union {Path(p)} |-> IF n = Path(p) THEN temps[p] ELSE reports[n]]

Publish(p) ==
    /\ work[p].pc = "publishing"
    /\ IF work[p].args.overwrite
       THEN /\ reports' = WithReport(p)
            /\ temps' = [temps EXCEPT ![p] = None]
            /\ To(p, Published(p))
       ELSE /\ reports' = IF MayLink(p) THEN WithReport(p) ELSE reports
            /\ UNCHANGED temps
            /\ IF MayLink(p) THEN To(p, "unlinking") ELSE Discard(p, 409)
    /\ UNCHANGED workload

PublishFails(p) ==
    /\ work[p].pc = "publishing"
    /\ Discard(p, 500)
    /\ UNCHANGED <<workload, reports, temps>>

\* A temporary file that cannot be removed is left.
Unlink(p) ==
    /\ work[p].pc \in {"unlinking", "discarding"}
    /\ To(p, IF work[p].pc = "unlinking" THEN Published(p) ELSE "ended")
    /\ temps' \in {temps, [temps EXCEPT ![p] = None]}
    /\ UNCHANGED <<workload, reports>>

-----------------------------------------------------------------------------
(* Comparing *)

ComparedCode(p, baseline, current, policy) ==
    IF ~Compatible(baseline, current, policy) THEN IF p \in Commands THEN ComparisonError ELSE 409
    ELSE IF p \in Commands /\ Regressed(baseline, current, policy) THEN RegressionDetected
    ELSE CodeOf(p, current)

\* The switches of a command that gives none.
DefaultPolicy ==
    [thresholds |-> [m \in Metrics |-> None], newFailures |-> TRUE, newErrors |-> TRUE,
     removed |-> FALSE, added |-> FALSE, sameVersion |-> FALSE, sameK |-> TRUE]
PolicyOf(args) == IF args.policy = None THEN DefaultPolicy ELSE args.policy

CompareWithBaseline(p) ==
    LET w == work[p]
        baseline == reports[w.args.baseline].run
    IN /\ w.pc = "comparing"
       /\ IF ~IsReport(w.args.baseline) THEN End(p, ComparisonError)
          ELSE Set(p, [w EXCEPT !.pc = "ended", !.against = {baseline},
                                !.code = ComparedCode(p, baseline, w.run, PolicyOf(w.args))])
       /\ UNCHANGED <<workload, reports, temps>>

-----------------------------------------------------------------------------
(* Reading reports through the API *)

\* ids is the run asked for, or the candidate and the baseline to compare.
Ask(p, ids) ==
    /\ work[p] = Idle
    /\ Set(p, [pc |-> "scanning", ids |-> ids, found |-> <<>>, name |-> None, code |-> None])
    /\ UNCHANGED <<workload, reports, temps>>

\* The listing fields of every report are read until one has the identity ...
Scan(p) ==
    LET id == work[p].ids[Len(work[p].found) + 1]
        Matching == {n \in DOMAIN reports : IsReport(n) /\ reports[n].run.id = id}
    IN /\ work[p].pc = "scanning"
       /\ IF \E n \in DOMAIN reports : ~reports[n].whole THEN End(p, 422)
          ELSE IF Matching = {} THEN End(p, 404)
          ELSE \E n \in Matching : Set(p, [work[p] EXCEPT !.pc = "loading", !.name = n])
       /\ UNCHANGED <<workload, reports, temps>>

\* ... and then the file of that name is opened again.
Load(p) ==
    LET w == work[p]
        found == Append(w.found, reports[w.name])
    IN /\ w.pc = "loading"
       /\ IF ~IsReport(w.name) THEN End(p, 422)
          ELSE Set(p, [w EXCEPT !.found = found,
                                !.pc = IF Len(found) < Len(w.ids) THEN "scanning" ELSE "ended",
                                !.code = IF Len(found) < Len(w.ids) THEN None
                                         ELSE IF Len(found) = 1 THEN 200
                                         ELSE ComparedCode(p, found[2].run, found[1].run, DefaultPolicy)])
       /\ UNCHANGED <<workload, reports, temps>>

Crash(p) ==
    /\ work[p].pc \notin {"idle", "ended", "crashed"}
    /\ To(p, "crashed")
    /\ UNCHANGED <<workload, reports, temps>>

\* What a request of the API can ask of a run.
ApiArguments(args) ==
    /\ args.report \in {None, "directory"}
    /\ args.baseline = None
    /\ ~args.overwrite

Step(p) ==
    \/ \E args \in workload.arguments, fault \in {"none", "dataset", "services"} :
          (p \in Requests => ApiArguments(args)) /\ Start(p, args, fault)
    \/ \E response \in workload.responses : RunDataset(p, response)
    \/ ListReports(p) \/ CheckPath(p) \/ CreateTemporary(p) \/ WriteTemporary(p)
    \/ Publish(p) \/ PublishFails(p) \/ Unlink(p) \/ CompareWithBaseline(p)
    \/ \E ids \in workload.reads : p \in Requests /\ Ask(p, ids)
    \/ Scan(p) \/ Load(p) \/ Crash(p)

RunNext == \E p \in workload.processes : Step(p)
RunSpec == RunInit /\ [][RunNext]_vars

-----------------------------------------------------------------------------
(* Properties *)

\* The process has said that its report is saved, or gone on after it.
Saved(p) ==
    /\ work[p].pc \in {"comparing", "ended"}
    /\ "run" \in DOMAIN work[p] /\ work[p].run # None /\ work[p].args.report # None
    /\ IF p \in Commands THEN work[p].code # ReportError ELSE work[p].code = 200

Overwriter(q) == "args" \in DOMAIN work[q] /\ work[q].args.overwrite

KeptReport(p) ==
    /\ Path(p) \in DOMAIN reports
    /\ \/ reports[Path(p)].run = work[p].run
       \/ \E q \in Commands : Overwriter(q) /\ Path(q) = Path(p) /\ reports[Path(p)].run = work[q].run

Overwritten(n) ==
    /\ n \in DOMAIN reports'
    /\ \E q \in Commands : Overwriter(q) /\ Path(q) = n /\ reports'[n].run = work[q].run

\* A name of the directory never shows half a report or a run that has not
\* ended, no two names show one run, and a saved report stays: only a command
\* told to overwrite takes its place, however the writers interleave and
\* wherever they are killed (_write_report_atomically).
ReportsWhole ==
    /\ [](\A n \in DOMAIN reports :
             reports[n].whole /\ reports[n].run.status \in {"completed", "failed"})
    /\ [](\A m, n \in DOMAIN reports : reports[m].run.id = reports[n].run.id => m = n)
    /\ [](\A p \in Processes : Saved(p) => KeptReport(p))
    /\ [][\A n \in DOMAIN reports : UNCHANGED reports[n] \/ Overwritten(n)]_vars

\* What the dataset asks of a case, said of the raw response.
Raised(response) == None \in {response.documents, response.answer}
Considered(response, o) ==
    {response.documents[i] : i \in {j \in DOMAIN response.documents : o.k = None \/ j <= o.k}}
Judged(case, response, o) ==
    \/ case.sources \union case.fragments \union case.excluded # {}
    \/ response.answer.cites # <<>> /\ o.validateCitations
Holds(case, response, o) ==
    LET seen == Considered(response, o)
        cited == ToSet(response.answer.cites)
    IN /\ IF o.requireAll THEN case.sources \subseteq seen ELSE case.sources = {} \/ case.sources \intersect seen # {}
       /\ \A f \in case.fragments : o.allFragments => f \in response.answer.text
       /\ case.fragments = {} \/ \E f \in case.fragments : f \in response.answer.text
       /\ \A f \in case.excluded : f \notin response.answer.text
       /\ case.sources # {} /\ o.requireCitations => cited # {}
       /\ o.validateCitations => cited \subseteq seen

\* How bad a case is: an error is worse than a failure, a failure than the rest.
Badness(case, response, o) ==
    IF Raised(response) THEN 2 ELSE IF Judged(case, response, o) /\ ~Holds(case, response, o) THEN 1 ELSE 0
BadnessIn(run) ==
    LET Rank == [passed |-> 0, skipped |-> 0, failed |-> 1, error |-> 2]
    IN [c \in CasesOf(run) |-> Rank[StatusOf(run, c)]]

\* A metric a threshold is set for is lost, or fell by more than it allows.
Fell(b, c, threshold) ==
    /\ threshold # None /\ b # None
    /\ c = None \/ \/ /\ threshold.absolute # None
                      /\ Below(Plus(c, threshold.absolute), b)
                   \/ /\ threshold.relative # None
                      /\ Below(Plus(c, Ratio(threshold.relative.num * b.num, threshold.relative.den * b.den)), b)

Worse(baseline, now, cases, policy) ==
    LET before == BadnessIn(baseline)
        common == DOMAIN before \intersect cases
    IN \/ \E m \in Metrics : Fell(Metric(baseline, m), Metric(now.run, m), policy.thresholds[m])
       \/ \E c \in common : /\ now.badness[c] > before[c]
                            /\ IF now.badness[c] = 1 THEN policy.newFailures ELSE policy.newErrors
       \/ \E c \in cases \ common : now.badness[c] > 0 \/ policy.added
       \/ policy.removed /\ DOMAIN before \ cases # {}

\* What a command that ended with these answers is to exit with.
CodeIsRight(w) ==
    LET o == w.args.options
        ran == DOMAIN w.run.responses
        case == w.args.dataset.cases
        badness == [i \in ran |-> Badness(case[i], w.run.responses[i], o)]
        now == [run |-> w.run,
                badness |-> [c \in {case[i].id : i \in ran} |->
                                badness[CHOOSE i \in ran : case[i].id = c]]]
        worse == \E baseline \in w.against :
                     Worse(baseline, now, DOMAIN now.badness, PolicyOf(w.args))
    IN w.code = IF worse THEN RegressionDetected
                ELSE IF \E i \in ran : badness[i] = 2 THEN CaseExecutionError
                ELSE IF \/ \E i \in ran : badness[i] = 1
                        \/ \A i \in ran : ~Judged(case[i], w.run.responses[i], o)
                THEN EvaluationFailed ELSE Success

\* The exit code of a run says what its answers were: 0 only if every answer
\* that can be judged is right, 4 if a case raised, else 1; and 8 exactly if
\* what was compared got worse by the switches given, whatever mix of statuses,
\* missing metrics, added and removed cases the two runs have
\* (exit_code_for_run, compare_evaluation_runs).
GateIsSound ==
    \A p \in Commands :
        work[p].pc = "ended" /\ work[p].run # None /\ work[p].code \notin {ReportError, ComparisonError} =>
            CodeIsRight(work[p])
=============================================================================
