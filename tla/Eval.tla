-------------------------------- MODULE Eval --------------------------------
(* `agentworks eval`: for every artifact the case files are loaded and       *)
(* validated, the settings in force are worked out, and every selected case  *)
(* is sent to the project's runner as often as it asks for; the response is  *)
(* parsed under the runner's protocol, checked against the assertions and,   *)
(* if there is a rubric, graded by the judge. cmd/eval.go, internal/evalspec *)
(*                                                                           *)
(* A case says which kinds of assertions it makes; an output of the runner   *)
(* says which of them it satisfies. Wording, lengths, regular expressions,   *)
(* durations and token counts are abstracted.                                *)
EXTENDS Integers, Sequences, FiniteSets

CONSTANTS
  EvalArtifact,    \* the names of the artifacts found, in order; two kinds may share one
  CaseName,        \* the names a case may have
  Suite,           \* what may be in an artifact's evals/ directory and frontmatter
  ProjectDefault,  \* the eval blocks agentworks.yaml may have
  CaseFilter,      \* values of --case
  NoCase           \* no case, no filter

VARIABLES
  suites,          \* index of an artifact -> its suite
  evalProject,     \* the project's defaults
  caseFilter,      \* --case
  evalAt,          \* index of the artifact being evaluated
  caseAt,          \* index of the case at hand, 0 while its artifact is not loaded
  evalRuns,        \* the runs of the case at hand: did each of them pass?
  merits,          \* history: which of those runs deserved to pass
  evalResults,     \* recorded results, in order; with history: whose, and was it deserved?
  evalCounts,      \* [ran, failed, skipped]
  exitStatus       \* "none" until the command has returned

evalInputs == <<suites, evalProject, caseFilter>>
evalVars == <<evalInputs, evalAt, caseAt, evalRuns, merits, evalResults, evalCounts, exitStatus>>

\* What a case file and a frontmatter may say, valid or not, and what a manifest
\* may: project.Load refuses a negative number of runs.
Case == [name : CaseName, text : BOOLEAN, calls : BOOLEAN, activation : BOOLEAN, rubric : BOOLEAN,
         runs : Int, threshold : Int]
SuiteFile == [cases : Seq(Case), runner : BOOLEAN, judge : BOOLEAN, protocol : STRING]
EvalBlock == [runner : BOOLEAN, judge : BOOLEAN, protocol : STRING, runs : Nat]

ASSUME EvalAssumption ==
  /\ Len(EvalArtifact) \in Nat
  /\ Suite \subseteq SuiteFile /\ ProjectDefault \subseteq EvalBlock

Reported == {"absent", "good", "bad"}

\* What a runner may do: fail, run out of time, print something that is not one
\* JSON object with a "text", or print one, with or without its trace.
Output ==
  [exit : {"error", "timeout"}, object : {FALSE}, text : {FALSE}, calls : {"absent"}, activated : {"absent"}]
    \cup [exit : {"ok"}, object : {FALSE}, text : BOOLEAN, calls : {"absent"}, activated : {"absent"}]
    \cup [exit : {"ok"}, object : {TRUE}, text : BOOLEAN, calls : Reported, activated : Reported]

\* What a judge may do: fail, print no verdict, or decide.
Verdict == {"error", "unusable", "pass", "reject"}

\* Case.NeedsTrace: assertions only a json runner can report on.
NeedsTrace(c) == c.calls \/ c.activation

AssertsSomething(c) == c.text \/ NeedsTrace(c) \/ c.rubric

\* Case.validate: the errors loadFile returns for a case.
Valid(c) ==
  /\ c.name # NoCase
  /\ c.runs >= 0 /\ c.threshold \in 0 .. 100
  /\ AssertsSomething(c)

\* LoadDir: all files or none; a name may be used once.
Loads(suite) ==
  /\ \A i \in DOMAIN suite.cases : Valid(suite.cases[i])
  /\ \A i, j \in DOMAIN suite.cases : suite.cases[i].name = suite.cases[j].name => i = j

\* evalSettings.forArtifact: the frontmatter wins over the project, the rest
\* has built-in defaults. An empty string is FALSE here, zero is zero.
ForArtifact(suite) ==
  [runner |-> suite.runner \/ evalProject.runner,
   judge |-> suite.judge \/ evalProject.judge,
   protocol |-> CASE suite.protocol # "" -> suite.protocol
                  [] suite.protocol = "" /\ evalProject.protocol # "" -> evalProject.protocol
                  [] OTHER -> "text",
   runs |-> IF evalProject.runs = 0 THEN 1 ELSE evalProject.runs]

ValidProtocol(p) == p \in {"text", "json"}

\* An artifact whose files or settings are refused.
Unusable(suite) ==
  ~Loads(suite) \/ (suite.cases # <<>> /\ ~ValidProtocol(ForArtifact(suite).protocol))

EvalSuite == suites[evalAt]
EvalConfig == ForArtifact(EvalSuite)
EvalCase == EvalSuite.cases[caseAt]

\* ParseResponse: what Evaluate gets to see, or "unparsed".
ParseResponse(protocol, out) ==
  IF protocol = "text" THEN [parsed |-> TRUE, text |-> out.text, calls |-> "absent", activated |-> "absent"]
  ELSE [parsed |-> out.object, text |-> out.text, calls |-> out.calls, activated |-> out.activated]

\* evaluateText
TextReasons(c, resp) == IF c.text /\ ~resp.text THEN {"text"} ELSE {}

\* Mutant: an absent list is read as an empty one.
TraceAbsentPasses(c, resp) ==
  (IF c.calls /\ resp.calls = "bad" THEN {"calls"} ELSE {})
    \cup (IF c.activation /\ resp.activated = "bad" THEN {"activation"} ELSE {})

\* evaluateTrace: what was not reported cannot be checked, and is a failure; the
\* other trace assertions are then not looked at.
TraceReasons(c, resp) ==
  LET missing == (IF c.calls /\ resp.calls = "absent" THEN {"no tool_calls"} ELSE {})
                   \cup (IF c.activation /\ resp.activated = "absent" THEN {"no activated"} ELSE {})
      wrong == (IF c.calls /\ resp.calls = "bad" THEN {"calls"} ELSE {})
                 \cup (IF c.activation /\ resp.activated = "bad" THEN {"activation"} ELSE {})
  IN IF missing # {} THEN missing ELSE wrong

\* ParseVerdict and the switch over it.
JudgeReasons(c, verdict) ==
  IF c.rubric /\ verdict # "pass" THEN {"judge " \o verdict} ELSE {}

\* runEvalCaseOnce: the reasons why a run fails, none if it passes.
RunOnce(c, out, verdict) ==
  LET resp == ParseResponse(EvalConfig.protocol, out)
  IN IF NeedsTrace(c) /\ EvalConfig.protocol # "json" THEN {"protocol"}
     ELSE IF c.rubric /\ ~EvalConfig.judge THEN {"no judge"}
     ELSE IF out.exit # "ok" THEN {"runner failed"}
     ELSE IF ~resp.parsed THEN {"response"}
     ELSE TextReasons(c, resp) \cup TraceReasons(c, resp) \cup JudgeReasons(c, verdict)

\* The same question asked of the case and the facts, for the history: did the
\* runner answer, was every assertion checkable, and does each of them hold?
Deserves(c, out, verdict) ==
  /\ out.exit = "ok"
  /\ EvalConfig.protocol = "json" => out.object
  /\ c.text => out.text
  /\ c.calls => EvalConfig.protocol = "json" /\ out.calls = "good"
  /\ c.activation => EvalConfig.protocol = "json" /\ out.activated = "good"
  /\ c.rubric => EvalConfig.judge /\ verdict = "pass"

\* runEvalCaseRepeatedly: how often, and how many of them must pass.
RunsOf(c, cfg) == IF c.runs = 0 THEN cfg.runs ELSE c.runs
WantedRuns(c) == RunsOf(c, EvalConfig)
Threshold(c) == IF c.threshold = 0 THEN 100 ELSE c.threshold

PassingRuns(outcomes) == Cardinality({i \in DOMAIN outcomes : outcomes[i]})

\* caseResult.passed: the fraction of passing runs reaches the threshold. The code
\* compares floats with a tolerance of 1e-9; here both sides are hundredths.
CasePassed(c, outcomes) == outcomes # <<>> /\ PassingRuns(outcomes) * 100 >= Threshold(c) * Len(outcomes)

\* --case leaves every case, or the one of that name.
Chosen(c) == caseFilter \in {NoCase, c.name}

-----------------------------------------------------------------------------
EvalInit ==
  /\ suites \in [1 .. Len(EvalArtifact) -> Suite]
  /\ evalProject \in ProjectDefault
  /\ caseFilter \in CaseFilter
  /\ evalAt = 1 /\ caseAt = 0 /\ evalRuns = <<>> /\ merits = <<>> /\ evalResults = <<>>
  /\ evalCounts = [ran |-> 0, failed |-> 0, skipped |-> 0]
  /\ exitStatus = "none"

\* The closure record: every result is counted once, by its outcome. The caller
\* counts the cases that ran.
RecordResult(name, outcome, runs, deserved, ran) ==
  /\ evalResults' = Append(evalResults, [at |-> evalAt, caseAt |-> caseAt, case |-> name, outcome |-> outcome,
                                         runs |-> runs, deserved |-> deserved])
  /\ evalCounts' = [ran |-> evalCounts.ran + ran,
                    failed |-> evalCounts.failed + (IF outcome = "failed" THEN 1 ELSE 0),
                    skipped |-> evalCounts.skipped + (IF outcome = "skipped" THEN 1 ELSE 0)]

Evaluating == exitStatus = "none" /\ evalAt <= Len(EvalArtifact)

\* The next artifact: it has no cases, or a file or a setting that is wrong makes
\* one failed result, or its cases are taken up.
LoadArtifact ==
  /\ Evaluating /\ caseAt = 0
  /\ IF Unusable(EvalSuite) THEN RecordResult(NoCase, "failed", 0, FALSE, 0)
                            ELSE UNCHANGED <<evalResults, evalCounts>>
  /\ IF Unusable(EvalSuite) \/ EvalSuite.cases = <<>>
       THEN evalAt' = evalAt + 1 /\ UNCHANGED caseAt
       ELSE caseAt' = 1 /\ UNCHANGED evalAt
  /\ UNCHANGED <<evalInputs, evalRuns, merits, exitStatus>>

\* Go on to the next case, or from the last one to the next artifact.
NextCase ==
  IF caseAt < Len(EvalSuite.cases) THEN caseAt' = caseAt + 1 /\ UNCHANGED evalAt
                                   ELSE caseAt' = 0 /\ evalAt' = evalAt + 1

\* --case names another one.
PassOverCase ==
  /\ Evaluating /\ caseAt # 0 /\ ~Chosen(EvalCase)
  /\ NextCase
  /\ UNCHANGED <<evalInputs, evalRuns, merits, evalResults, evalCounts, exitStatus>>

\* No runner for this artifact: the case is skipped.
SkipCase ==
  /\ Evaluating /\ caseAt # 0 /\ Chosen(EvalCase) /\ ~EvalConfig.runner
  /\ RecordResult(EvalCase.name, "skipped", 0, FALSE, 0)
  /\ NextCase
  /\ UNCHANGED <<evalInputs, evalRuns, merits, exitStatus>>

\* One run of the case; the last one settles the result.
RunCase(out, verdict) ==
  LET outcomes == Append(evalRuns, RunOnce(EvalCase, out, verdict) = {})
      deserving == Append(merits, Deserves(EvalCase, out, verdict))
  IN /\ Evaluating /\ caseAt # 0 /\ Chosen(EvalCase) /\ EvalConfig.runner
     /\ IF Len(outcomes) < WantedRuns(EvalCase)
          THEN evalRuns' = outcomes /\ merits' = deserving /\ UNCHANGED <<evalResults, evalCounts, caseAt, evalAt>>
          ELSE /\ evalRuns' = <<>> /\ merits' = <<>>
               /\ RecordResult(EvalCase.name, IF CasePassed(EvalCase, outcomes) THEN "passed" ELSE "failed",
                               Len(outcomes), CasePassed(EvalCase, deserving), 1)
               /\ NextCase
     /\ UNCHANGED <<evalInputs, exitStatus>>

\* The report is written, which may fail, and the command returns.
FinishEval(written) ==
  /\ exitStatus = "none" /\ evalAt > Len(EvalArtifact)
  /\ exitStatus' = IF ~written THEN "error" ELSE IF evalCounts.failed > 0 THEN "failed" ELSE "ok"
  /\ UNCHANGED <<evalInputs, evalAt, caseAt, evalRuns, merits, evalResults, evalCounts>>

\* WriteJUnit: the counters of the whole report, and those of its suites, one for
\* every name: artifacts of two kinds that share a name share a suite.
OfOutcome(results, outcome) == {i \in results : evalResults[i].outcome = outcome}
Counted(results) ==
  [tests |-> Cardinality(results),
   failures |-> Cardinality(OfOutcome(results, "failed")),
   skipped |-> Cardinality(OfOutcome(results, "skipped"))]
NameOf(i) == EvalArtifact[evalResults[i].at]
Junit ==
  [doc |-> Counted(DOMAIN evalResults),
   suite |-> [n \in {NameOf(i) : i \in DOMAIN evalResults} |->
                Counted({i \in DOMAIN evalResults : NameOf(i) = n})]]

EvalNext ==
  \/ LoadArtifact
  \/ PassOverCase
  \/ SkipCase
  \/ \E out \in Output, verdict \in Verdict : RunCase(out, verdict)
  \/ \E written \in BOOLEAN : FinishEval(written)

EvalSpec == EvalInit /\ [][EvalNext]_evalVars

-----------------------------------------------------------------------------
\* Type invariant; a case is only at hand while its artifact is and is fit to be
\* run, and it is settled as soon as it has had all its runs.
EvalTypeOK ==
  /\ suites \in [1 .. Len(EvalArtifact) -> Suite]
  /\ evalAt \in 1 .. Len(EvalArtifact) + 1
  /\ caseAt # 0 => /\ evalAt <= Len(EvalArtifact) /\ ~Unusable(EvalSuite)
                   /\ caseAt \in DOMAIN EvalSuite.cases
                   /\ Len(evalRuns) < WantedRuns(EvalCase)
  /\ evalRuns \in Seq(BOOLEAN) /\ merits \in Seq(BOOLEAN) /\ Len(merits) = Len(evalRuns)
  /\ evalRuns # <<>> => caseAt # 0
  /\ exitStatus \in {"none", "ok", "failed", "error"}

\* A case is reported as passed exactly if enough of its runs had an answer for
\* which every assertion could be checked and holds: a trace that is not reported,
\* a judge that fails or a runner that times out never counts as a pass, and
\* nothing that holds is reported as a failure (runEvalCaseOnce, caseResult.passed).
OutcomeIsDeserved ==
  \A i \in DOMAIN evalResults :
    evalResults[i].case # NoCase /\ evalResults[i].outcome # "skipped"
      => ((evalResults[i].outcome = "passed") <=> evalResults[i].deserved)

\* r is the result of a selected case, skipped without a runner and run as often as
\* asked for with one; or it says that an artifact's files or settings are wrong.
StandsForOne(r) ==
  LET c == suites[r.at].cases[r.caseAt]
      cfg == ForArtifact(suites[r.at])
  IN /\ r.at \in DOMAIN suites
     /\ IF Unusable(suites[r.at]) THEN r.caseAt = 0 /\ r.case = NoCase /\ r.outcome = "failed"
        ELSE /\ r.caseAt \in DOMAIN suites[r.at].cases /\ r.case = c.name /\ Chosen(c)
             /\ IF cfg.runner THEN r.outcome # "skipped" /\ r.runs = RunsOf(c, cfg)
                              ELSE r.outcome = "skipped"

\* The order of the artifacts, and of an artifact's cases.
Before(r, s) == r.at < s.at \/ (r.at = s.at /\ r.caseAt < s.caseAt)

IsReported(a, c) == \E i \in DOMAIN evalResults : evalResults[i].at = a /\ evalResults[i].caseAt = c

\* All that artifact a has to report: that it is unusable, or each selected case.
AllReported(a) ==
  IF Unusable(suites[a]) THEN IsReported(a, 0)
  ELSE \A c \in DOMAIN suites[a].cases : Chosen(suites[a].cases[c]) => IsReported(a, c)

\* Every result stands for one thing, and they are in the order of the artifacts and
\* of their cases, so that nothing is reported twice; and when the command has
\* returned nothing is missing, although failures and skipped cases lie in between
\* (evalCmd's loops).
EveryCaseReported ==
  /\ \A i \in DOMAIN evalResults : StandsForOne(evalResults[i])
  /\ \A i, j \in DOMAIN evalResults : i < j => Before(evalResults[i], evalResults[j])
  /\ exitStatus # "none" => \A a \in DOMAIN suites : AllReported(a)

\* The exit status, the counters of the JSON summary and those of the JUnit report
\* tell the same story: no failed result is behind a successful exit, whichever way
\* the failure came about (evalCmd, WriteJUnit).
ReportsAgree ==
  /\ exitStatus = "ok" => \A n \in DOMAIN Junit.suite : Junit.suite[n].failures = 0
  /\ exitStatus = "failed" => \E n \in DOMAIN Junit.suite : Junit.suite[n].failures > 0
  /\ evalCounts.failed = Junit.doc.failures /\ evalCounts.skipped = Junit.doc.skipped
  /\ evalCounts.ran + evalCounts.skipped
       = Cardinality({i \in DOMAIN evalResults : evalResults[i].case # NoCase})

\* What the command reports is deserved, complete and the same in every report.
EvaluationIsTrue == EvalTypeOK /\ OutcomeIsDeserved /\ EveryCaseReported /\ ReportsAgree
=============================================================================
