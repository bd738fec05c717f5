-------------------------------- MODULE Lessons --------------------------------
(* What a terminal run teaches, and whether a compiled Policy has learnt it.

   A run of the engine leaves a trace: the conflicts the Binder found in the
   first plans, the revisions the Lead asked for, the rounds of the SQL gates,
   the statement it answered with.  memory_service.py extracts Experiences from
   the trace and from the user's verdict, auto_evolution.py admits them, and
   target_replay.py puts the question of the source run to the parent and to the
   candidate Policy and compares the two traces.

   The stages of the engine are those of AgentPipeline; here they only fill the
   trace.  A fingerprint is the thing it is of, and a statement a model value. *)
EXTENDS Integers, Sequences, FiniteSets

CONSTANTS PlanWorkers,    \* the roles whose plan the Binder checks
          Sqls,           \* statements, compared by their normal form
          NoSql,
          Worlds,         \* what the pins of a run stand for: data, wiki, index
          Fallback        \* those of them in which the index was not ready

\* A role has a name, and an answer is a statement.
LessonAssumption == "" \notin PlanWorkers /\ NoSql \notin Sqls
ASSUME LessonAssumption

ConflictCode == "missing_schema_binding"
LeadCode == "unsupported_query_contract"
GateCode == "filter_mismatch"
InfrastructureCode == "candidate_gate_runtime_failure"
Lanes == <<"source", "parent", "candidate">>

VARIABLES lane,      \* index in Lanes of the run under way
          stage,     \* of that run
          trace,     \* of the run under way
          traces,    \* of the replay, by lane
          world,
          lessons,   \* extracted from the source run
          replayed   \* the artifact of the replay, NoArtifact before it

lessonVars == <<lane, stage, trace, traces, world, lessons, replayed>>

NoArtifact == [status |-> "none"]
Blank(w) ==
  [status |-> "running", pins |-> w, initial |-> {}, requests |-> {}, changed |-> {},
   left |-> {}, approved |-> FALSE, planErrors |-> {}, rounds |-> <<>>, sql |-> NoSql,
   errors |-> {}, type |-> "DATA_QUERY", production |-> TRUE]

--------------------------------------------------------------------------------
(* Experiences (memory_service.py). *)

Experience(stageOf, agent, code) ==
  [stage |-> stageOf, agent |-> agent, code |-> code, present |-> FALSE,
   resolved |-> FALSE, changed |-> FALSE, approved |-> FALSE, gateCodes |-> {},
   sql |-> NoSql, note |-> FALSE, grade |-> "incomplete", state |-> "needs_evidence"]

\* The normal form of a corrected statement that passes the gates as they are now.
CorrectedProof(sql) == sql \in Sqls

\* The user calls the answer wrong: with a note, a statement and an owner, or less.
UserCorrections(run, feedback) ==
  IF feedback = {} THEN {}
  ELSE LET f == CHOOSE g \in feedback : TRUE
           accepted == CorrectedProof(f.sql)
           \* attribution may not blame the Critic by itself
           owner == IF f.attributed /\ f.agent = "text2sql-critic" THEN "" ELSE f.agent
           ready == f.note /\ owner # "" /\ accepted
       IN {[Experience("user-feedback", owner,
                       IF owner = "" THEN "user_correction_unattributed" ELSE "wrong_result")
            EXCEPT !.sql = IF accepted THEN f.sql ELSE NoSql, !.note = f.note,
                   !.grade = IF ready THEN "human_correction_with_gate"
                             ELSE "human_feedback_only",
                   !.state = IF ready THEN "candidate" ELSE "needs_evidence"]}

\* A request that names no code stands for an unnamed one.
RequestCodes(request) == IF request.codes = {} THEN {""} ELSE request.codes

ResolvedRevision(run, code) ==
  code # "" /\ run.approved /\ run.left = {} /\ run.planErrors = {}

InitialIssue(run, worker, code) ==
  \E c \in run.initial : c.code = code /\ c.owner = worker

\* Mutant of PlanRevision: the code need not be one the Binder had found.
PlanRevisionOfAnyCode(run, worker, code) ==
  LET proven == ResolvedRevision(run, code) /\ worker \in run.changed
  IN [Experience("plan-revisions", worker,
                 IF code = "" THEN "worker_plan_revision" ELSE code)
      EXCEPT !.present = InitialIssue(run, worker, code), !.resolved = proven,
             !.changed = worker \in run.changed, !.approved = run.approved,
             !.grade = IF proven THEN "deterministic_plan_revision" ELSE "incomplete",
             !.state = IF proven THEN "candidate" ELSE "needs_evidence"]

PlanRevision(run, worker, code) ==
  LET proven == /\ InitialIssue(run, worker, code)
                /\ worker \in run.changed
                /\ ResolvedRevision(run, code)
  IN [Experience("plan-revisions", worker,
                 IF code = "" THEN "worker_plan_revision" ELSE code)
      EXCEPT !.present = InitialIssue(run, worker, code), !.resolved = proven,
             !.changed = worker \in run.changed, !.approved = run.approved,
             !.grade = IF proven THEN "deterministic_plan_revision" ELSE "incomplete",
             !.state = IF proven THEN "candidate" ELSE "needs_evidence"]

PlanRevisions(run) ==
  IF run.requests = {} \/ ~run.approved THEN {}
  ELSE UNION {{PlanRevision(run, r.worker, code) : code \in RequestCodes(r)} :
                r \in run.requests}

RoundAccepted(round) == round = {}

\* Rejected, repaired once, accepted and answered.
SqlGateRepairs(run) ==
  IF /\ Len(run.rounds) = 2 /\ ~RoundAccepted(run.rounds[1]) /\ RoundAccepted(run.rounds[2])
     /\ run.approved /\ run.status = "success" /\ run.errors = {}
     /\ InfrastructureCode \notin run.rounds[1]
  THEN {[Experience("candidate-gates", "sql-generation", "sql_gate_repair")
         EXCEPT !.approved = TRUE, !.gateCodes = run.rounds[1],
                !.resolved = TRUE, !.grade = "deterministic_repair",
                !.state = "candidate"]}
  ELSE {}

ExtractExperiences(run, feedback) ==
  IF ~run.production \/ run.type # "DATA_QUERY" THEN {}
  ELSE UserCorrections(run, feedback) \cup PlanRevisions(run) \cup SqlGateRepairs(run)

\* The automatic gate on an Experience (auto_evolution.py).
AutomaticDecision(e) ==
  /\ e.agent # "" /\ e.state = "candidate"
  /\ \/ /\ e.grade = "deterministic_plan_revision"
        /\ e.present /\ e.resolved /\ e.changed /\ e.approved
     \/ /\ e.grade = "deterministic_repair"
        /\ e.gateCodes # {} /\ e.resolved /\ e.approved
     \/ /\ e.grade = "human_correction_with_gate"
        /\ e.note /\ e.sql # NoSql

--------------------------------------------------------------------------------
(* Target replay (target_replay.py). *)

IssueCodes(run) ==
  (run.errors \cup run.planErrors \cup {c.code : c \in run.initial \cup run.left}
   \cup (UNION {r.codes : r \in run.requests})
   \cup (UNION {run.rounds[i] : i \in DOMAIN run.rounds})) \ {""}

PlanRevisionProof(e) ==
  e.code # "worker_plan_revision" /\ e.present /\ e.resolved /\ e.changed /\ e.approved
SqlRepairProof(e) == e.code = "sql_gate_repair" /\ e.gateCodes # {} /\ e.approved

HasReplayProof(e) ==
  CASE e.stage = "user-feedback" -> e.sql # NoSql
    [] e.stage = "candidate-gates" -> SqlRepairProof(e)
    [] e.stage = "plan-revisions" -> PlanRevisionProof(e)

\* What the artifact says it saw of the problem.
Signal(e, run) ==
  IF ~HasReplayProof(e) THEN [about |-> "unavailable"]
  ELSE CASE e.stage = "candidate-gates" ->
              [about |-> "sql_generation_repairs", count |-> IF Len(run.rounds) = 2 THEN 1 ELSE 0]
         [] e.stage = "plan-revisions" ->
              [about |-> "revision_issue_present", holds |-> e.code \in IssueCodes(run)]
         [] e.stage = "user-feedback" ->
              [about |-> "expected_correction_fingerprint_match", holds |-> run.sql = e.sql]

\* What the signal says of the problem; "?" when it says nothing.
SignalState(signal) ==
  CASE signal.about = "unavailable" -> "?"
    [] signal.about = "sql_generation_repairs" -> IF signal.count > 0 THEN "yes" ELSE "no"
    [] signal.about = "revision_issue_present" -> IF signal.holds THEN "yes" ELSE "no"
    [] signal.about = "expected_correction_fingerprint_match" ->
         IF signal.holds THEN "no" ELSE "yes"

\* Is the problem of the Experience there in this run?  A run without a statement
\* has not the corrected one.
ProblemPresent(e, run) ==
  IF ~HasReplayProof(e) THEN "?"
  ELSE LET present == CASE e.stage = "user-feedback" -> run.sql # e.sql
                        [] e.stage = "candidate-gates" -> Len(run.rounds) = 2
                        [] e.stage = "plan-revisions" -> e.code \in IssueCodes(run)
       IN IF present THEN "yes" ELSE "no"

\* Mutant of FailureReasons: what else the candidate does is not looked at.
FailureReasonsOfSource(row) ==
  (IF row.baseline # "yes" THEN {"baseline_source_problem_not_reproduced"} ELSE {})
  \cup (IF row.candidate # "no" THEN {"candidate_source_problem_still_present"} ELSE {})
  \cup (IF row.safe THEN {} ELSE {"candidate_not_safely_executable"})

FailureReasons(row) ==
  (IF row.baseline # "yes" THEN {"baseline_source_problem_not_reproduced"} ELSE {})
  \cup (IF row.candidate # "no" THEN {"candidate_source_problem_still_present"} ELSE {})
  \cup (IF row.safe THEN {} ELSE {"candidate_not_safely_executable"})
  \cup (IF row.newIssues # {} THEN {"candidate_introduced_new_issue_codes"} ELSE {})

Row(e, parent, candidate) ==
  [experience |-> e,
   baseline |-> ProblemPresent(e, parent), candidate |-> ProblemPresent(e, candidate),
   baselineSignal |-> Signal(e, parent), candidateSignal |-> Signal(e, candidate),
   baselineIssues |-> IssueCodes(parent), candidateIssues |-> IssueCodes(candidate),
   newIssues |-> IssueCodes(candidate) \ IssueCodes(parent),
   safe |-> candidate.status = "success" /\ candidate.errors = {}]

EvaluateTargetReplay(parent, candidate) ==
  LET rows == {Row(e, parent, candidate) : e \in lessons}
  IN [status |-> IF \A r \in rows : FailureReasons(r) = {} THEN "passed" ELSE "failed",
      rows |-> rows,
      reasons |-> [r \in rows |-> FailureReasons(r)]]

\* The store and the release gate work an artifact out again before they use it.
ValidArtifact(a) ==
  /\ a.rows # {}
  /\ \A r \in a.rows :
       /\ r.baseline = SignalState(r.baselineSignal)
       /\ r.candidate = SignalState(r.candidateSignal)
       /\ r.newIssues = r.candidateIssues \ r.baselineIssues
       /\ a.reasons[r] = FailureReasons(r)
  /\ a.status = IF \A r \in a.rows : a.reasons[r] = {} THEN "passed" ELSE "failed"

\* The lanes of a replay differ in their Policy only, and need a retrieval index.
ReplayIdentity(pins) == pins \notin Fallback

\* The source run is replayed only in the world it was asked in.
SourceCase == trace.pins = world /\ ReplayIdentity(world)

--------------------------------------------------------------------------------
(* The engine, and the replay of what was learnt. *)

LessonInit ==
  /\ lane = 1 /\ stage = "plan" /\ world \in Worlds
  /\ \E production \in BOOLEAN, type \in {"DATA_QUERY", "RESULT_QA"} :
       trace = [Blank(world) EXCEPT !.production = production, !.type = type]
  /\ lessons = {} /\ replayed = NoArtifact /\ traces = <<>>

\* Bind, revise what is in conflict or what the Lead objects to, and approve.
PlanQuery ==
  /\ stage = "plan"
  /\ \E initial \in SUBSET {[code |-> ConflictCode, owner |-> w] : w \in PlanWorkers},
        asked \in SUBSET PlanWorkers, lead \in SUBSET {LeadCode}, approved \in BOOLEAN :
     \E changed \in SUBSET asked, left \in SUBSET initial :
       /\ asked = {} => (lead = {} /\ left = initial)
       /\ approved => left = {}
       /\ trace' = [trace EXCEPT
            !.initial = initial, !.left = left, !.changed = changed, !.approved = approved,
            !.requests = {[worker |-> w, codes |-> lead \cup
                             {c.code : c \in {d \in initial : d.owner = w}}] : w \in asked},
            !.planErrors = IF approved THEN {} ELSE {"lead_plan_not_approved"},
            !.status = IF approved THEN "running" ELSE "rejected",
            !.errors = IF approved THEN {} ELSE {"missing_or_invalid_approved_query_plan"}]
       /\ stage' = IF approved THEN "generate" ELSE "end"
  /\ UNCHANGED <<lane, traces, world, lessons, replayed>>

RoundsOfTheGates ==
  {<<{}>>} \cup {<<{code}, second>> : code \in {GateCode, InfrastructureCode},
                                     second \in {{}, {GateCode}}}

\* The first round of the gates and, when all its candidates are rejected, a second.
GenerateSql ==
  /\ stage = "generate"
  /\ \E rounds \in RoundsOfTheGates :
       IF RoundAccepted(rounds[Len(rounds)])
       THEN /\ trace' = [trace EXCEPT !.rounds = rounds]
            /\ stage' = "select"
       ELSE /\ trace' = [trace EXCEPT !.rounds = rounds, !.status = "rejected",
                                      !.errors = {"no_accepted_sql_candidate"}]
            /\ stage' = "end"
  /\ UNCHANGED <<lane, traces, world, lessons, replayed>>

\* The Critic rejects all candidates, or one is executed.
AnswerQuery ==
  /\ stage = "select" /\ stage' = "end"
  /\ \/ \E sql \in Sqls : trace' = [trace EXCEPT !.status = "success", !.sql = sql]
     \/ trace' = [trace EXCEPT !.status = "rejected",
                               !.errors = {"critic_rejected_all_candidates"}]
  /\ UNCHANGED <<lane, traces, world, lessons, replayed>>

\* How the user may call it wrong.
Verdicts ==
  [note : BOOLEAN, sql : Sqls \cup {NoSql}, attributed : BOOLEAN,
   agent : {"", "sql-generation", "text2sql-critic"}]

\* The source run has ended: the user may call it wrong, and its lessons are kept.
Extract ==
  /\ lane = 1 /\ stage = "end" /\ stage' = "extracted"
  /\ \E feedback \in {{}} \cup {{f} : f \in Verdicts} :
       lessons' = ExtractExperiences(trace, feedback)
  /\ UNCHANGED <<lane, trace, traces, world, replayed>>

\* The Policy of the admitted lessons is compiled; its replay first asks the question
\* of the source run under the parent.
ReplayLessons ==
  /\ stage = "extracted"
  /\ LET admitted == {e \in lessons : AutomaticDecision(e) /\ HasReplayProof(e)}
     IN admitted # {} /\ lessons' = admitted
  /\ SourceCase
  /\ lane' = 2 /\ stage' = "plan" /\ trace' = Blank(world)
  /\ UNCHANGED <<traces, world, replayed>>

\* The runner of a lane raises.
LaneFails ==
  /\ lane > 1 /\ stage = "plan" /\ trace = Blank(trace.pins)
  /\ trace' = [trace EXCEPT !.status = "failed",
                            !.errors = {IF lane = 2 THEN "target_replay_parent_runtime_failure"
                                        ELSE "target_replay_candidate_runtime_failure"}]
  /\ stage' = "end"
  /\ UNCHANGED <<lane, traces, world, lessons, replayed>>

NextLane ==
  /\ lane = 2 /\ stage = "end"
  /\ lane' = 3 /\ stage' = "plan" /\ traces' = <<trace>> /\ trace' = Blank(trace.pins)
  /\ UNCHANGED <<world, lessons, replayed>>

CompareLanes ==
  /\ lane = 3 /\ stage = "end" /\ stage' = "replayed"
  /\ traces' = Append(traces, trace)
  /\ LET artifact == EvaluateTargetReplay(traces[1], trace)
     IN replayed' = IF ValidArtifact(artifact) THEN artifact ELSE [status |-> "refused"]
  /\ UNCHANGED <<lane, trace, world, lessons>>

\* Data, wiki or index are rebuilt.
WorldMoves ==
  /\ stage = "extracted"
  /\ world' \in Worlds \ {world}
  /\ UNCHANGED <<lane, stage, trace, traces, lessons, replayed>>

LessonNext ==
  \/ PlanQuery \/ GenerateSql \/ AnswerQuery \/ Extract
  \/ ReplayLessons \/ LaneFails \/ NextLane \/ CompareLanes \/ WorldMoves

LessonSpec == LessonInit /\ [][LessonNext]_lessonVars

--------------------------------------------------------------------------------
(* A lesson that is a candidate is one that can be used: the automatic gate admits
   it, a replay has a proof to work with, and it finds the problem in the very run
   the lesson was drawn from - but for a correction to the statement the run had
   answered with, which no replay can reproduce. *)
LessonsReproduce ==
  stage = "extracted" =>
    \A e \in lessons : e.state = "candidate" =>
      /\ AutomaticDecision(e) /\ HasReplayProof(e)
      /\ \/ ProblemPresent(e, trace) = "yes"
         \/ e.stage = "user-feedback" /\ e.sql = trace.sql

(* A replay that passes shows the problem of every lesson in the parent's run and
   not in the candidate's, which succeeds and has no trouble the parent had not;
   and no artifact it writes is refused by the store. *)
ReplayVerdictIsSound ==
  /\ replayed.status # "refused"
  /\ replayed.status = "passed" =>
       LET parent == traces[1]
           candidate == traces[2]
           objected(run) == {c.code : c \in run.initial} \cup UNION {r.codes : r \in run.requests}
           rejected(run) == UNION {run.rounds[i] : i \in DOMAIN run.rounds}
       IN /\ candidate.status = "success" /\ candidate.pins = parent.pins
          /\ objected(candidate) \subseteq objected(parent) \cup rejected(parent)
          /\ rejected(candidate) \subseteq objected(parent) \cup rejected(parent)
          /\ \A e \in lessons :
               \/ /\ e.stage = "user-feedback"
                  /\ candidate.sql = e.sql /\ parent.sql # e.sql
               \/ /\ e.stage = "candidate-gates"
                  /\ rejected(parent) # {} /\ rejected(candidate) = {}
               \/ /\ e.stage = "plan-revisions"
                  /\ e.code \in objected(parent) \ objected(candidate)

(* docs/text2sql/MEMORY_EVOLUTION_MVP_RUNBOOK.md: the baseline must reproduce the
   problem of the source run.  A lane whose runner raised reproduces nothing. *)
BaselineReproduces ==
  replayed.status = "passed" => traces[1].status # "failed"
================================================================================
