---------------------------- MODULE ShadowRelease ----------------------------
(***************************************************************************)
(* The release of a candidate Policy: evoagent/text2sql/shadow.py and the   *)
(* policy versions of evoagent/text2sql/evolution.py, which share one       *)
(* SQLite database.                                                        *)
(*                                                                         *)
(* Queries run concurrently in web or CLI processes: each one looks for a   *)
(* running deployment, runs the stable and the candidate Policy, records    *)
(* the difference and may move the deployment.  Operators evaluate,         *)
(* configure, review, approve, start the canary, activate and roll back.    *)
(*                                                                         *)
(* An operation reads its guards in autocommit mode and writes in a later   *)
(* transaction that does not look at them again, so each is two steps: one  *)
(* that checks and remembers, one that writes.  Recording an observation is *)
(* the exception: its insert, counters and transition are one transaction.  *)
(***************************************************************************)
EXTENDS Integers, FiniteSets

CONSTANTS
    Policies,         \* policy versions (content hashes)
    Baseline,         \* the policy bootstrap approves
    Compiled,         \* policies proposed by the SemanticRule compilation
    Deployments,      \* deployment ids (uuids)
    NoDeployment,     \* a frame that refers to no deployment
    Tasks,            \* task keys
    NoTask,           \* a frame that refers to no task
    Sampled,          \* the tasks whose bucket is below the percentages
    Environments,     \* database, index, memory, model and runtime versions
    Queries,          \* threads that execute queries
    Operators,        \* people and scripts that run management commands
    MinShadow,        \* min_shadow_samples
    MinCanary,        \* min_canary_samples
    DisagreementPercent,  \* max_result_disagreement_rate
    FailurePercent        \* max_candidate_failure_rate

ASSUME ReleaseAssumption ==
    /\ Baseline \in Policies
    /\ Compiled \subseteq Policies
    /\ Sampled \subseteq Tasks
    /\ NoTask \notin Tasks /\ NoDeployment \notin Deployments
    /\ MinShadow \in Nat \ {0} /\ MinCanary \in Nat \ {0}
    /\ DisagreementPercent \in 0 .. 100 /\ FailurePercent \in 0 .. 100

VARIABLES
    env,          \* the versions a process finds when it starts
    active,       \* evolution_metadata.active_policy_version
    policies,     \* the rows of policy_versions
    deployments,  \* the rows of shadow_deployments
    observations, \* the rows of shadow_observations
    audit,        \* the rows of activation_audit
    query,        \* the Python frame of each query
    operator      \* the guards each operator has checked

tables == <<active, policies, deployments, observations, audit>>
vars   == <<env, tables, query, operator>>

Lanes    == {"stable", "canary"}
\* compare_shadow_results: the same; another SQL or evidence, the same result; another
\* result; the candidate failed; both refused the question for the same unsafe SQL.
Diffs    == {"same", "changed", "different", "failed", "unsafe"}
Failures == {"failed", "unsafe"}        \* candidate_failed
Disagreements == {"different", "failed"} \* not result_equivalent
Verdicts == {"equivalent", "reject"}  \* also for candidate_better and stable_better

Sampling == {"shadow_running", "canary_running"}
Open     == Sampling \cup {"shadow_review", "shadow_passed"}
Closed   == {"canary_passed", "stable", "superseded", "rolled_back"}

PolicyType ==
    [status : {"absent", "candidate", "evaluated", "shadow_ready", "shadow_running",
               "shadow_review", "canary_ready", "canary_running", "canary_passed",
               "shadow_rejected", "shadow_superseded", "approved", "retired"},
     parent : Policies,
     passed : SUBSET Environments]  \* where the latest evolution_runs row passed, if it did

DeploymentType ==
    [status : Open \cup Closed \cup {"absent"}, stable : Policies, candidate : Policies,
     pins : Environments, samples : Nat, failures : Nat, disagreements : Nat,
     canarySamples : Nat, canaryFailures : Nat]

ObservationType ==
    [review : {"absent", "not_required", "pending", "reviewed"}, diff : Diffs,
     verdict : Verdicts \cup {""}]

QueryType ==
    [pc : {"idle", "assign", "drift", "stable", "run", "record", "insert", "advance",
           "settle", "answer", "done"},
     task : Tasks \cup {NoTask},
     env : Environments, policy : Policies,              \* read when the query started
     deployment : Deployments \cup {NoDeployment}, lane : Lanes,   \* its assignment
     diff : Diffs,                                       \* of the two results
     decision : {"stay", "rollback", "shadow_review", "canary_passed"},
     answered : {"none", "stable", "candidate"}]

OperatorType ==
    [todo : {"nothing", "evaluate", "configure", "review", "approve", "reject", "canary",
             "activate", "automatic", "rollback"},
     policy : Policies, deployment : Deployments \cup {NoDeployment},
     task : Tasks \cup {NoTask}, verdict : Verdicts, env : Environments, previous : Policies]

AnyEnvironment == CHOOSE e \in Environments : TRUE

Idle(pc) ==
    [pc |-> pc, task |-> NoTask, env |-> AnyEnvironment, policy |-> Baseline,
     deployment |-> NoDeployment, lane |-> "stable", diff |-> "same",
     decision |-> "stay", answered |-> "none"]

Nothing ==
    [todo |-> "nothing", policy |-> Baseline, deployment |-> NoDeployment, task |-> NoTask,
     verdict |-> "equivalent", env |-> AnyEnvironment, previous |-> Baseline]

Init ==
    /\ env \in Environments
    /\ active = Baseline
    /\ policies = [p \in Policies |->
          [status |-> IF p = Baseline THEN "approved" ELSE "absent",
           parent |-> Baseline, passed |-> {}]]
    /\ deployments = [d \in Deployments |->
          [status |-> "absent", stable |-> Baseline, candidate |-> Baseline,
           pins |-> AnyEnvironment, samples |-> 0, failures |-> 0, disagreements |-> 0, canarySamples |-> 0,
           canaryFailures |-> 0]]
    /\ observations = [o \in Deployments \X Tasks \X Lanes |->
          [review |-> "absent", diff |-> "same", verdict |-> ""]]
    /\ audit = {}
    /\ query = [q \in Queries |-> Idle("idle")]
    /\ operator = [o \in Operators |-> Nothing]

Log(action, from, to) == audit' = audit \cup {<<action, from, to>>}

SetStatus(p, status) == policies' = [policies EXCEPT ![p].status = status]

(***************************************************************************)
(* What an observation does to its deployment.                             *)
(***************************************************************************)
Recorded(o) == observations[o].review # "absent"

Exceeds(count, percent, samples) == count * 100 > percent * samples

\* The decision of _advance_or_rollback for the deployment row it has read.  slow
\* stands for the comparison of the two P95 latencies.
Decision(row, diff, slow) ==
    CASE diff \in Failures -> "rollback"
      [] diff \notin Failures /\ row.status = "shadow_running" ->
           IF row.samples < MinShadow THEN "stay"
           ELSE IF \/ Exceeds(row.failures, FailurePercent, row.samples)
                   \/ Exceeds(row.disagreements, DisagreementPercent, row.samples)
                   \/ slow
                THEN "rollback" ELSE "shadow_review"
      [] diff \notin Failures /\ row.status = "canary_running" ->
           IF row.canarySamples < MinCanary THEN "stay"
           ELSE IF Exceeds(row.canaryFailures, FailurePercent, row.canarySamples)
                THEN "rollback" ELSE "canary_passed"
      [] OTHER -> "stay"

\* Mutant of Settle: the candidate keeps its status.
SettleDeploymentOnly(d, row, decision) ==
    /\ deployments' = [deployments EXCEPT ![d] =
         [row EXCEPT !.status = CASE decision = "rollback" -> "rolled_back"
                                  [] decision = "stay" -> row.status
                                  [] OTHER -> decision]]
    /\ UNCHANGED <<policies, audit>>

\* The writes that follow the decision; row is the deployment with its counters.
Settle(d, row, decision) ==
    CASE decision = "rollback" ->
           /\ deployments' = [deployments EXCEPT ![d] = [row EXCEPT !.status = "rolled_back"]]
           /\ SetStatus(row.candidate, "shadow_rejected")
           /\ Log("automatic_release_rollback", row.candidate, row.stable)
      [] decision \in {"shadow_review", "canary_passed"} ->
           /\ deployments' = [deployments EXCEPT ![d] = [row EXCEPT !.status = decision]]
           /\ SetStatus(row.candidate, decision)
           /\ UNCHANGED audit
      [] decision = "stay" ->
           /\ deployments' = [deployments EXCEPT ![d] = row]
           /\ UNCHANGED <<policies, audit>>

\* _rollback, whatever the status of the deployment and of its candidate.
RollBackDeployment(d) == Settle(d, deployments[d], "rollback")

\* The counters of the deployment after one more observation.
Counted(row, lane, diff) ==
    LET failed == IF diff \in Failures THEN 1 ELSE 0
        differ == IF diff \in Disagreements THEN 1 ELSE 0
    IN  IF lane = "canary"
        THEN [row EXCEPT !.canarySamples = row.canarySamples + 1,
                         !.canaryFailures = row.canaryFailures + failed]
        ELSE [row EXCEPT !.samples = row.samples + 1,
                         !.failures = row.failures + failed,
                         !.disagreements = row.disagreements + differ]

(***************************************************************************)
(* A query: Text2SQLWebService.query and execute of the release manager.   *)
(***************************************************************************)
GoOn(q, frame) == query' = [query EXCEPT ![q] = frame]

\* The process reads the versions and the active policy, and builds its engine.
Begin(q, t) ==
    /\ query[q].pc \in {"idle", "done"}
    /\ GoOn(q, [Idle("assign") EXCEPT !.task = t, !.env = env, !.policy = active])
    /\ UNCHANGED <<env, tables, operator>>

\* Mutant of Pinned: only the policy is compared.
PinnedToPolicy(q, d) ==
    deployments[d].stable = active /\ deployments[d].stable = query[q].policy

\* What assignment compares: the active policy is still the stable one, and the query
\* started under the versions the deployment was configured for (the policy among them).
Pinned(q, d) ==
    /\ deployments[d].stable = active
    /\ deployments[d].stable = query[q].policy
    /\ deployments[d].pins = query[q].env

\* active_deployment: the latest one that is sampling (OneReleaseAtATime: there is one).
IsSampling(d) == deployments[d].status \in Sampling

\* assignment: nothing is sampling, or the bucket of the task is not sampled.
AssignStable(q) ==
    /\ query[q].pc = "assign"
    /\ \/ \A d \in Deployments : ~IsSampling(d)
       \/ query[q].task \notin Sampled /\ \E d \in Deployments : IsSampling(d) /\ Pinned(q, d)
    /\ GoOn(q, [query[q] EXCEPT !.pc = "stable"])
    /\ UNCHANGED <<env, tables, operator>>

\* assignment: something drifted since the deployment was configured.
AssignDrifted(q, d) ==
    /\ query[q].pc = "assign"
    /\ IsSampling(d) /\ ~Pinned(q, d)
    /\ GoOn(q, [query[q] EXCEPT !.pc = "drift", !.deployment = d])
    /\ UNCHANGED <<env, tables, operator>>

\* assignment: the query is sampled, in the lane of the status it has read.
AssignSampled(q, d) ==
    /\ query[q].pc = "assign"
    /\ query[q].task \in Sampled
    /\ IsSampling(d) /\ Pinned(q, d)
    /\ GoOn(q, [query[q] EXCEPT !.pc = "run", !.deployment = d,
                  !.lane = IF deployments[d].status = "canary_running"
                           THEN "canary" ELSE "stable"])
    /\ UNCHANGED <<env, tables, operator>>

\* The _rollback of a drifted deployment is a transaction of its own.
RollBackDrifted(q) ==
    /\ query[q].pc = "drift"
    /\ RollBackDeployment(query[q].deployment)
    /\ GoOn(q, [query[q] EXCEPT !.pc = "stable"])
    /\ UNCHANGED <<env, active, observations, operator>>

\* Only the stable policy runs; an error is raised to the caller.
RunStable(q) ==
    /\ query[q].pc = "stable"
    /\ \E answered \in {"none", "stable"} :
         GoOn(q, [Idle("done") EXCEPT !.answered = answered])
    /\ UNCHANGED <<env, tables, operator>>

\* Both policies run; compare_shadow_results classifies what they returned.
RunBoth(q) ==
    /\ query[q].pc = "run"
    /\ \E diff \in Diffs : GoOn(q, [query[q] EXCEPT !.pc = "record", !.diff = diff])
    /\ UNCHANGED <<env, tables, operator>>

\* The stable runner failed: nothing is recorded.
RunFails(q) ==
    /\ query[q].pc = "run"
    /\ GoOn(q, Idle("done"))
    /\ UNCHANGED <<env, tables, operator>>

\* _record_observation first looks for the observation of an earlier execution.
Record(q) ==
    LET o == <<query[q].deployment, query[q].task, query[q].lane>>
    IN  /\ query[q].pc = "record"
        /\ GoOn(q, [query[q] EXCEPT
             !.pc = IF Recorded(o) THEN "advance" ELSE "insert"])
        /\ UNCHANGED <<env, tables, operator>>

\* Mutant of Insert: an ignored insert counts as well.
InsertCountingTwice(q) ==
    LET d == query[q].deployment
        o == <<d, query[q].task, query[q].lane>>
        row == Counted(deployments[d], query[q].lane, query[q].diff)
    IN  /\ query[q].pc = "insert"
        /\ observations' = IF Recorded(o) THEN observations ELSE
             [observations EXCEPT ![o] =
                [review |-> IF query[q].lane = "stable" /\ query[q].diff # "same"
                            THEN "pending" ELSE "not_required",
                 diff |-> query[q].diff, verdict |-> ""]]
        /\ \E slow \in BOOLEAN : Settle(d, row, Decision(row, query[q].diff, slow))
        /\ GoOn(q, [query[q] EXCEPT !.pc = "answer"])
        /\ UNCHANGED <<env, active, operator>>

\* Mutant of Insert: the transition is left to a transaction of its own.
InsertThenAdvance(q) ==
    LET d == query[q].deployment
        o == <<d, query[q].task, query[q].lane>>
    IN  /\ query[q].pc = "insert"
        /\ ~Recorded(o)
        /\ observations' = [observations EXCEPT ![o] =
             [review |-> "not_required", diff |-> query[q].diff, verdict |-> ""]]
        /\ deployments' = [deployments EXCEPT ![d] =
             Counted(deployments[d], query[q].lane, query[q].diff)]
        /\ GoOn(q, [query[q] EXCEPT !.pc = "advance"])
        /\ UNCHANGED <<env, active, policies, audit, operator>>

\* INSERT OR IGNORE, the counters, and the transition in one transaction.  If a
\* concurrent execution of the task was faster its diff decides.
Insert(q) ==
    LET d == query[q].deployment
        o == <<d, query[q].task, query[q].lane>>
        known == Recorded(o)
        diff == IF known THEN observations[o].diff ELSE query[q].diff
        row  == IF known THEN deployments[d]
                ELSE Counted(deployments[d], query[q].lane, diff)
    IN  /\ query[q].pc = "insert"
        /\ observations' = IF known THEN observations ELSE
             [observations EXCEPT ![o] =
                [review |-> IF query[q].lane = "stable" /\ diff # "same"
                            THEN "pending" ELSE "not_required",
                 diff |-> diff, verdict |-> ""]]
        /\ \E slow \in BOOLEAN : Settle(d, row, Decision(row, diff, slow))
        /\ GoOn(q, [query[q] EXCEPT !.pc = "answer"])
        /\ UNCHANGED <<env, active, operator>>

\* The task was recorded before: _advance_or_rollback reads the deployment in
\* autocommit mode ...
Advance(q) ==
    LET d == query[q].deployment
        o == <<d, query[q].task, query[q].lane>>
    IN  /\ query[q].pc = "advance"
        /\ \E slow \in BOOLEAN :
             GoOn(q, [query[q] EXCEPT !.pc = "settle",
                        !.decision = Decision(deployments[d], observations[o].diff, slow)])
        /\ UNCHANGED <<env, tables, operator>>

\* ... and writes in a transaction of its own.
SettleLater(q) ==
    LET d == query[q].deployment
    IN  /\ query[q].pc = "settle"
        /\ Settle(d, deployments[d], query[q].decision)
        /\ GoOn(q, [query[q] EXCEPT !.pc = "answer"])
        /\ UNCHANGED <<env, active, observations, operator>>

\* A canary query is answered by the candidate, unless it failed.
Answer(q) ==
    /\ query[q].pc = "answer"
    /\ GoOn(q, [Idle("done") EXCEPT !.deployment = query[q].deployment,
         !.answered = IF query[q].lane = "canary" /\ query[q].diff \notin Failures
                      THEN "candidate" ELSE "stable"])
    /\ UNCHANGED <<env, tables, operator>>

\* The process dies; the caller may send the task again.
Crash(q) ==
    /\ query[q].pc \notin {"idle", "done"}
    /\ GoOn(q, Idle("idle"))
    /\ UNCHANGED <<env, tables, operator>>

(***************************************************************************)
(* The operators.  Each operation checks, then writes what it has decided. *)
(***************************************************************************)
Decide(o, todo, p, d) ==
    /\ operator[o].todo = "nothing"
    /\ operator' = [operator EXCEPT ![o] =
          [Nothing EXCEPT !.todo = todo, !.policy = p, !.deployment = d,
                          !.env = env, !.previous = active]]
    /\ UNCHANGED <<env, tables, query>>

Writes(o, todo) ==
    /\ operator[o].todo = todo
    /\ operator' = [operator EXCEPT ![o] = Nothing]
    /\ UNCHANGED <<env, query>>

\* The command dies between its two steps.
Abandon(o) ==
    /\ operator[o].todo # "nothing"
    /\ operator' = [operator EXCEPT ![o] = Nothing]
    /\ UNCHANGED <<env, tables, query>>

\* propose_policy: the version is the primary key of its row.
Propose(p, parent) ==
    /\ policies[p].status = "absent" /\ policies[parent].status # "absent"
    /\ policies' = [policies EXCEPT ![p] =
          [status |-> "candidate", parent |-> parent, passed |-> {}]]
    /\ UNCHANGED <<env, active, deployments, observations, audit, query, operator>>

\* record_evaluation: the reports compare the candidate with its parent under the same
\* versions (and target replay passed, where the proposal requires one).
CheckEvaluation(o, p) ==
    /\ policies[p].status \in {"candidate", "evaluated", "shadow_ready"}
    /\ Decide(o, "evaluate", p, NoDeployment)

RecordEvaluation(o) ==
    LET p == operator[o].policy
    IN  /\ Writes(o, "evaluate")
        /\ \E eligible \in BOOLEAN :
             policies' = [policies EXCEPT
               ![p].status = IF eligible THEN "shadow_ready" ELSE "evaluated",
               ![p].passed = IF eligible THEN {operator[o].env} ELSE {}]
        /\ UNCHANGED <<active, deployments, observations, audit>>

\* The offline gate was passed against the active policy under the current versions.
ReadyToRelease(p) ==
    /\ policies[p].status = "shadow_ready"
    /\ policies[p].parent = active
    /\ env \in policies[p].passed

\* configure_shadow
CheckConfiguration(o, p) ==
    ReadyToRelease(p) /\ Decide(o, "configure", p, NoDeployment)

\* Mutant of Unfinished: what waits for people is forgotten.
UnfinishedSampling == {e \in Deployments : deployments[e].status \in Sampling}

Unfinished == {e \in Deployments : deployments[e].status \in Open}

\* What is still open is superseded, with its candidates.
ConfigureShadow(o, d) ==
    LET superseded == {deployments[e].candidate : e \in Unfinished}
        new == [status |-> "shadow_running", stable |-> operator[o].previous,
                candidate |-> operator[o].policy, pins |-> operator[o].env, samples |-> 0,
                failures |-> 0, disagreements |-> 0, canarySamples |-> 0, canaryFailures |-> 0]
    IN  /\ Writes(o, "configure")
        /\ deployments[d].status = "absent"
        /\ deployments' = [e \in Deployments |->
              IF e = d THEN new
              ELSE IF e \in Unfinished THEN [deployments[e] EXCEPT !.status = "superseded"]
              ELSE deployments[e]]
        /\ policies' = [p \in Policies |->
              IF p = new.candidate THEN [policies[p] EXCEPT !.status = "shadow_running"]
              ELSE IF p \in superseded THEN [policies[p] EXCEPT !.status = "shadow_superseded"]
              ELSE policies[p]]
        /\ Log("shadow_configure", new.stable, new.candidate)
        /\ UNCHANGED <<active, observations>>

\* review_observation: only shadow observations wait for a verdict.
CheckReview(o, d, t, verdict) ==
    /\ operator[o].todo = "nothing"
    /\ observations[d, t, "stable"].review = "pending"
    /\ deployments[d].status = "shadow_review"
    /\ operator' = [operator EXCEPT ![o] = [Nothing EXCEPT !.todo = "review",
          !.deployment = d, !.task = t, !.verdict = verdict]]
    /\ UNCHANGED <<env, tables, query>>

ReviewObservation(o) ==
    LET key == <<operator[o].deployment, operator[o].task, "stable">>
    IN  /\ Writes(o, "review")
        /\ observations' = [observations EXCEPT ![key].review = "reviewed",
                                                ![key].verdict = operator[o].verdict]
        /\ UNCHANGED <<active, policies, deployments, audit>>

ObservationsOf(d) == {o \in DOMAIN observations : o[1] = d /\ Recorded(o)}
Pending(d) == {o \in ObservationsOf(d) : observations[o].review = "pending"}
Adverse(d) == {o \in ObservationsOf(d) : observations[o].verdict = "reject"}

\* approve_shadow: an adverse verdict turns the approval into a rollback.
CheckApproval(o, d) ==
    /\ deployments[d].status = "shadow_review"
    /\ Pending(d) = {}
    /\ Decide(o, IF Adverse(d) = {} THEN "approve" ELSE "reject", Baseline, d)

RejectShadow(o) ==
    /\ Writes(o, "reject")
    /\ RollBackDeployment(operator[o].deployment)
    /\ UNCHANGED <<active, observations>>

ApproveShadow(o) ==
    LET d == operator[o].deployment
        row == deployments[d]
    IN  /\ Writes(o, "approve")
        /\ deployments' = [deployments EXCEPT ![d].status = "shadow_passed"]
        /\ SetStatus(row.candidate, "canary_ready")
        /\ Log("shadow_approve", row.stable, row.candidate)
        /\ UNCHANGED <<active, observations>>

\* start_canary
CheckCanary(o, d) ==
    /\ deployments[d].status = "shadow_passed"
    /\ Decide(o, "canary", Baseline, d)

StartCanary(o) ==
    LET d == operator[o].deployment
        row == deployments[d]
    IN  /\ Writes(o, "canary")
        /\ deployments' = [deployments EXCEPT ![d].status = "canary_running",
              ![d].canarySamples = 0, ![d].canaryFailures = 0]
        /\ SetStatus(row.candidate, "canary_running")
        /\ Log("canary_start", row.stable, row.candidate)
        /\ UNCHANGED <<active, observations>>

\* Mutant of CheckActivation: a canary that is still running will do.
CheckActivationOfRunning(o, p) ==
    /\ policies[p].status \in {"canary_running", "canary_passed"}
    /\ policies[p].parent = active
    /\ \E d \in Deployments :
         /\ deployments[d].candidate = p
         /\ deployments[d].status \in {"canary_running", "canary_passed"}
         /\ deployments[d].stable = active /\ deployments[d].pins = env
    /\ Decide(o, "activate", p, NoDeployment)

\* activate_policy
CheckActivation(o, p) ==
    /\ policies[p].status = "canary_passed"
    /\ policies[p].parent = active
    /\ \E d \in Deployments :
         /\ deployments[d].candidate = p /\ deployments[d].status = "canary_passed"
         /\ deployments[d].stable = active /\ deployments[d].pins = env
    /\ Decide(o, "activate", p, NoDeployment)

\* The previous policy retires if it is still an approved one.
Switch(previous, p) ==
    /\ active' = p
    /\ policies' = [x \in Policies |->
          IF x = p THEN [policies[x] EXCEPT !.status = "approved"]
          ELSE IF x = previous /\ policies[x].status = "approved"
          THEN [policies[x] EXCEPT !.status = "retired"] ELSE policies[x]]

ActivatePolicy(o) ==
    LET p == operator[o].policy
    IN  /\ Writes(o, "activate")
        /\ Switch(operator[o].previous, p)
        /\ deployments' = [d \in Deployments |->
              IF deployments[d].candidate = p /\ deployments[d].status = "canary_passed"
              THEN [deployments[d] EXCEPT !.status = "stable"] ELSE deployments[d]]
        /\ Log("approve", operator[o].previous, p)
        /\ UNCHANGED observations

\* activate_policy_automatically: a compiled candidate needs the offline gate only.
CheckAutomatic(o, p) ==
    /\ p \in Compiled
    /\ ReadyToRelease(p)
    /\ Decide(o, "automatic", p, NoDeployment)

ActivateAutomatically(o) ==
    LET p == operator[o].policy
    IN  /\ Writes(o, "automatic")
        /\ Switch(operator[o].previous, p)
        /\ Log("automatic_offline_gate_approve", operator[o].previous, p)
        /\ UNCHANGED <<deployments, observations>>

\* rollback to a policy that was active before
CheckRollback(o, target) ==
    /\ policies[target].status \in {"approved", "retired"}
    /\ target # active
    /\ Decide(o, "rollback", target, NoDeployment)

RollBack(o) ==
    LET previous == operator[o].previous
        target == operator[o].policy
    IN  /\ Writes(o, "rollback")
        /\ policies' = [policies EXCEPT ![previous].status = "retired",
                                        ![target].status = "approved"]
        /\ active' = target
        /\ deployments' = [d \in Deployments |->
              IF deployments[d].status # "absent" /\ deployments[d].candidate = previous
              THEN [deployments[d] EXCEPT !.status = "rolled_back"] ELSE deployments[d]]
        /\ Log("rollback", previous, target)
        /\ UNCHANGED observations

\* Data, indexes, memory, the model or the code are replaced by new versions.
ChangeEnvironment ==
    /\ env' \in Environments \ {env}
    /\ UNCHANGED <<tables, query, operator>>

QueryStep(q) ==
    \/ \E t \in Tasks : Begin(q, t)
    \/ AssignStable(q)
    \/ \E d \in Deployments : AssignDrifted(q, d)
    \/ \E d \in Deployments : AssignSampled(q, d)
    \/ RollBackDrifted(q)
    \/ RunStable(q)
    \/ RunBoth(q)
    \/ RunFails(q)
    \/ Record(q)
    \/ Insert(q)
    \/ Advance(q)
    \/ SettleLater(q)
    \/ Answer(q)
    \/ Crash(q)

OperatorStep(o) ==
    \/ Abandon(o)
    \/ \E p \in Policies : CheckEvaluation(o, p)
    \/ RecordEvaluation(o)
    \/ \E p \in Policies : CheckConfiguration(o, p)
    \/ \E d \in Deployments : ConfigureShadow(o, d)
    \/ \E d \in Deployments, t \in Tasks, verdict \in Verdicts : CheckReview(o, d, t, verdict)
    \/ ReviewObservation(o)
    \/ \E d \in Deployments : CheckApproval(o, d)
    \/ RejectShadow(o)
    \/ ApproveShadow(o)
    \/ \E d \in Deployments : CheckCanary(o, d)
    \/ StartCanary(o)
    \/ \E p \in Policies : CheckActivation(o, p)
    \/ ActivatePolicy(o)
    \/ \E p \in Policies : CheckAutomatic(o, p)
    \/ ActivateAutomatically(o)
    \/ \E p \in Policies : CheckRollback(o, p)
    \/ RollBack(o)

Next ==
    \/ \E q \in Queries : QueryStep(q)
    \/ \E o \in Operators : OperatorStep(o)
    \/ \E p, parent \in Policies : Propose(p, parent)
    \/ ChangeEnvironment

Spec == Init /\ [][Next]_vars

(***************************************************************************)
(* Properties                                                              *)
(***************************************************************************)
\* The tables and the frames hold what the code can put into them: the statuses of
\* the schema, assigned by configure_shadow to the last transition.
TypeOK ==
    /\ env \in Environments
    /\ active \in Policies
    /\ policies \in [Policies -> PolicyType]
    /\ deployments \in [Deployments -> DeploymentType]
    /\ observations \in [Deployments \X Tasks \X Lanes -> ObservationType]
    /\ audit \subseteq {"shadow_configure", "shadow_approve", "canary_start", "approve",
                       "automatic_offline_gate_approve", "automatic_release_rollback",
                       "rollback"} \X Policies \X Policies
    /\ query \in [Queries -> QueryType]
    /\ operator \in [Operators -> OperatorType]

\* The counters that decide about a release are the numbers of its observations: a
\* task counts once per lane, however often and however concurrently it is executed
\* (_record_observation: the lookup, INSERT OR IGNORE and its row count).
CountersMatchObservations ==
    \A d \in Deployments :
        LET In(lane) == {o \in ObservationsOf(d) : o[3] = lane}
            With(lane, diffs) == {o \in In(lane) : observations[o].diff \in diffs}
        IN  /\ deployments[d].samples = Cardinality(In("stable"))
            /\ deployments[d].failures = Cardinality(With("stable", Failures))
            /\ deployments[d].disagreements =
                 Cardinality(With("stable", Disagreements))
            /\ deployments[d].canarySamples = Cardinality(In("canary"))
            /\ deployments[d].canaryFailures = Cardinality(With("canary", Failures))

\* A recorded failure of the candidate ends its shadow, whatever crashes or runs
\* concurrently (the comment of _record_observation: "so a process crash cannot
\* strand a failed candidate").
NoFailedCandidateStranded ==
    \A d \in Deployments :
        deployments[d].status \in {"shadow_running", "shadow_review"} =>
            \A o \in ObservationsOf(d) : observations[o].diff \notin Failures

\* A deployment does not outlive its sample: it is decided in the transaction that
\* completes the sample (_advance_or_rollback).
SamplingEndsAtItsTarget ==
    \A d \in Deployments :
        /\ deployments[d].status = "shadow_running" => deployments[d].samples < MinShadow
        /\ deployments[d].status = "canary_running" => deployments[d].canarySamples < MinCanary

\* A deployment is decided in the transaction that decides about it: no crash and no
\* concurrent query leaves a failed candidate, or a completed sample, behind.
DecidedInTime == NoFailedCandidateStranded /\ SamplingEndsAtItsTarget

\* The status of an unfinished deployment and that of its candidate, two rows written
\* by seven operations, agree.
PolicyFollowsDeployment ==
    \A d \in Unfinished :
        policies[deployments[d].candidate].status =
            IF deployments[d].status = "shadow_passed" THEN "canary_ready"
            ELSE deployments[d].status

\* configure_shadow supersedes what is unfinished: active_deployment has one choice.
OneReleaseAtATime == Cardinality(Unfinished) <= 1

\* Activation and rollback retire the policy they replace.
AtMostOneApproved ==
    Cardinality({p \in Policies : policies[p].status = "approved"}) <= 1

\* Releases follow each other, whatever is superseded, activated or rolled back: at most
\* one deployment is unfinished and at most one policy is the approved one.
ReleasesSucceed == OneReleaseAtATime /\ AtMostOneApproved

\* A user sees an answer of a candidate only in a release whose shadow a person has
\* approved: never in the shadow lane.
CandidateAnswersAfterApproval ==
    \A q \in Queries :
        query[q].answered = "candidate" =>
            LET d == query[q].deployment
            IN  <<"shadow_approve", deployments[d].stable, deployments[d].candidate>> \in audit

\* A candidate runs only in a process that started under versions its offline gate was
\* passed under, whatever changed since then (record_evaluation to assignment).
CandidateRunsAsEvaluated ==
    \A q \in Queries :
        query[q].pc \in {"run", "record", "insert", "advance", "settle", "answer"} =>
            query[q].env \in policies[deployments[query[q].deployment].candidate].passed

\* A deployment a reviewer judged adversely does not pass its shadow (approve_shadow).
NoAdverseVerdictPassed ==
    \A d \in Deployments :
        deployments[d].status \in {"shadow_passed", "canary_running", "canary_passed", "stable"}
            => Adverse(d) = {}

\* What a candidate is allowed to do it was cleared for: to run, by the offline gate
\* under the same versions; to pass its shadow, by every verdict; to answer, by a person.
CandidateIsCleared ==
    CandidateRunsAsEvaluated /\ NoAdverseVerdictPassed /\ CandidateAnswersAfterApproval

\* The active policy changes only to one that was active before, to a compiled candidate
\* of the active policy that passed the offline gate, or to a candidate of the active
\* policy that completed both samples against it.
ActivationIsEarned ==
    [][active' # active =>
         \/ active' = Baseline
         \/ \E change \in audit :
              /\ change[1] \in {"approve", "automatic_offline_gate_approve"}
              /\ change[3] = active'
         \/ /\ active' \in Compiled /\ policies[active'].parent = active
            /\ policies[active'].passed # {}
         \/ \E d \in Deployments :
              /\ deployments[d].candidate = active' /\ deployments[d].stable = active
              /\ deployments[d].samples >= MinShadow
              /\ deployments[d].canarySamples >= MinCanary]_vars

\* The policy that answers is an approved one: a release is undone by rollback, which
\* also changes the active policy.
ActivePolicyIsApproved == policies[active].status = "approved"

=============================================================================
